------------------------ MODULE InstanceDeviceProofs ------------------------
(***************************************************************************)
(* No device is lost: DeviceAccounted, as long as no call fails, the       *)
(* process does not die and nobody deletes an Instance before wrangler's   *)
(* finalizer is on it.  Each of the three makes it false.                  *)
(***************************************************************************)
EXTENDS InstanceProofs

NoAccident == Disturbances \cap {"fault", "crash", "deleteEarly"} = {}

(* Nothing has been heard of a node, nor can there be one.                 *)
NoNode ==
  node = "absent" /\ nodePass = NodeIdle /\ \A d \in Devices : device[d].boots = "shell"

(* Until the first UpdateStatus all that happened is known to one pass.    *)
Unsubmitted ==
  /\ object = NewInstance /\ ~stale /\ NoNode
  /\ \/ At({"idle"}) /\ cache = NewInstance /\ Live = {}
     \/ At({"create"}) /\ pass.fresh /\ pass.shared /\ Live = {}
     \/ /\ At({"submitStatus"}) /\ pass.fresh /\ pass.shared
        /\ Live \subseteq {pass.i.id}

(* From then on every copy knows the device.  The finalizer that protects  *)
(* it is missing for one call only, in which nobody can delete the object, *)
(* and once it has been deleted it goes after the device.                  *)
Protected ==
  "equinix" \notin object.finalizers =>
    \/ object = Gone
    \/ object.deleting /\ Live = {}
    \/ /\ object.finalizers = {} /\ ~object.deleting
       /\ At({"submitFinalizer"}) /\ pass.fresh /\ NoNode

DeviceGone == {"deleteNode", "dropEquinix", "dropWrangler"}

Copies ==
  /\ object.status # "" /\ cache.status # "" /\ (~At({"idle"}) => pass.i.status # "")
  /\ object # Gone => /\ cache # Gone => cache.id = object.id
                      /\ ~At({"idle"}) => pass.i.id = object.id
  /\ ~stale /\ object # Gone /\ ~object.deleting => cache.finalizers = object.finalizers
  /\ ~At({"idle"} \cup Removing) /\ pass.fresh => pass.i.finalizers = object.finalizers

Submitted ==
  /\ Copies /\ Protected /\ ~At({"submitStatus"})
  /\ Live \subseteq {object.id}
  /\ cache.deleting /\ "equinix" \notin cache.finalizers => Live = {}
  /\ At(DeviceGone) => Live = {}

AccountedInv == Unsubmitted \/ Submitted

(***************************************************************************)
(* Devices and nodes.                                                      *)
(***************************************************************************)
LEMMA LiveDevices == Live = {d \in Devices : device[d].state \in {"busy", "active"}}
BY DEF Live, Exists

(* Only submitRequest adds to the devices.                                 *)
LEMMA NoOtherDevice ==
  ASSUME NoAccident, AroundTypes, [Next]_vars, ~CreateNewDevice
  PROVE  Live' \subseteq Live
<1>1. CASE UNCHANGED device
  BY <1>1, LiveDevices DEF Live, Exists
<1>2. CASE ReinstallDevice
  BY <1>2 DEF ReinstallDevice, Live, Exists, AroundTypes
<1>3. CASE DeleteDevice
  BY <1>3 DEF DeleteDevice, Live, Exists, AroundTypes, Device
<1>4. ASSUME NEW d \in Devices, Install(d) \/ Join(d) PROVE Live' \subseteq Live
  BY <1>4 DEF Install, Join, Live, Exists, AroundTypes, Device
<1>5. ASSUME Handle PROVE UNCHANGED device \/ ReinstallDevice \/ DeleteDevice
  BY <1>5
  DEF Handle, Write, CheckDevice, Reinstall, ManageNodes, AddFinalizer, RemoveDevice,
      RemoveNode, DropEquinix, DropWrangler, Call, At, UpdateStatus, Update,
      FindAndDeleteNode, store
<1>6. ~Fault
  BY DEF Fault, Disturb, NoAccident
<1>7. \/ UNCHANGED device \/ ReinstallDevice \/ DeleteDevice
      \/ \E d \in Devices : Install(d) \/ Join(d)
  BY <1>5, <1>6
  DEF Next, Start, StartNode, NodeHandle, ResolveNode, DeleteInstance, NodeTimer, Deliver,
      Environment, NodeFails, DeleteNode, Recover, Elapse, NodeRemoved, Heartbeat,
      NodeStep, Delete, NodeFault, Crash, Resync, store, vars
<1> QED
  BY <1>1, <1>2, <1>3, <1>4, <1>7

(* Without a reinstallation there is no node.                              *)
LEMMA NoNodeKept ==
  ASSUME NoAccident, AroundTypes, NoNode, [Next]_vars,
         At({"idle", "create", "submitStatus", "submitFinalizer"})
  PROVE  NoNode'
<1>1. CASE UNCHANGED <<device, node, nodePass>>
  BY <1>1 DEF NoNode
<1>2. CASE CreateNewDevice
  BY <1>2 DEF CreateNewDevice, CreateDevice, NoNode, AroundTypes, Device, nodeWork
<1>3. CASE Handle /\ ~CreateNewDevice
  <2>1. Write
    BY <1>3 DEF Handle, CheckDevice, Reinstall, ManageNodes, AddFinalizer, RemoveDevice,
                RemoveNode, DropEquinix, DropWrangler, At
  <2> QED
    BY <1>1, <2>1 DEF Write, Call, At, UpdateStatus, Update, store, nodeWork
<1>4. CASE StartNode \/ NodeHandle \/ NodeTimer
  BY <1>4 DEF StartNode, NodeHandle, ResolveNode, DeleteInstance, NodeTimer, NoNode,
              NodeIdle, store
<1>5. ASSUME NEW d \in Devices, Install(d) \/ Join(d) PROVE NoNode'
  BY <1>5 DEF Install, Join, Rest, NoNode, AroundTypes, Device
<1>6. ~(NodeFails \/ DeleteNode \/ Recover \/ Elapse \/ NodeRemoved \/ Heartbeat)
  BY DEF NodeFails, DeleteNode, Recover, Elapse, NodeRemoved, Heartbeat, NodeStep, NoNode
<1>7. ~(Fault \/ NodeFault \/ Crash)
  BY DEF Fault, NodeFault, Crash, Disturb, NoAccident
<1>8. Start \/ Deliver \/ Delete \/ Resync \/ UNCHANGED vars
        => UNCHANGED <<device, node, nodePass>>
  BY DEF Start, Deliver, Delete, Resync, store, nodeWork, vars
<1> QED
  BY <1>1, <1>2, <1>3, <1>4, <1>5, <1>6, <1>7, <1>8 DEF Next, Environment

(***************************************************************************)
(* Before the first UpdateStatus.                                          *)
(***************************************************************************)
LEMMA UnsubmittedNext ==
  ASSUME NoAccident, Core, AroundTypes, Unsubmitted, [Next]_vars
  PROVE  AccountedInv'
<1>0. /\ NewInstance # Gone /\ NewInstance.status = "" /\ NewInstance.deleting = FALSE
      /\ NewInstance.finalizers = {} /\ NewInstance.id = NoDevice
  BY GoneIsNone, NewIsOne DEF NewInstance
<1>1. NoNode'
  BY NoNodeKept DEF Unsubmitted, At
<1>2. ASSUME UNCHANGED <<object, stale, cache, pass>>, ~CreateNewDevice
      PROVE  Unsubmitted'
  <2>1. Live' \subseteq Live
    BY <1>2, NoOtherDevice
  <2> QED
    BY <1>1, <1>2, <2>1 DEF Unsubmitted, At
<1>3. CASE Start
  <2>1. At({"idle"}) /\ cache = NewInstance /\ Live = {}
    BY <1>3 DEF Start, Unsubmitted, At
  <2>2. Handler(cache) = "create"
    BY <1>0, <2>1 DEF Handler, OnInstanceChange
  <2>3. pass' = [at |-> "create", i |-> cache, shared |-> TRUE,
                 fresh |-> ~stale, failed |-> FALSE]
    BY <1>3, <2>2 DEF Start
  <2>4. pass'.at = "create" /\ pass'.fresh = ~stale /\ pass'.shared
    BY <2>3
  <2>5. UNCHANGED <<object, stale, device>>
    BY <1>3 DEF Start, store
  <2> QED
    BY <1>1, <2>1, <2>4, <2>5 DEF AccountedInv, Unsubmitted, At, Live, Exists
<1>4. CASE CreateNewDevice
  <2>1. PICK d \in Devices, state \in CreateStates :
          CreateDevice(d) /\ Assign(Created(pass.i, d, state), "submitStatus")
    BY <1>4 DEF CreateNewDevice
  <2>2. Live = {} /\ pass.fresh /\ pass.shared
    BY <1>4 DEF CreateNewDevice, Unsubmitted, At
  <2>3. Live' \subseteq {d}
    BY <2>1, <2>2 DEF CreateDevice, Live, Exists, AroundTypes
  <2>4. /\ pass'.at = "submitStatus" /\ pass'.i.id = d
        /\ pass'.fresh = pass.fresh /\ pass'.shared = pass.shared
    BY <2>1 DEF Assign, Created, Core, CoreTypes, Pass, InstanceObject
  <2> QED
    BY <1>1, <2>1, <2>2, <2>3, <2>4
    DEF CreateDevice, AccountedInv, Unsubmitted, At
<1>5. CASE Write
  <2>1. /\ At({"submitStatus"}) /\ pass.fresh /\ pass.shared /\ Live \subseteq {pass.i.id}
        /\ cache = pass.i /\ pass.i.status # "" /\ pass.i \in InstanceObject
        /\ ~pass.i.deleting
    BY <1>5 DEF Write, Unsubmitted, At, Core, Handled, Staged, StageOK, CoreTypes, Pass,
                Removing
  <2>2. UpdateStatus /\ Wrote("submitFinalizer")
    BY <1>5, <2>1 DEF Write, Call, At
  <2>3. /\ object' \in InstanceObject /\ object' # Gone
        /\ object'.status = pass.i.status /\ object'.id = pass.i.id
        /\ object'.finalizers = {} /\ object'.deleting = FALSE /\ stale'
    BY <1>0, <2>1, <2>2, NewIsOne, GoneIsNone
    DEF UpdateStatus, Put, Unsubmitted, InstanceObject
  <2>4. /\ pass'.at = "submitFinalizer" /\ pass'.i = object' /\ pass'.fresh = pass.fresh
        /\ UNCHANGED <<cache, device>>
    BY <2>2 DEF Wrote, UpdateStatus, Core, CoreTypes, Pass
  <2>5. Copies'
    BY <2>1, <2>3, <2>4 DEF Copies, At
  <2>6. Protected'
    BY <1>1, <2>1, <2>3, <2>4 DEF Protected, At
  <2>7. Live' = Live
    BY <2>4 DEF Live, Exists
  <2> QED
    BY <2>1, <2>3, <2>4, <2>5, <2>6, <2>7 DEF AccountedInv, Submitted, At, DeviceGone
<1>6. ~(CheckDevice \/ Reinstall \/ ManageNodes \/ AddFinalizer \/ RemoveDevice
          \/ RemoveNode \/ DropEquinix \/ DropWrangler)
  BY DEF CheckDevice, Reinstall, ManageNodes, AddFinalizer, RemoveDevice, RemoveNode,
         DropEquinix, DropWrangler, Unsubmitted, At
<1>7. ~(Deliver \/ Delete \/ DeleteInstance \/ Fault \/ NodeFault \/ Crash)
  BY <1>0 DEF Deliver, Delete, DeleteInstance, Fault, NodeFault, Crash, Disturb,
              NoAccident, Unsubmitted, NoNode, NodeIdle
<1>8. ASSUME \/ StartNode \/ ResolveNode \/ NodeTimer \/ Resync \/ UNCHANGED vars
             \/ \E d \in Devices : Install(d) \/ Join(d)
             \/ NodeFails \/ DeleteNode \/ Recover \/ Elapse \/ NodeRemoved \/ Heartbeat
      PROVE  UNCHANGED <<object, stale, cache, pass>>
  BY <1>8
  DEF StartNode, ResolveNode, NodeTimer, Resync, Install, Join, NodeFails, DeleteNode,
      Recover, Elapse, NodeRemoved, Heartbeat, NodeStep, Rest, store, vars
<1> QED
  BY <1>2, <1>3, <1>4, <1>5, <1>6, <1>7, <1>8
  DEF Next, Handle, NodeHandle, Environment, AccountedInv
(***************************************************************************)
(* After it.  A step that leaves the object, its copies and the pass alone;*)
(* one that moves the pass on; and then the writes and deletions.          *)
(***************************************************************************)
LEMMA SubmittedKept ==
  ASSUME Submitted, UNCHANGED <<object, stale, cache, pass>>, Live' \subseteq Live,
         NoNode /\ At({"submitFinalizer"}) => NoNode'
  PROVE  Submitted'
BY DEF Submitted, Copies, Protected, At, DeviceGone, Removing

(* The pass goes on with i, which is what it had except for its status.    *)
LEMMA SubmittedMoved ==
  ASSUME Core, Submitted, UNCHANGED <<object, stale>>, Live' \subseteq Live,
         ~(At({"submitFinalizer"}) /\ pass.fresh), ~At({"idle"} \cup Removing),
         NEW stage \in {"hold", "reinstall", "writeStatus"},
         NEW i \in InstanceObject, i.status # "", i.id = pass.i.id,
         i.finalizers = pass.i.finalizers, i.deleting = pass.i.deleting,
         pass'.at = stage, pass'.i = i, pass'.fresh = pass.fresh,
         cache' \in {cache, IF pass.shared THEN i ELSE cache}
  PROVE  Submitted'
<1>1. ~pass.i.deleting
  BY DEF Core, Staged, StageOK, At
<1>2. Protected'
  BY DEF Submitted, Protected, At
<1>3. cache' = cache \/ (cache = pass.i /\ cache' = i)
  BY DEF Core, Handled, At
<1>4. Copies'
  BY <1>1, <1>3 DEF Submitted, Copies, At, Removing
<1>5. cache'.deleting /\ "equinix" \notin cache'.finalizers => Live' = {}
  BY <1>1, <1>3 DEF Submitted
<1> QED
  BY <1>2, <1>4, <1>5 DEF Submitted, At, DeviceGone

(* The pass is over and changed nothing.                                   *)
LEMMA SubmittedReturned ==
  ASSUME Submitted, UNCHANGED <<object, stale, cache>>, Live' \subseteq Live,
         ~(At({"submitFinalizer"}) /\ pass.fresh), pass' = Idle
  PROVE  Submitted'
<1>1. pass'.at = "idle"
  BY DEF Idle
<1> QED
  BY <1>1 DEF Submitted, Copies, Protected, At, DeviceGone

LEMMA SubmittedStart ==
  ASSUME Core, Submitted, Start PROVE Submitted'
<1>1. UNCHANGED <<object, stale, cache, device>> /\ At({"idle"})
  BY DEF Start, store
<1>2. Live' = Live
  BY <1>1 DEF Live, Exists
<1>3. CASE Handler(cache) = "idle"
  BY <1>1, <1>2, <1>3, SubmittedReturned DEF Start, At
<1>4. CASE Handler(cache) # "idle"
  <2>1. pass' = [at |-> Handler(cache), i |-> cache, shared |-> TRUE,
                 fresh |-> ~stale, failed |-> FALSE]
    BY <1>4 DEF Start
  <2>2. pass'.at = Handler(cache) /\ pass'.i = cache /\ pass'.fresh = ~stale
    BY <2>1
  <2>3. /\ cache \in InstanceObject /\ cache # Gone
        /\ StageOK(Handler(cache), cache, TRUE)
    BY <1>4, HandlerFacts, GoneIsNone DEF Core, CoreTypes
  <2>4. Handler(cache) \notin {"submitStatus", "submitFinalizer", "deleteNode", "dropWrangler"}
    <3>1. CASE cache.deleting
      BY <2>3, <3>1 DEF Handler, OnInstanceRemove, InstanceObject, Finalizers
    <3>2. CASE ~cache.deleting
      BY <2>3, <3>2 DEF Handler, OnInstanceChange
    <3> QED
      BY <3>1, <3>2
  <2>5. Handler(cache) = "dropEquinix" =>
          cache.deleting /\ "equinix" \notin cache.finalizers
    <3>1. CASE cache.deleting
      <4>1. Handler(cache) = OnInstanceRemove(cache.finalizers)
        BY <2>3, <3>1 DEF Handler
      <4>2. cache.finalizers \in {{}, {"equinix"}, {"wrangler"}, Finalizers}
        BY <2>3 DEF InstanceObject, Finalizers
      <4> QED
        BY <3>1, <4>1, <4>2 DEF OnInstanceRemove, Finalizers
    <3>2. CASE ~cache.deleting
      BY <2>3, <3>2 DEF Handler, OnInstanceChange
    <3> QED
      BY <3>1, <3>2
  <2>6. ~stale /\ ~cache.deleting => cache.finalizers = object.finalizers
    BY <2>3 DEF Core, Cached, Ahead, Submitted, Copies
  <2>7. Copies'
    BY <1>1, <2>2, <2>3, <2>6 DEF Submitted, Copies, At, StageOK
  <2>8. Protected'
    BY <1>1, <1>2 DEF Submitted, Protected, At
  <2> QED
    BY <1>1, <1>2, <2>2, <2>4, <2>5, <2>7, <2>8 DEF Submitted, At, DeviceGone
<1> QED
  BY <1>3, <1>4

(* A write of the worker, to a live object.                                *)
LEMMA SubmittedWrite ==
  ASSUME NoAccident, Core, AroundTypes, Submitted, Write, [Next]_vars
  PROVE  Submitted'
<1>1. At({"submitFinalizer", "writeStatus"})
  BY DEF Write, Submitted, At
<1>2. Live' \subseteq Live
  BY <1>1, NoOtherDevice DEF CreateNewDevice, At
<1>3. CASE ~pass.fresh /\ HoldNow(TRUE) /\ UNCHANGED store
  <2>1. /\ pass'.at = "hold" /\ pass'.i = pass.i /\ pass'.fresh = pass.fresh
        /\ pass.i \in InstanceObject /\ pass.i.status # ""
        /\ UNCHANGED <<object, stale, cache>>
    BY <1>1, <1>3 DEF HoldNow, Core, CoreTypes, Pass, Submitted, Copies, At, store
  <2> QED
    BY <1>1, <1>2, <1>3, <2>1, SubmittedMoved DEF At, Removing
<1>4. CASE Call /\ Wrote("hold")
  <2>1. /\ object # Gone /\ object' # Gone /\ ~object.deleting /\ ~object'.deleting
        /\ stale' = (stale \/ object' # object) /\ Legal(object, object')
    BY <1>1, <1>4, CallStep DEF At
  <2>2. object \in InstanceObject /\ object' \in InstanceObject
    BY <2>1, LegalKeeps DEF Core, CoreTypes, Objects
  <2>3. pass'.at = "hold" /\ pass'.i = object' /\ UNCHANGED cache
    BY <1>4 DEF Wrote, Core, CoreTypes, Pass
  <2>4. /\ object'.id = object.id /\ object'.status # ""
        /\ "equinix" \in object'.finalizers
    <3>1. CASE At({"submitFinalizer"})
      <4>1. object' = [object EXCEPT !.finalizers = {"equinix"}]
        BY <1>4, <2>1, <3>1 DEF Call, At, Update, Put
      <4> QED
        BY <2>2, <4>1 DEF Submitted, Copies, InstanceObject
    <3>2. CASE At({"writeStatus"})
      <4>1. object' = [object EXCEPT !.status = pass.i.status, !.id = pass.i.id]
        BY <1>4, <3>2 DEF Call, At, UpdateStatus, Put
      <4>2. "equinix" \in object.finalizers
        BY <2>1, <3>2 DEF Submitted, Protected, At
      <4>3. pass.i.id = object.id /\ pass.i.status # ""
        BY <2>1, <3>2 DEF Submitted, Copies, At
      <4> QED
        BY <2>2, <4>1, <4>2, <4>3 DEF InstanceObject
    <3> QED
      BY <1>1, <3>1, <3>2 DEF At
  <2>5. ~stale' => ~stale /\ object' = object
    BY <2>1 DEF Core, CoreTypes
  <2>6. Copies'
    BY <2>1, <2>3, <2>4, <2>5 DEF Submitted, Copies, At, Removing
  <2>7. Protected'
    BY <2>4 DEF Protected
  <2> QED
    BY <1>2, <2>3, <2>4, <2>6, <2>7 DEF Submitted, At, DeviceGone
<1> QED
  BY <1>1, <1>3, <1>4 DEF Write, At

(* wrangler adds its finalizer to what it finds.                           *)
LEMMA SubmittedAdd ==
  ASSUME Core, Submitted, AddFinalizer, Live' \subseteq Live
  PROVE  Submitted'
<1>1. At({"hold"})
  BY DEF AddFinalizer
<1>2. CASE UNCHANGED <<object, stale>> /\ pass' = Idle /\ UNCHANGED cache
  BY <1>1, <1>2, SubmittedReturned DEF At
<1>3. CASE Call /\ pass' = Idle /\ UNCHANGED cache
  <2>1. /\ pass.fresh /\ object # Gone /\ object \in InstanceObject
        /\ ~object.deleting
    BY <1>1, <1>3 DEF Call, At, Update, Core, CoreTypes, Objects, Handled, Staged, StageOK,
                      Ahead, Removing
  <2>2. pass.i.finalizers = object.finalizers /\ "equinix" \in object.finalizers
    BY <1>1, <2>1 DEF Submitted, Copies, Protected, At, Removing
  <2>3. /\ object' = [object EXCEPT !.finalizers = object.finalizers \cup {"wrangler"}]
        /\ stale' = (stale \/ object' # object)
    BY <1>1, <1>3, <2>1, <2>2 DEF Call, At, Update, Put
  <2>4. /\ object'.id = object.id /\ object'.status = object.status
        /\ "equinix" \in object'.finalizers
        /\ object'.deleting = object.deleting
    BY <2>1, <2>2, <2>3 DEF InstanceObject
  <2>5. ~stale' => ~stale /\ object' = object
    BY <2>3 DEF Core, CoreTypes
  <2>6. pass'.at = "idle"
    BY <1>3 DEF Idle
  <2>7. Copies' /\ Protected'
    BY <1>3, <2>1, <2>4, <2>5, <2>6 DEF Submitted, Copies, Protected, At
  <2> QED
    BY <1>3, <2>4, <2>6, <2>7 DEF Submitted, At, DeviceGone
<1> QED
  BY <1>2, <1>3 DEF AddFinalizer, Return, store
(* OnInstanceRemove deletes the device before it takes a finalizer away.   *)
LEMMA SubmittedRemoveDevice ==
  ASSUME Core, AroundTypes, Submitted, RemoveDevice, Live' \subseteq Live
  PROVE  Submitted'
<1>1. /\ pass.at = "deleteDevice" /\ UNCHANGED <<object, stale, cache>>
      /\ pass'.at = "deleteNode" /\ pass'.i = pass.i
  BY DEF RemoveDevice, DeleteDevice, GoTo, At, Core, CoreTypes, Pass
<1>2. Live' = {}
  <2>1. Live \subseteq {pass.i.id}
    <3>1. CASE object = Gone
      <4>1. object.id = NoDevice
        BY <3>1 DEF Gone, NewInstance
      <4>2. Live \subseteq {NoDevice} /\ Live \subseteq Devices
        BY <4>1 DEF Submitted, Live
      <4> QED
        BY <4>2, ConstantsAssumption
    <3>2. CASE object # Gone
      BY <1>1, <3>2 DEF Submitted, Copies, At
    <3> QED
      BY <3>1, <3>2
  <2>2. \A d \in Devices : d = pass.i.id => device'[d].state = "deleted"
    BY DEF RemoveDevice, DeleteDevice, AroundTypes, Device
  <2> QED
    BY <2>1, <2>2 DEF Live, Exists
<1>3. Copies' /\ Protected'
  BY <1>1, <1>2 DEF Submitted, Copies, Protected, At, Removing
<1> QED
  BY <1>1, <1>2, <1>3 DEF Submitted, At

LEMMA SubmittedRemoveNode ==
  ASSUME Core, AroundTypes, Submitted, RemoveNode, Live' \subseteq Live
  PROVE  Submitted'
<1> DEFINE i == [pass.i EXCEPT !.finalizers = @ \ {"equinix"}]
<1>1. /\ pass.at = "deleteNode" /\ UNCHANGED <<object, stale>>
      /\ pass.i \in InstanceObject /\ pass.i.deleting
  BY DEF RemoveNode, FindAndDeleteNode, At, Core, CoreTypes, Pass, Staged, StageOK, Removing
<1>2. i.status = pass.i.status /\ i.id = pass.i.id /\ i.deleting
  BY <1>1 DEF InstanceObject
<1>3. /\ pass'.at = "dropEquinix" /\ pass'.i = i /\ pass'.fresh = pass.fresh
      /\ cache' = IF pass.shared THEN i ELSE cache
  BY <1>1 DEF RemoveNode, Assign, Core, CoreTypes, Pass
<1>4. Live = {} /\ Live' = {}
  BY <1>1 DEF Submitted, At, DeviceGone
<1> HIDE DEF i
<1>5. /\ pass.shared => cache = pass.i /\ (~stale => pass.fresh)
      /\ pass.fresh => object.deleting
  BY <1>1 DEF Core, Handled, At, Ahead
<1>6. Copies'
  BY <1>1, <1>2, <1>3, <1>5 DEF Submitted, Copies, At, Removing
<1>7. Protected'
  BY <1>1, <1>4 DEF Submitted, Protected, At
<1> QED
  BY <1>1, <1>3, <1>4, <1>6, <1>7 DEF Submitted, At

LEMMA SubmittedDrop ==
  ASSUME Core, Submitted, DropEquinix \/ DropWrangler, Live' \subseteq Live
  PROVE  Submitted'
<1>1. At({"dropEquinix", "dropWrangler"}) /\ Live = {} /\ Live' = {}
  BY DEF DropEquinix, DropWrangler, Submitted, At, DeviceGone
<1>2. CASE UNCHANGED store /\ pass' = Idle /\ UNCHANGED cache
  BY <1>1, <1>2, SubmittedReturned DEF At, store
<1>3. CASE /\ Call /\ UNCHANGED cache
           /\ pass' \in {Idle, [pass EXCEPT !.at = "dropWrangler",
                                            !.fresh = object' = object]}
  <2>1. pass'.at \in {"idle", "dropWrangler"} /\ (pass'.at # "idle" => pass'.i = pass.i)
    <3>1. Idle.at = "idle"
      BY DEF Idle
    <3>2. [pass EXCEPT !.at = "dropWrangler", !.fresh = object' = object].at = "dropWrangler"
          /\ [pass EXCEPT !.at = "dropWrangler", !.fresh = object' = object].i = pass.i
      BY DEF Core, CoreTypes, Pass
    <3> QED
      BY <1>3, <3>1, <3>2
  <2>2. object # Gone /\ object.deleting /\ object \in InstanceObject
    BY <1>1, <1>3 DEF Call, At, Update, Core, CoreTypes, Objects, Handled, Staged, StageOK,
                      Ahead, Removing
  <2>3. PICK f \in SUBSET Finalizers : Update(f)
    <3>1. pass.i.finalizers \subseteq Finalizers
      BY DEF Core, CoreTypes, Pass, InstanceObject
    <3> QED
      BY <1>1, <1>3, <3>1 DEF Call, At
  <2>4. stale' = (stale \/ object' # object)
    BY <2>3 DEF Update, Put
  <2>5. object' = Gone \/ object' = [object EXCEPT !.finalizers = f]
    BY <2>3 DEF Update, Put
  <2>6. CASE object' = Gone
    <3>1. Gone.status # "" /\ stale'
      BY <2>2, <2>4, <2>6, GoneIsNone
    <3> QED
      BY <1>1, <1>3, <2>1, <2>6, <3>1
      DEF Submitted, Copies, Protected, At, Removing, DeviceGone
  <2>7. CASE object' # Gone /\ object' = [object EXCEPT !.finalizers = f]
    <3>1. object'.status = object.status /\ object'.id = object.id /\ object'.deleting
      BY <2>2, <2>7 DEF InstanceObject
    <3> QED
      BY <1>1, <1>3, <2>1, <2>2, <2>7, <3>1
      DEF Submitted, Copies, Protected, At, Removing, DeviceGone
  <2> QED
    BY <2>5, <2>6, <2>7
<1> QED
  BY <1>2, <1>3 DEF DropEquinix, DropWrangler, Return

(* A deletion finds the finalizer, or a device that is gone already.       *)
LEMMA SubmittedDelete ==
  ASSUME Core, Submitted, Remove, Overtake, UNCHANGED <<cache, device>>,
         object.finalizers # {}
  PROVE  Submitted'
<1>1. /\ object # Gone /\ object \in InstanceObject
      /\ object' = [object EXCEPT !.deleting = TRUE]
      /\ stale' = (stale \/ object' # object)
  BY DEF Remove, Put, Core, CoreTypes, Objects
<1>2. /\ object'.status = object.status /\ object'.id = object.id
      /\ object'.finalizers = object.finalizers /\ object'.deleting
  BY <1>1 DEF InstanceObject
<1>3. object' # Gone
  BY <1>1, <1>2 DEF Gone, NewInstance
<1>4. /\ pass'.at = pass.at /\ pass'.i = pass.i
      /\ pass'.fresh = (pass.fresh /\ object' = object)
  BY DEF Overtake, Core, CoreTypes, Pass
<1>5. Live' = Live
  BY DEF Live, Exists
<1>6. Copies'
  BY <1>1, <1>2, <1>3, <1>4 DEF Submitted, Copies, At, Removing
<1>7. Protected'
  BY <1>1, <1>2, <1>5 DEF Submitted, Protected
<1> QED
  BY <1>2, <1>4, <1>5, <1>6, <1>7 DEF Submitted, At, DeviceGone

LEMMA SubmittedDeliver ==
  ASSUME Core, Submitted, Deliver, NoNode /\ At({"submitFinalizer"}) => NoNode'
  PROVE  Submitted'
<1>1. UNCHANGED <<object, device>> /\ cache' = object /\ ~stale'
  BY DEF Deliver
<1>2. /\ pass'.at = pass.at /\ pass'.i = pass.i /\ pass'.fresh = pass.fresh
  BY DEF Deliver, Core, CoreTypes, Pass
<1>3. Live' = Live
  BY <1>1 DEF Live, Exists
<1>4. Copies'
  BY <1>1, <1>2 DEF Submitted, Copies, At, Removing
<1>5. Protected'
  BY <1>1, <1>2, <1>3 DEF Submitted, Protected, At
<1>6. cache'.deleting /\ "equinix" \notin cache'.finalizers => Live' = {}
  <2>1. Gone.deleting = FALSE
    BY DEF Gone, NewInstance
  <2> QED
    BY <1>1, <1>3, <2>1 DEF Submitted, Protected
<1> QED
  BY <1>1, <1>2, <1>3, <1>4, <1>5, <1>6 DEF Submitted, At, DeviceGone

(* OnInstanceChange, but for its writes.                                   *)
LEMMA SubmittedChange ==
  ASSUME NoAccident, Core, AroundTypes, Submitted, [Next]_vars,
         CreateNewDevice \/ CheckDevice \/ Reinstall \/ ManageNodes
  PROVE  Submitted'
<1>1. ~CreateNewDevice
  BY DEF CreateNewDevice, Submitted, Copies, At, Core, Staged, StageOK
<1>2. /\ UNCHANGED <<object, stale>> /\ At({"check", "reinstall", "node"})
      /\ pass.i \in InstanceObject /\ pass.i.status # ""
  BY <1>1 DEF CheckDevice, Reinstall, ReinstallDevice, ManageNodes, store, At, Core,
              CoreTypes, Pass, Submitted, Copies
<1>3. Live' \subseteq Live
  BY <1>1, NoOtherDevice
<1>4. ASSUME NEW stage \in {"hold", "reinstall", "writeStatus"}, NEW i \in InstanceObject,
             i.status # "", i.id = pass.i.id, i.finalizers = pass.i.finalizers,
             i.deleting = pass.i.deleting, pass'.at = stage, pass'.i = i,
             pass'.fresh = pass.fresh, cache' \in {cache, IF pass.shared THEN i ELSE cache}
      PROVE  Submitted'
  BY <1>2, <1>3, <1>4, SubmittedMoved DEF At, Removing
<1>5. ASSUME NEW failed \in BOOLEAN, HoldNow(failed) \/ GoTo("reinstall")
      PROVE  Submitted'
  <2>1. /\ pass'.at \in {"hold", "reinstall"} /\ pass'.i = pass.i
        /\ pass'.fresh = pass.fresh /\ UNCHANGED cache
    BY <1>5 DEF HoldNow, GoTo, Core, CoreTypes, Pass
  <2> QED
    BY <1>2, <1>4, <2>1
<1>6. ASSUME NEW status \in {"reinstalling", "ready", "managed"},
             Assign([pass.i EXCEPT !.status = status], "writeStatus")
      PROVE  Submitted'
  <2> DEFINE i == [pass.i EXCEPT !.status = status]
  <2>1. /\ i \in InstanceObject /\ i.status = status /\ i.id = pass.i.id
        /\ i.finalizers = pass.i.finalizers /\ i.deleting = pass.i.deleting
    BY <1>2 DEF InstanceObject, Statuses
  <2>2. /\ pass'.at = "writeStatus" /\ pass'.i = i /\ pass'.fresh = pass.fresh
        /\ cache' = IF pass.shared THEN i ELSE cache
    BY <1>6 DEF Assign, Core, CoreTypes, Pass
  <2> HIDE DEF i
  <2> QED
    BY <1>4, <2>1, <2>2
<1> QED
  BY <1>1, <1>5, <1>6 DEF CheckDevice, Reinstall, ManageNodes, Reinstalling

LEMMA SubmittedNext ==
  ASSUME NoAccident, Core, AroundTypes, Submitted, [Next]_vars
  PROVE  Submitted'
<1>1. NoNode /\ At({"submitFinalizer"}) => NoNode'
  BY NoNodeKept DEF At
<1>2. ~CreateNewDevice
  BY DEF CreateNewDevice, Submitted, Copies, At, Core, Staged, StageOK
<1>3. Live' \subseteq Live
  BY <1>2, NoOtherDevice
<1>4. CASE Start
  BY <1>4, SubmittedStart
<1>5. CASE Handle
  BY <1>3, <1>5, SubmittedChange, SubmittedWrite, SubmittedAdd, SubmittedRemoveDevice,
     SubmittedRemoveNode, SubmittedDrop DEF Handle
<1>6. CASE UNCHANGED <<object, stale, cache, pass>>
  BY <1>1, <1>3, <1>6, SubmittedKept
<1>7. CASE Delete
  <2>1. object.finalizers # {}
    BY <1>7 DEF Delete, Disturb, NoAccident
  <2> QED
    BY <1>7, <2>1, SubmittedDelete DEF Delete
<1>8. CASE DeleteInstance /\ Remove /\ Overtake /\ UNCHANGED device
  <2>1. object # Gone /\ nodePass.at = "delete" /\ UNCHANGED cache
    BY <1>8 DEF DeleteInstance, Remove
  <2>2. ~NoNode
    BY <2>1 DEF NoNode, NodeIdle
  <2>3. object.finalizers # {}
    BY <2>1, <2>2 DEF Submitted, Protected, Core, Sound
  <2> QED
    BY <1>8, <2>1, <2>3, SubmittedDelete
<1>9. CASE Deliver
  BY <1>1, <1>9, SubmittedDeliver
<1>10. ~(Fault \/ NodeFault \/ Crash)
  BY DEF Fault, NodeFault, Crash, Disturb, NoAccident
<1>11. ASSUME \/ StartNode \/ ResolveNode \/ NodeTimer \/ Resync \/ UNCHANGED vars
              \/ \E d \in Devices : Install(d) \/ Join(d)
              \/ NodeFails \/ DeleteNode \/ Recover \/ Elapse \/ NodeRemoved \/ Heartbeat
       PROVE  UNCHANGED <<object, stale, cache, pass>>
  BY <1>11
  DEF StartNode, ResolveNode, NodeTimer, Resync, Install, Join, NodeFails, DeleteNode,
      Recover, Elapse, NodeRemoved, Heartbeat, NodeStep, Rest, store, vars
<1>12. DeleteInstance => \/ Remove /\ Overtake /\ UNCHANGED device
                         \/ UNCHANGED <<object, stale, cache, pass>>
  BY DEF DeleteInstance, store
<1> QED
  BY <1>4, <1>5, <1>6, <1>7, <1>8, <1>9, <1>10, <1>11, <1>12
  DEF Next, NodeHandle, Environment

-----------------------------------------------------------------------------
LEMMA AccountedInit == Init => AccountedInv
<1> SUFFICES ASSUME Init PROVE Unsubmitted
  BY DEF AccountedInv
<1>1. At({"idle"}) /\ object = NewInstance /\ cache = NewInstance /\ ~stale
  BY DEF Init, Idle, At
<1>2. \A d \in Devices : device[d].state = "unused" /\ device[d].boots = "shell"
  BY DEF Init, Unused
<1>3. Live = {}
  BY <1>2 DEF Live, Exists
<1> QED
  BY <1>1, <1>2, <1>3 DEF Init, Unsubmitted, NoNode

(* As long as no call fails, the process does not die and nobody deletes an*)
(* Instance before wrangler's finalizer is on it, every device Equinix has *)
(* is the one of the stored Instance, or about to be stored as it: in      *)
(* particular no Instance, however it was deleted, goes before its device. *)
THEOREM Accounted ==
  ASSUME NoAccident PROVE Spec => []DeviceAccounted
<1>1. AccountedInv /\ Core /\ AroundTypes /\ [Next]_vars => AccountedInv'
  BY UnsubmittedNext, SubmittedNext DEF AccountedInv
<1>2. AccountedInv => DeviceAccounted
  BY DEF AccountedInv, Unsubmitted, Submitted, DeviceAccounted, At
<1>3. TypeOK => AroundTypes
  BY DEF TypeOK, AroundTypes
<1> QED
  BY <1>1, <1>2, <1>3, AccountedInit, CoreAlways, Typed, PTL DEF Spec
=============================================================================
