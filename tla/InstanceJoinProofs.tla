------------------------- MODULE InstanceJoinProofs -------------------------
(***************************************************************************)
(* A managed Instance's device has joined, and is wiped once: as for       *)
(* DeviceAccounted, without failing calls, crashes and early deletions,    *)
(* and with installations that outlast the pass that began them.  Without  *)
(* SlowInstall a pass from a cached "queued" wipes the device again.       *)
(***************************************************************************)
EXTENDS InstanceDeviceProofs

Told(d) == device[d].boots # "shell"
Busy == \A d \in Live : device[d].state = "busy"
Queued(i) == i.status = "queued" /\ ~i.deleting
Later == {"reinstalling", "ready", "managed"}

(* What a copy's status says of the device.                                *)
KnownOf(i) ==
  /\ i.status \in Later => Told(object.id)
  /\ i.status = "managed" => device[object.id].boots = "joined"

Known ==
  object # Gone =>
    /\ object.id \in Devices /\ \A d \in Devices : Told(d) => d = object.id
    /\ node # "absent" => device[object.id].boots = "joined"
    /\ KnownOf(object) /\ KnownOf(cache) /\ (~At({"idle"}) => KnownOf(pass.i))

(* The first pass leaves both finalizers behind before the device is there:*)
(* from then on "hold" writes nothing.                                     *)
Wrangled ==
  /\ object # Gone /\ ~object.deleting
  /\ "wrangler" \notin object.finalizers \/ At({"submitFinalizer"})
  => At({"submitFinalizer", "hold"}) /\ pass.fresh /\ Busy

(* Once the device has been wiped no copy that could start a pass, or      *)
(* become the cached one, asks for it.                                     *)
WipedOnce ==
  (\E d \in Live : Told(d)) =>
    /\ ~Queued(cache)
    /\ Queued(object) => At({"writeStatus"}) /\ pass.fresh /\ ~stale
    /\ At({"check", "reinstall"}) => ~Queued(pass.i)

(* When it is ready to be, the pass that does it works on the cached object*)
(* and what it notes there is seen by the next.                            *)
Attended ==
  (\E d \in Live : device[d].state = "active" /\ ~Told(d)) =>
    /\ object.deleting \/ ~stale
    /\ At({"check", "reinstall"}) => pass.shared \/ (object.deleting /\ ~Queued(cache))

Checked ==
  /\ At({"reinstall"}) => \A d \in Live : device[d].state = "active"
  /\ At({"writeStatus"}) => pass.i.status \in Later

Once == Known /\ Wrangled /\ WipedOnce /\ Attended /\ Checked

Before ==
  /\ Unsubmitted /\ Busy
  /\ At({"submitStatus"}) => pass.i.status \notin Later /\ pass.i.id \in Devices

JoinInv == Before \/ (Submitted /\ Once)

(***************************************************************************)
(* Facts used below.                                                       *)
(***************************************************************************)
LEMMA LiveIsObjects ==
  ASSUME Submitted, Core, NEW d \in Live
  PROVE  object # Gone /\ d = object.id /\ d \in Devices /\ Live = {d}
<1>1. d = object.id /\ d \in Devices /\ Live \subseteq {d}
  BY DEF Submitted, Live
<1>2. object # Gone
  BY <1>1, ConstantsAssumption DEF Gone, NewInstance
<1> QED
  BY <1>1, <1>2

LEMMA HandlerStages ==
  ASSUME NEW i \in Objects
  PROVE  /\ Handler(i) \in {"idle", "create", "check", "node", "hold", "deleteDevice",
                            "dropEquinix"}
         /\ i = Gone => Handler(i) = "idle"
<1>1. CASE i = Gone
  BY <1>1 DEF Handler
<1>2. CASE i # Gone /\ ~i.deleting
  BY <1>2 DEF Handler, OnInstanceChange
<1>3. CASE i # Gone /\ i.deleting
  <2>1. i.finalizers \in {{}, {"equinix"}, {"wrangler"}, Finalizers}
    BY <1>3 DEF Objects, InstanceObject, Finalizers
  <2>2. OnInstanceRemove(i.finalizers) \in {"idle", "deleteDevice", "dropEquinix"}
    BY <2>1 DEF OnInstanceRemove, Finalizers
  <2> QED
    BY <1>3, <2>2 DEF Handler
<1> QED
  BY <1>1, <1>2, <1>3

(***************************************************************************)
(* Steps that leave the object, its copies and the pass alone.             *)
(***************************************************************************)
LEMMA OnceKept ==
  ASSUME Once, UNCHANGED <<object, stale, cache, pass, device>>,
         node' # "absent" => node # "absent"
  PROVE  Once'
BY DEF Once, Known, KnownOf, Wrangled, WipedOnce, Attended, Checked, Told, Busy, Queued,
       At, Live, Exists

LEMMA OnceInstall ==
  ASSUME SlowInstall, AroundTypes, Once, NEW d \in Devices, Install(d)
  PROVE  Once'
<1>1. /\ At({"idle"}) /\ ~stale /\ UNCHANGED <<object, stale, cache, pass, node>>
      /\ \A e \in Devices : device'[e].boots = device[e].boots
      /\ Live' = Live
  BY DEF Install, Rest, At, Idle, AroundTypes, Device, Live, Exists
<1>2. Known'
  BY <1>1 DEF Install, Once, Known, KnownOf, Told, At, AroundTypes, Device
<1>3. Wrangled'
  BY <1>1 DEF Once, Wrangled, At
<1>4. WipedOnce' /\ Attended' /\ Checked'
  BY <1>1 DEF Once, WipedOnce, Attended, Checked, At, Told, Queued, Live
<1> QED
  BY <1>2, <1>3, <1>4 DEF Once

LEMMA OnceJoin ==
  ASSUME Core, Submitted, AroundTypes, Once, NEW d \in Devices, Join(d)
  PROVE  Once'
<1>1. /\ d \in Live /\ UNCHANGED <<object, stale, cache, pass>>
      /\ device[d].boots = "join" /\ device[d].state = "active"
      /\ device' = [device EXCEPT ![d].boots = "joined"]
  BY DEF Join, Rest, Live, Exists
<1>2. object # Gone /\ d = object.id /\ Live = {d}
  BY <1>1, LiveIsObjects
<1>3. /\ Live' = Live
      /\ \A e \in Devices : /\ Told(e)' = Told(e)
                            /\ device'[e].state = device[e].state
      /\ device'[d].boots = "joined"
  BY <1>1 DEF Told, Live, Exists, AroundTypes, Device
<1>4. Known'
  BY <1>1, <1>2, <1>3 DEF Once, Known, KnownOf, Told, At
<1>5. Wrangled'
  BY <1>1, <1>2 DEF Once, Wrangled, Busy, At
<1>6. WipedOnce' /\ Attended' /\ Checked'
  BY <1>1, <1>2, <1>3 DEF Once, WipedOnce, Attended, Checked, At, Queued
<1> QED
  BY <1>4, <1>5, <1>6 DEF Once
(***************************************************************************)
(* A worker's pass.                                                        *)
(***************************************************************************)
LEMMA OnceStart ==
  ASSUME Core, Submitted, Once, Start
  PROVE  Once'
<1>1. /\ At({"idle"}) /\ UNCHANGED <<object, stale, cache, device, node>> /\ Live' = Live
      /\ cache \in Objects
  BY DEF Start, store, Live, Exists, Core, CoreTypes
<1>2. /\ Handler(cache) \in {"idle", "create", "check", "node", "hold", "deleteDevice",
                             "dropEquinix"}
  BY <1>1, HandlerStages
<1>3. CASE Handler(cache) = "idle"
  <2>1. pass' = Idle /\ Idle.at = "idle"
    BY <1>3 DEF Start, Idle
  <2> QED
    BY <1>1, <2>1
    DEF Once, Known, KnownOf, Wrangled, WipedOnce, Attended, Checked, Told, Busy, Queued, At
<1>4. CASE Handler(cache) # "idle"
  <2>1. pass' = [at |-> Handler(cache), i |-> cache, shared |-> TRUE,
                 fresh |-> ~stale, failed |-> FALSE]
    BY <1>4 DEF Start
  <2>2. pass'.at = Handler(cache) /\ pass'.i = cache /\ pass'.shared
    BY <2>1
  <2>3. Known'
    BY <1>1, <2>2 DEF Once, Known, KnownOf, Told
  <2>4. Wrangled'
    BY <1>1, <1>2, <2>2 DEF Once, Wrangled, At
  <2>5. WipedOnce'
    BY <1>1, <2>2 DEF Once, WipedOnce, At, Told, Queued
  <2>6. Attended' /\ Checked'
    BY <1>1, <1>2, <2>2 DEF Once, Attended, Checked, At, Told
  <2> QED
    BY <2>3, <2>4, <2>5, <2>6 DEF Once
<1> QED
  BY <1>3, <1>4

(* OnInstanceChange returns, or goes from check to reinstall.              *)
LEMMA OnceMoved ==
  ASSUME Core, Submitted, Once, UNCHANGED <<object, stale, cache, device, node>>,
         ~At({"idle"}), ~At({"writeStatus"}) \/ ~pass.fresh,
         pass'.i = pass.i, pass'.shared = pass.shared, pass'.fresh = pass.fresh,
         \/ pass'.at = "hold"
         \/ /\ pass'.at = "reinstall" /\ At({"check"})
            /\ \A d \in Live : device[d].state = "active"
  PROVE  Once'
<1>1. Live' = Live
  BY DEF Live, Exists
<1>2. Known'
  BY DEF Once, Known, KnownOf, Told, At
<1>3. Wrangled'
  BY <1>1 DEF Once, Wrangled, Busy, At
<1>4. WipedOnce' /\ Attended' /\ Checked'
  BY <1>1 DEF Once, WipedOnce, Attended, Checked, At, Told, Queued
<1> QED
  BY <1>2, <1>3, <1>4 DEF Once

(* A status is assigned, to the cached object if the pass works on that.   *)
LEMMA OnceAssigned ==
  ASSUME Core, Submitted, Once, UNCHANGED <<object, stale, device, node>>,
         At({"check", "node"}), NEW s \in {"ready", "managed"},
         s = "ready" => pass.i.status = "reinstalling",
         s = "managed" => node # "absent",
         Assign([pass.i EXCEPT !.status = s], "writeStatus")
  PROVE  Once'
<1>1. /\ pass.i \in InstanceObject /\ Live' = Live
  BY DEF Core, CoreTypes, Pass, Live, Exists
<1>2. PICK i : i = [pass.i EXCEPT !.status = s]
  OBVIOUS
<1>3. i.status = s
  BY <1>1, <1>2 DEF InstanceObject
<1>4. /\ pass'.at = "writeStatus" /\ pass'.i = i /\ pass'.fresh = pass.fresh
      /\ cache' = IF pass.shared THEN i ELSE cache
  BY <1>2 DEF Assign, Core, CoreTypes, Pass
<1>5. ASSUME object # Gone PROVE KnownOf(i)
  BY <1>3, <1>5 DEF Once, Known, KnownOf, At, Later, Told
<1>6. Known'
  BY <1>4, <1>5 DEF Once, Known, KnownOf, Told, At
<1>7. Wrangled'
  BY <1>4 DEF Once, Wrangled, At
<1>8. WipedOnce' /\ Attended' /\ Checked'
  BY <1>1, <1>3, <1>4 DEF Once, WipedOnce, Attended, Checked, At, Told, Queued, Later
<1> QED
  BY <1>6, <1>7, <1>8 DEF Once

LEMMA OnceCheck ==
  ASSUME Core, Submitted, Once, CheckDevice
  PROVE  Once'
<1>1. /\ At({"check"}) /\ UNCHANGED <<object, stale, device, node>>
      /\ pass.i.status \in {"queued", "reinstalling"} /\ pass.i \in InstanceObject
  BY DEF CheckDevice, store, Core, Staged, StageOK, At, CoreTypes, Pass
<1>2. ASSUME NEW failed \in BOOLEAN, HoldNow(failed) PROVE Once'
  <2>1. /\ pass'.at = "hold" /\ pass'.i = pass.i /\ pass'.shared = pass.shared
        /\ pass'.fresh = pass.fresh /\ UNCHANGED cache
    BY <1>2 DEF HoldNow, Core, CoreTypes, Pass
  <2> QED
    BY <1>1, <2>1, OnceMoved DEF At
<1>3. ASSUME GoTo("reinstall"), Exists(pass.i.id), device[pass.i.id].state = "active"
      PROVE  Once'
  <2>1. /\ pass'.at = "reinstall" /\ pass'.i = pass.i /\ pass'.shared = pass.shared
        /\ pass'.fresh = pass.fresh /\ UNCHANGED cache
    BY <1>3 DEF GoTo, Core, CoreTypes, Pass
  <2>2. Live = {pass.i.id}
    BY <1>3, LiveIsObjects DEF Live, Exists
  <2> QED
    BY <1>1, <1>3, <2>1, <2>2, OnceMoved DEF At
<1>4. ASSUME pass.i.status # "queued",
             Assign([pass.i EXCEPT !.status = "ready"], "writeStatus")
      PROVE  Once'
  BY <1>1, <1>4, OnceAssigned DEF At
<1> QED
  BY <1>1, <1>2, <1>3, <1>4 DEF CheckDevice

LEMMA OnceManage ==
  ASSUME Core, Submitted, Once, ManageNodes
  PROVE  Once'
<1>1. At({"node"}) /\ UNCHANGED <<object, stale, device, node>>
  BY DEF ManageNodes, store
<1>2. CASE HoldNow(FALSE)
  <2>1. /\ pass'.at = "hold" /\ pass'.i = pass.i /\ pass'.shared = pass.shared
        /\ pass'.fresh = pass.fresh /\ UNCHANGED cache
    BY <1>2 DEF HoldNow, Core, CoreTypes, Pass
  <2> QED
    BY <1>1, <2>1, OnceMoved DEF At
<1>3. CASE NodeFound /\ Assign([pass.i EXCEPT !.status = "managed"], "writeStatus")
  BY <1>1, <1>3, OnceAssigned DEF At, NodeFound
<1> QED
  BY <1>2, <1>3 DEF ManageNodes

(* The device is wiped: it has not been before, and whoever looks at the   *)
(* cached object from now on sees "reinstalling", or a deletion.           *)
LEMMA ReinstallsUntold ==
  ASSUME Core, Submitted, Once, At({"reinstall"}), Exists(pass.i.id)
  PROVE  /\ pass.i.id \in Devices /\ ~Told(pass.i.id)
         /\ device[pass.i.id].state = "active"
<1>1. pass.i.id \in Live
  BY DEF Live, Exists
<1>2. Queued(pass.i)
  BY DEF Core, Staged, StageOK, At, Removing, Queued
<1> QED
  BY <1>1, <1>2 DEF Once, WipedOnce, Checked, At, Live

LEMMA OnceReinstall ==
  ASSUME Core, AroundTypes, Submitted, Once, Reinstall
  PROVE  Once'
<1>1. /\ pass.at = "reinstall" /\ Exists(pass.i.id)
      /\ UNCHANGED <<object, stale, node>> /\ pass.i \in InstanceObject
      /\ pass.i.status = "queued"
  BY DEF Reinstall, ReinstallDevice, At, Core, CoreTypes, Pass, Staged, StageOK
<1>2. PICK d : d = pass.i.id
  OBVIOUS
<1>3. /\ d \in Devices /\ ~Told(d) /\ device[d].state = "active"
      /\ object # Gone /\ d = object.id /\ Live = {d}
  BY <1>1, <1>2, ReinstallsUntold, LiveIsObjects DEF Live, Exists, At
<1>4. device' = [device EXCEPT ![d] = [state |-> "busy", boots |-> "join"]]
  BY <1>2 DEF Reinstall, ReinstallDevice
<1>5. /\ \A e \in Devices \ {d} : device'[e] = device[e]
      /\ device'[d].state = "busy" /\ device'[d].boots = "join" /\ Live' = {d}
  BY <1>3, <1>4 DEF AroundTypes, Live, Exists
<1>6. PICK i : i = [pass.i EXCEPT !.status = "reinstalling"]
  OBVIOUS
<1>7. i.status = "reinstalling"
  BY <1>1, <1>6 DEF InstanceObject
<1>8. /\ pass'.at = "writeStatus" /\ pass'.i = i /\ pass'.fresh = pass.fresh
      /\ cache' = IF pass.shared THEN i ELSE cache
  BY <1>6 DEF Reinstall, Reinstalling, Assign, Core, CoreTypes, Pass
<1>9. /\ object.status \notin Later /\ node = "absent"
      /\ cache.status \notin Later
  BY <1>3 DEF Once, Known, KnownOf, Told, Later
<1>10. Known'
  BY <1>3, <1>5, <1>7, <1>8, <1>9, <1>1
  DEF Once, Known, KnownOf, Told, At, Later
<1>11. Wrangled'
  BY <1>1, <1>8 DEF Once, Wrangled, At
<1>12. /\ object.deleting \/ ~stale
       /\ pass.shared \/ (object.deleting /\ ~Queued(cache))
  BY <1>1, <1>3 DEF Once, Attended, At
<1>13. ~stale /\ pass.shared => pass.fresh
  BY <1>1 DEF Core, Handled, At
<1>14. WipedOnce'
  BY <1>1, <1>7, <1>8, <1>12, <1>13 DEF WipedOnce, Queued, At
<1>15. Attended' /\ Checked'
  BY <1>5, <1>7, <1>8 DEF Attended, Checked, At, Told, Later
<1> QED
  BY <1>10, <1>11, <1>14, <1>15 DEF Once
(* The writes of submitRequest and of the statuses.                        *)
LEMMA OnceWrite ==
  ASSUME Core, Submitted, Once, Write
  PROVE  Once'
<1>1. At({"submitFinalizer", "writeStatus"})
  BY DEF Write, Submitted, At
<1>2. CASE ~pass.fresh /\ HoldNow(TRUE) /\ UNCHANGED store
  <2>1. /\ pass'.at = "hold" /\ pass'.i = pass.i /\ pass'.shared = pass.shared
        /\ pass'.fresh = pass.fresh /\ UNCHANGED <<object, stale, cache, device, node>>
    BY <1>2 DEF HoldNow, Core, CoreTypes, Pass, store
  <2> QED
    BY <1>1, <1>2, <2>1, OnceMoved DEF At
<1>3. CASE Call /\ Wrote("hold")
  <2>1. /\ object # Gone /\ object' # Gone /\ ~object.deleting
        /\ stale' = (stale \/ object' # object)
    BY <1>1, <1>3, CallStep DEF At
  <2>2. object \in InstanceObject /\ pass.fresh
    BY <1>1, <1>3, <2>1 DEF Core, CoreTypes, Objects, Call, At, UpdateStatus, Update
  <2>3. /\ pass'.at = "hold" /\ pass'.i = object' /\ pass'.fresh
        /\ UNCHANGED <<cache, device, node>>
    BY <1>1, <1>3, <2>2 DEF Wrote, Call, At, UpdateStatus, Update, Core, CoreTypes, Pass
  <2>4. Live' = Live
    BY <2>3 DEF Live, Exists
  <2>5. CASE At({"submitFinalizer"})
    <3>1. object' = [object EXCEPT !.finalizers = {"equinix"}]
      BY <1>3, <2>1, <2>5 DEF Call, At, Update, Put
    <3>2. /\ object'.status = object.status /\ object'.id = object.id
          /\ object'.deleting = object.deleting
      BY <2>2, <3>1 DEF InstanceObject
    <3>3. Busy
      BY <2>1, <2>5 DEF Once, Wrangled
    <3>4. Known'
      BY <2>1, <2>3, <2>5, <3>2 DEF Once, Known, KnownOf, Told, At
    <3>5. Wrangled'
      BY <2>3, <2>4, <3>3 DEF Wrangled, Busy, At
    <3>6. WipedOnce'
      BY <2>3, <2>4, <2>5, <3>2 DEF Once, WipedOnce, Queued, Told, At
    <3>7. Attended' /\ Checked'
      BY <2>3, <2>4, <3>3 DEF Attended, Checked, Busy, At
    <3> QED
      BY <3>4, <3>5, <3>6, <3>7 DEF Once
  <2>6. CASE At({"writeStatus"})
    <3>1. object' = [object EXCEPT !.status = pass.i.status, !.id = pass.i.id]
      BY <1>3, <2>6 DEF Call, At, UpdateStatus, Put
    <3>2. pass.i.id = object.id /\ pass.i.status \in Later
      BY <2>1, <2>6 DEF Submitted, Copies, Once, Checked, At
    <3>3. /\ object'.status = pass.i.status /\ object'.id = object.id
          /\ object'.finalizers = object.finalizers
      BY <2>2, <3>1, <3>2 DEF InstanceObject
    <3>4. Told(object.id) /\ Live \subseteq {object.id}
      BY <2>1, <2>6, <3>2 DEF Once, Known, KnownOf, At, Submitted
    <3>5. Known'
      BY <2>1, <2>3, <2>6, <3>3 DEF Once, Known, KnownOf, Told, At
    <3>6. Wrangled'
      BY <2>1, <2>3, <2>6, <3>3 DEF Once, Wrangled, At
    <3>7. WipedOnce'
      BY <2>3, <2>4, <3>2, <3>3 DEF Once, WipedOnce, Queued, Told, At, Later
    <3>8. Attended' /\ Checked'
      BY <2>3, <2>4, <3>4 DEF Attended, Checked, Told, At
    <3> QED
      BY <3>5, <3>6, <3>7, <3>8 DEF Once
  <2> QED
    BY <1>1, <2>5, <2>6 DEF At
<1> QED
  BY <1>1, <1>2, <1>3 DEF Write, At

LEMMA OnceAdd ==
  ASSUME Core, Submitted, Once, AddFinalizer
  PROVE  Once'
<1>1. pass.at = "hold" /\ pass'.at = "idle" /\ UNCHANGED cache
  BY DEF AddFinalizer, Return, At, Idle
<1>2. CASE UNCHANGED store /\ ("wrangler" \in pass.i.finalizers \/ ~pass.fresh)
  <2>1. Live' = Live /\ UNCHANGED <<object, stale, device, node>>
    BY <1>2 DEF store, Live, Exists
  <2>2. Known'
    BY <1>1, <2>1 DEF Once, Known, KnownOf, Told, At
  <2>3. Wrangled'
    BY <1>1, <1>2, <2>1 DEF Once, Wrangled, At, Submitted, Copies, Removing
  <2>4. WipedOnce' /\ Attended' /\ Checked'
    BY <1>1, <2>1 DEF Once, WipedOnce, Attended, Checked, Told, Queued, At
  <2> QED
    BY <2>2, <2>3, <2>4 DEF Once
<1>3. CASE Call /\ "wrangler" \notin pass.i.finalizers
  <2>1. /\ pass.fresh /\ object # Gone /\ object \in InstanceObject
        /\ ~object.deleting /\ UNCHANGED <<device, node>>
    BY <1>1, <1>3 DEF Call, At, Update, Core, CoreTypes, Objects, Handled, Staged, StageOK,
                      Ahead, Removing
  <2>2. pass.i.finalizers = object.finalizers
    BY <1>1, <2>1 DEF Submitted, Copies, At, Removing
  <2>3. object' = [object EXCEPT !.finalizers = object.finalizers \cup {"wrangler"}]
    BY <1>1, <1>3, <2>1, <2>2 DEF Call, At, Update, Put
  <2>4. /\ object'.id = object.id /\ object'.status = object.status
        /\ "wrangler" \in object'.finalizers /\ object'.deleting = object.deleting
    BY <2>1, <2>3 DEF InstanceObject
  <2>5. Busy /\ Live' = Live
    BY <1>3, <2>1, <2>2 DEF Once, Wrangled, Live, Exists
  <2>6. Known'
    BY <1>1, <2>1, <2>4 DEF Once, Known, KnownOf, Told, At
  <2>7. Wrangled'
    BY <1>1, <2>4 DEF Wrangled, At
  <2>8. WipedOnce' /\ Attended' /\ Checked'
    BY <1>1, <2>1, <2>4, <2>5
    DEF Once, WipedOnce, Attended, Checked, Told, Queued, Busy, At
  <2> QED
    BY <2>6, <2>7, <2>8 DEF Once
<1> QED
  BY <1>2, <1>3 DEF AddFinalizer

(* Once OnInstanceRemove has begun there is no device to be wiped.         *)
LEMMA OnceRemoval ==
  ASSUME Core, AroundTypes, Submitted, Submitted', Once,
         RemoveDevice \/ RemoveNode \/ DropEquinix \/ DropWrangler
  PROVE  Once'
<1>1. At(Removing) /\ (~At({"deleteDevice"}) => Live = {})
  BY DEF RemoveDevice, RemoveNode, DropEquinix, DropWrangler, At, Removing, Submitted,
         DeviceGone
<1>2. /\ pass'.at \in {"idle", "deleteNode", "dropEquinix", "dropWrangler"}
      /\ pass'.at # "idle" => pass'.i.status = pass.i.status
      /\ cache'.status \in {cache.status, pass.i.status}
  <2>1. CASE RemoveDevice
    BY <2>1 DEF RemoveDevice, GoTo, Core, CoreTypes, Pass
  <2>2. CASE RemoveNode
    <3>1. PICK i : i = [pass.i EXCEPT !.finalizers = @ \ {"equinix"}]
      OBVIOUS
    <3>2. i.status = pass.i.status
      BY <3>1 DEF Core, CoreTypes, Pass, InstanceObject
    <3>3. /\ pass'.at = "dropEquinix" /\ pass'.i = i
          /\ cache' = IF pass.shared THEN i ELSE cache
      BY <2>2, <3>1 DEF RemoveNode, Assign, Core, CoreTypes, Pass
    <3> QED
      BY <3>2, <3>3
  <2>3. CASE DropEquinix \/ DropWrangler
    <3>1. UNCHANGED cache
      BY <2>3 DEF DropEquinix, DropWrangler, Return
    <3>2. pass' \in {Idle, [pass EXCEPT !.at = "dropWrangler", !.fresh = object' = object]}
      BY <2>3 DEF DropEquinix, DropWrangler, Return
    <3>3. Idle.at = "idle"
      BY DEF Idle
    <3>4. [pass EXCEPT !.at = "dropWrangler", !.fresh = object' = object].at = "dropWrangler"
          /\ [pass EXCEPT !.at = "dropWrangler", !.fresh = object' = object].i = pass.i
      BY DEF Core, CoreTypes, Pass
    <3> QED
      BY <3>1, <3>2, <3>3, <3>4
  <2> QED
    BY <2>1, <2>2, <2>3
<1>3. /\ \A d \in Devices : device'[d].boots = device[d].boots
      /\ node' # "absent" => node # "absent"
  <2>1. CASE RemoveDevice
    BY <2>1 DEF RemoveDevice, DeleteDevice, AroundTypes, Device
  <2>2. CASE RemoveNode
    BY <2>2 DEF RemoveNode, FindAndDeleteNode
  <2>3. CASE DropEquinix \/ DropWrangler
    BY <2>3 DEF DropEquinix, DropWrangler, Call, At, Update, store
  <2> QED
    BY <2>1, <2>2, <2>3
<1>4. \/ UNCHANGED object
      \/ object' = Gone /\ object # Gone
      \/ /\ object # Gone /\ object.deleting /\ object'.status = object.status
         /\ object'.id = object.id /\ object'.deleting
  <2>1. CASE RemoveDevice \/ RemoveNode
    BY <2>1 DEF RemoveDevice, DeleteDevice, RemoveNode, FindAndDeleteNode
  <2>2. CASE (DropEquinix \/ DropWrangler) /\ UNCHANGED store
    BY <2>2 DEF store
  <2>3. CASE (DropEquinix \/ DropWrangler) /\ Call
    <3>1. At({"dropEquinix", "dropWrangler"}) /\ \E f : Update(f)
      BY <2>3 DEF DropEquinix, DropWrangler, Call, At
    <3>2. object # Gone /\ object.deleting /\ object \in InstanceObject
      BY <3>1 DEF Update, At, Core, CoreTypes, Objects, Handled, Staged, StageOK, Ahead,
                  Removing
    <3>3. object' = Gone \/ \E f : object' = [object EXCEPT !.finalizers = f]
      BY <3>1 DEF Update, Put
    <3> QED
      BY <3>2, <3>3 DEF InstanceObject
  <2> QED
    BY <2>1, <2>2, <2>3 DEF DropEquinix, DropWrangler
<1>5. Live' = {}
  <2>1. CASE RemoveDevice
    <3>1. At(DeviceGone)'
      BY <2>1 DEF RemoveDevice, GoTo, At, DeviceGone, Core, CoreTypes, Pass
    <3> QED
      BY <3>1 DEF Submitted
  <2>2. CASE RemoveNode \/ DropEquinix \/ DropWrangler
    <3>1. UNCHANGED device /\ ~At({"deleteDevice"})
      BY <2>2 DEF RemoveNode, FindAndDeleteNode, DropEquinix, DropWrangler, Call, At, Update,
                  store
    <3> QED
      BY <1>1, <3>1 DEF Live, Exists
  <2> QED
    BY <2>1, <2>2
<1>6. Known'
  <2>1. ~At({"idle"}) /\ Known
    BY <1>1 DEF At, Removing, Once
  <2>2. /\ object' # Gone => object # Gone /\ object'.id = object.id
        /\ object'.status \in {object.status, "gone"}
    BY <1>4, GoneIsNone
  <2>3. ~At({"idle"})' => pass'.i.status = pass.i.status
    BY <1>2 DEF At
  <2>4. CASE object' = Gone
    BY <2>4 DEF Known
  <2>5. CASE object' # Gone
    <3>1. object'.status = object.status
      BY <1>4, <2>5
    <3> QED
      BY <1>2, <1>3, <2>1, <2>2, <2>3, <3>1 DEF Known, KnownOf, Told
  <2> QED
    BY <2>4, <2>5
<1>7. Wrangled'
  BY <1>1, <1>2, <1>4 DEF Once, Wrangled, At, Removing
<1>8. WipedOnce' /\ Attended' /\ Checked'
  BY <1>2, <1>5 DEF WipedOnce, Attended, Checked, At
<1> QED
  BY <1>6, <1>7, <1>8 DEF Once

(***************************************************************************)
(* The others.                                                             *)
(***************************************************************************)
LEMMA OnceDelete ==
  ASSUME Core, Submitted, Once, Remove, Overtake, UNCHANGED <<cache, device, node>>,
         object.finalizers # {}
  PROVE  Once'
<1>1. /\ object # Gone /\ object \in InstanceObject
      /\ object' = [object EXCEPT !.deleting = TRUE]
  BY DEF Remove, Put, Core, CoreTypes, Objects
<1>2. object'.status = object.status /\ object'.id = object.id /\ object'.deleting
  BY <1>1 DEF InstanceObject
<1>3. pass'.at = pass.at /\ pass'.i = pass.i /\ pass'.shared = pass.shared
  BY DEF Overtake, Core, CoreTypes, Pass
<1>4. Live' = Live
  BY DEF Live, Exists
<1>5. Known'
  BY <1>1, <1>2, <1>3 DEF Once, Known, KnownOf, Told, At
<1>6. Wrangled'
  BY <1>2 DEF Wrangled
<1>7. WipedOnce' /\ Attended' /\ Checked'
  BY <1>2, <1>3, <1>4 DEF Once, WipedOnce, Attended, Checked, Told, Queued, At
<1> QED
  BY <1>5, <1>6, <1>7 DEF Once

LEMMA OnceDeliver ==
  ASSUME Core, Submitted, Once, Deliver
  PROVE  Once'
<1>1. /\ stale /\ UNCHANGED <<object, device, node>> /\ cache' = object /\ ~stale'
      /\ pass'.at = pass.at /\ pass'.i = pass.i /\ pass'.fresh = pass.fresh
  BY DEF Deliver, Core, CoreTypes, Pass
<1>2. Live' = Live
  BY <1>1 DEF Live, Exists
<1>3. Known'
  BY <1>1 DEF Once, Known, KnownOf, Told, At
<1>4. Wrangled'
  BY <1>1, <1>2 DEF Once, Wrangled, Busy, At
<1>5. WipedOnce' /\ Attended' /\ Checked'
  BY <1>1, <1>2 DEF Once, WipedOnce, Attended, Checked, Told, Queued, At
<1> QED
  BY <1>3, <1>4, <1>5 DEF Once
LEMMA OnceNext ==
  ASSUME NoAccident, SlowInstall, Core, AroundTypes, Submitted, Submitted', Once,
         [Next]_vars
  PROVE  Once'
<1>1. ~CreateNewDevice
  BY DEF CreateNewDevice, Submitted, Copies, At, Core, Staged, StageOK
<1>2. CASE Start
  BY <1>2, OnceStart
<1>3. CASE Handle
  BY <1>1, <1>3, OnceWrite, OnceCheck, OnceReinstall, OnceManage, OnceAdd, OnceRemoval
  DEF Handle
<1>4. CASE UNCHANGED <<object, stale, cache, pass, device>>
           /\ (node' # "absent" => node # "absent")
  BY <1>4, OnceKept
<1>5. ASSUME NEW d \in Devices, Install(d) \/ Join(d) PROVE Once'
  BY <1>5, OnceInstall, OnceJoin
<1>6. CASE Delete
  <2>1. object.finalizers # {}
    BY <1>6 DEF Delete, Disturb, NoAccident
  <2> QED
    BY <1>6, <2>1, OnceDelete DEF Delete
<1>7. CASE DeleteInstance /\ Remove /\ Overtake /\ UNCHANGED <<device, node>>
  <2>1. object # Gone /\ nodePass.at = "delete" /\ UNCHANGED cache
    BY <1>7 DEF DeleteInstance, Remove
  <2>2. object.finalizers # {}
    <3>1. ~NoNode
      BY <2>1 DEF NoNode, NodeIdle
    <3> QED
      BY <2>1, <3>1 DEF Submitted, Protected, Core, Sound
  <2> QED
    BY <1>7, <2>1, <2>2, OnceDelete
<1>8. CASE Deliver
  BY <1>8, OnceDeliver
<1>9. ~(Fault \/ NodeFault \/ Crash)
  BY DEF Fault, NodeFault, Crash, Disturb, NoAccident
<1>10. ASSUME \/ StartNode \/ ResolveNode \/ NodeTimer \/ Resync \/ UNCHANGED vars
              \/ NodeFails \/ DeleteNode \/ Recover \/ Elapse \/ NodeRemoved \/ Heartbeat
       PROVE  /\ UNCHANGED <<object, stale, cache, pass, device>>
              /\ node' # "absent" => node # "absent"
  BY <1>10
  DEF StartNode, ResolveNode, NodeTimer, Resync, NodeFails, DeleteNode, Recover, Elapse,
      NodeRemoved, Heartbeat, NodeStep, Rest, store, vars
<1>11. DeleteInstance => \/ Remove /\ Overtake /\ UNCHANGED <<device, node>>
                         \/ UNCHANGED <<object, stale, cache, pass, device, node>>
  BY DEF DeleteInstance, store
<1> QED
  BY <1>2, <1>3, <1>4, <1>5, <1>6, <1>7, <1>8, <1>9, <1>10, <1>11
  DEF Next, NodeHandle, Environment

(* The first pass, up to its first write.                                  *)
LEMMA BeforeNext ==
  ASSUME NoAccident, SlowInstall, Core, AroundTypes, Before, [Next]_vars
  PROVE  JoinInv'
<1>1. AccountedInv' /\ NoNode'
  BY UnsubmittedNext, NoNodeKept DEF Before, Unsubmitted, At
<1>2. NewInstance.status = "" /\ NewInstance # Gone
  BY GoneIsNone, NewIsOne DEF NewInstance
<1>3. ASSUME UNCHANGED object, UNCHANGED device,
             At({"submitStatus"})' => UNCHANGED pass
      PROVE  JoinInv'
  <2>1. Unsubmitted'
    BY <1>1, <1>2, <1>3 DEF AccountedInv, Before, Unsubmitted, Submitted, Copies
  <2>2. Busy'
    BY <1>3 DEF Before, Busy, Live, Exists
  <2> QED
    BY <1>3, <2>1, <2>2 DEF JoinInv, Before, At
<1>4. CASE CreateNewDevice
  <2>1. PICK d \in Devices, state \in CreateStates :
          CreateDevice(d) /\ Assign(Created(pass.i, d, state), "submitStatus")
    BY <1>4 DEF CreateNewDevice
  <2>2. Live = {} /\ UNCHANGED object
    BY <1>4, <2>1 DEF CreateNewDevice, CreateDevice, Before, Unsubmitted, At
  <2>3. Busy'
    BY <2>1, <2>2 DEF CreateDevice, Busy, Live, Exists, AroundTypes
  <2>4. pass'.i.id = d /\ pass'.i.status = state
    BY <2>1 DEF Assign, Created, Core, CoreTypes, Pass, InstanceObject
  <2>5. state \notin Later
    BY ConstantsAssumption DEF Later
  <2>6. Unsubmitted'
    BY <1>1, <1>2, <2>2 DEF AccountedInv, Before, Unsubmitted, Submitted, Copies
  <2> QED
    BY <2>3, <2>4, <2>5, <2>6 DEF JoinInv, Before
<1>5. CASE Write
  <2>1. /\ At({"submitStatus"}) /\ pass.fresh /\ cache = pass.i
        /\ pass.i.status # "" /\ pass.i.status \notin Later /\ pass.i.id \in Devices
        /\ pass.i \in InstanceObject
    BY <1>5 DEF Write, Before, Unsubmitted, At, Core, Handled, Staged, StageOK, CoreTypes,
                Pass
  <2>2. UpdateStatus /\ Wrote("submitFinalizer")
    BY <1>5, <2>1 DEF Write, Call, At
  <2>3. object' = [object EXCEPT !.status = pass.i.status, !.id = pass.i.id]
    BY <2>2 DEF UpdateStatus, Put
  <2>4. object'.status = pass.i.status /\ object'.id = pass.i.id
    BY <2>1, <2>3, NewIsOne DEF Before, Unsubmitted, InstanceObject
  <2>5. /\ pass'.at = "submitFinalizer" /\ pass'.i = object' /\ pass'.fresh
        /\ UNCHANGED <<cache, device>>
    BY <2>1, <2>2 DEF Wrote, UpdateStatus, Core, CoreTypes, Pass
  <2>6. Submitted'
    BY <1>1, <2>1, <2>4, <1>2 DEF AccountedInv, Unsubmitted
  <2>7. Busy'
    BY <2>5 DEF Before, Busy, Live, Exists
  <2>8. Known'
    BY <1>1, <2>1, <2>4, <2>5 DEF NoNode, Known, KnownOf, Told, Later
  <2>9. Wrangled'
    BY <2>5, <2>7 DEF Wrangled, At
  <2>10. WipedOnce' /\ Attended' /\ Checked'
    BY <1>1, <2>5, <2>7
    DEF NoNode, WipedOnce, Attended, Checked, Busy, Told, At, Live
  <2> QED
    BY <2>6, <2>8, <2>9, <2>10 DEF JoinInv, Once
<1>6. ASSUME NEW d \in Devices, Install(d) \/ Join(d) PROVE FALSE
  <2>1. CASE Install(d)
    <3>1. d \in Live /\ pass = Idle
      BY <2>1 DEF Install, Live, Exists
    <3> QED
      BY <3>1 DEF Before, Unsubmitted, At, Idle
  <2>2. CASE Join(d)
    BY <2>2 DEF Join, Before, Unsubmitted, NoNode
  <2> QED
    BY <1>6, <2>1, <2>2
<1>7. ~(CheckDevice \/ Reinstall \/ ManageNodes \/ AddFinalizer \/ RemoveDevice
          \/ RemoveNode \/ DropEquinix \/ DropWrangler)
  BY DEF CheckDevice, Reinstall, ManageNodes, AddFinalizer, RemoveDevice, RemoveNode,
         DropEquinix, DropWrangler, Before, Unsubmitted, At
<1>8. ~(Deliver \/ Delete \/ DeleteInstance \/ Fault \/ NodeFault \/ Crash)
  <2>1. NewInstance.finalizers = {}
    BY DEF NewInstance
  <2> QED
    BY <2>1 DEF Deliver, Delete, DeleteInstance, Fault, NodeFault, Crash, Disturb,
                NoAccident, Before, Unsubmitted, NoNode, NodeIdle
<1>9. CASE Start
  <2>1. UNCHANGED <<object, device>> /\ cache \in Objects
    BY <1>9 DEF Start, store, Core, CoreTypes
  <2>2. pass' = Idle \/ pass'.at = Handler(cache)
    BY <1>9 DEF Start
  <2>3. ~At({"submitStatus"})'
    BY <2>1, <2>2, HandlerStages DEF At, Idle
  <2> QED
    BY <1>3, <2>1, <2>3
<1>10. CASE \/ StartNode \/ ResolveNode \/ NodeTimer \/ Resync \/ UNCHANGED vars
            \/ NodeFails \/ DeleteNode \/ Recover \/ Elapse \/ NodeRemoved \/ Heartbeat
  <2>1. UNCHANGED <<object, device, pass>>
    BY <1>10
    DEF StartNode, ResolveNode, NodeTimer, Resync, NodeFails, DeleteNode, Recover, Elapse,
        NodeRemoved, Heartbeat, NodeStep, Rest, store, vars
  <2> QED
    BY <1>3, <2>1
<1> QED
  BY <1>4, <1>5, <1>6, <1>7, <1>8, <1>9, <1>10 DEF Next, Handle, NodeHandle, Environment

-----------------------------------------------------------------------------
LEMMA JoinInit == Init => JoinInv
<1> SUFFICES ASSUME Init PROVE Before
  BY DEF JoinInv
<1>1. Unsubmitted
  <2>1. NewInstance.status = ""
    BY DEF NewInstance
  <2>2. object = NewInstance
    BY DEF Init
  <2> QED
    BY <2>1, <2>2, AccountedInit DEF AccountedInv, Submitted, Copies
<1>2. Live = {}
  BY DEF Init, Unused, Live, Exists
<1>3. ~At({"submitStatus"})
  BY DEF Init, Idle, At
<1> QED
  BY <1>1, <1>2, <1>3 DEF Before, Busy

LEMMA JoinNext ==
  ASSUME NoAccident, SlowInstall, Core, AroundTypes, JoinInv, [Next]_vars
  PROVE  JoinInv'
BY BeforeNext, SubmittedNext, OnceNext DEF JoinInv

LEMMA JoinAlways ==
  ASSUME NoAccident, SlowInstall PROVE Spec => []JoinInv
<1>1. JoinInv /\ Core /\ AroundTypes /\ [Next]_vars => JoinInv'
  BY JoinNext
<1>2. TypeOK => AroundTypes
  BY DEF TypeOK, AroundTypes
<1> QED
  BY <1>1, <1>2, JoinInit, CoreAlways, Typed, PTL DEF Spec

(* An Instance becomes managed only once the device it was given has been  *)
(* reinstalled and has joined: no stale copy of it, and no node left over, *)
(* is mistaken for that.                                                   *)
THEOREM Joined ==
  ASSUME NoAccident, SlowInstall PROVE Spec => []ManagedHasJoined
<1>1. JoinInv => ManagedHasJoined
  <2>1. Gone.status # "managed" /\ NewInstance.status # "managed"
    BY DEF Gone, NewInstance
  <2> QED
    BY <2>1
    DEF JoinInv, Before, Unsubmitted, Once, Known, KnownOf, ManagedHasJoined
<1> QED
  BY <1>1, JoinAlways, PTL

(* A device whose node has joined is not wiped again, whatever the watch   *)
(* delivers late and whenever the Instance or its node is deleted.         *)
THEOREM WipedBeforeJoining ==
  ASSUME NoAccident, SlowInstall PROVE Spec => JoinedNotReinstalled
<1>1. ASSUME JoinInv, Core, Reinstall PROVE device[pass.i.id].boots # "joined"
  <2>1. At({"reinstall"}) /\ Exists(pass.i.id)
    BY <1>1 DEF Reinstall, ReinstallDevice
  <2>2. Submitted /\ Once
    BY <1>1, <2>1 DEF JoinInv, Before, Unsubmitted, At
  <2> QED
    BY <1>1, <2>1, <2>2, ReinstallsUntold DEF Told
<1>2. JoinInv /\ Core /\ [Next]_vars
        => [Reinstall => device[pass.i.id].boots # "joined"]_vars
  BY <1>1
<1> QED
  BY <1>2, JoinAlways, CoreAlways, PTL DEF Spec, JoinedNotReinstalled
=============================================================================
