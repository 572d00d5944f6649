-------------------------- MODULE InstanceCountProofs --------------------------
(***************************************************************************)
(* How many devices one Instance can come to: DevicesBounded, for all      *)
(* disturbances.  submitRequest is called for whoever shows no status, and *)
(* three copies of the Instance may: the pass's, the cached one and the    *)
(* stored one, should it be delivered.  Owed counts the creations that are *)
(* still to come from them if nothing more goes wrong.  A creation pays    *)
(* for itself, and no step adds to what is owed but a failing call, which  *)
(* adds one (and may have created another), and a restart, which adds one. *)
(***************************************************************************)
EXTENDS InstanceProofs, FiniteSetTheorems

Submittable(o) == o # Gone /\ ~o.deleting /\ o.status = ""

Fresh == pass.fresh /\ ~At({"idle"})

(* wrangler's finalizer is still to be written, which makes the cached     *)
(* Instance an old one.                                                    *)
Bare == Submittable(object) /\ "wrangler" \notin object.finalizers

Creating == At({"create"})
Recreating == Submittable(cache) /\ ~(Creating /\ pass.shared)
Relisted == Submittable(object) /\ stale
Exposed ==
  Bare /\ (Fresh \/ ~Submittable(cache)) /\ ~(Fresh /\ At({"create", "submitStatus"}))

One(b) == IF b THEN 1 ELSE 0

Owed == One(Creating) + One(Recreating) + One(Relisted) + One(Exposed)

(* Who is about to submit from the stored version does so on the cached    *)
(* object itself, and as long as nothing is submitted the only finalizer   *)
(* is wrangler's.                                                          *)
Early ==
  /\ At({"create", "submitStatus"}) /\ pass.fresh => pass.shared /\ ~stale
  /\ Bare => ~stale
  /\ At({"submitFinalizer"}) /\ pass.fresh => object.status # ""
  /\ Submittable(object) =>
       /\ object.finalizers \subseteq {"wrangler"}
       /\ Fresh => ~stale /\ pass.i.finalizers \subseteq object.finalizers
       /\ ~stale => cache.finalizers \subseteq object.finalizers

(***************************************************************************)
(* Counting.                                                               *)
(***************************************************************************)
LEMMA OwedType == Owed \in Nat /\ Owed' \in Nat
BY DEF Owed, One

LEMMA Sums ==
  /\ \A a, b \in Nat : a + 1 <= b => a <= b
  /\ \A l, o, d, m, q, e \in Nat :
       l + o <= 1 + 2 * d /\ m <= l + 1 /\ q + 1 <= o /\ e = d => m + q <= 1 + 2 * e
  /\ \A l, o, d \in Nat : l + o <= 1 + 2 * d => l <= 1 + 2 * d
OBVIOUS

LEMMA OwedLess ==
  ASSUME Creating' => Creating, Recreating' => Recreating, Relisted' => Relisted,
         Exposed' => Exposed
  PROVE  Owed' <= Owed
BY DEF Owed, One

LEMMA LiveFinite ==
  /\ IsFiniteSet(Live) /\ Cardinality(Live) \in Nat
  /\ IsFiniteSet(Live') /\ Cardinality(Live') \in Nat
BY ConstantsAssumption, FS_Subset, FS_CardinalityType DEF Live

LEMMA LiveCounts ==
  /\ Live' \subseteq Live => Cardinality(Live') <= Cardinality(Live)
  /\ (\E d \in Devices : Live' \subseteq Live \cup {d}) =>
        Cardinality(Live') <= Cardinality(Live) + 1
<1>1. Live' \subseteq Live => Cardinality(Live') <= Cardinality(Live)
  BY LiveFinite, FS_Subset
<1>2. ASSUME NEW d \in Devices, Live' \subseteq Live \cup {d}
      PROVE  Cardinality(Live') <= Cardinality(Live) + 1
  <2>1. /\ IsFiniteSet(Live \cup {d})
        /\ Cardinality(Live \cup {d}) <= Cardinality(Live) + 1
    BY LiveFinite, FS_AddElement
  <2>2. /\ Cardinality(Live') <= Cardinality(Live \cup {d})
        /\ Cardinality(Live \cup {d}) \in Nat
    BY <1>2, <2>1, FS_Subset, FS_CardinalityType
  <2> QED
    BY <2>1, <2>2, LiveFinite
<1> QED
  BY <1>1, <1>2

(* Only submitRequest, failing or not, adds to the devices, and it adds    *)
(* one.                                                                    *)
LEMMA LiveStep ==
  ASSUME AroundTypes, [Next]_vars
  PROVE  \/ Live' \subseteq Live
         \/ (CreateNewDevice \/ Fault) /\ \E d \in Devices : Live' \subseteq Live \cup {d}
<1>1. CASE UNCHANGED device
  BY <1>1 DEF Live, Exists
<1>2. CASE ReinstallDevice
  BY <1>2 DEF ReinstallDevice, Live, Exists, AroundTypes
<1>3. CASE DeleteDevice
  BY <1>3 DEF DeleteDevice, Live, Exists, AroundTypes, Device
<1>4. ASSUME NEW d \in Devices, Install(d) \/ Join(d) PROVE Live' \subseteq Live
  BY <1>4 DEF Install, Join, Live, Exists, AroundTypes, Device
<1>5. ASSUME NEW d \in Devices, CreateDevice(d) PROVE Live' \subseteq Live \cup {d}
  BY <1>5 DEF CreateDevice, Live, Exists, AroundTypes
<1>6. ASSUME Handle, ~CreateNewDevice
      PROVE  UNCHANGED device \/ ReinstallDevice \/ DeleteDevice
  BY <1>6
  DEF Handle, Write, CheckDevice, Reinstall, ManageNodes, AddFinalizer, RemoveDevice,
      RemoveNode, DropEquinix, DropWrangler, Call, At, UpdateStatus, Update,
      FindAndDeleteNode, store
<1>7. ASSUME Fault
      PROVE  \/ UNCHANGED device \/ ReinstallDevice \/ DeleteDevice
             \/ \E d \in Devices : CreateDevice(d)
  BY <1>7 DEF Fault, Call, UpdateStatus, Update, FindAndDeleteNode, store
<1>8. CreateNewDevice => \E d \in Devices : CreateDevice(d)
  BY DEF CreateNewDevice
<1>9. \/ UNCHANGED device \/ Handle \/ Fault \/ \E d \in Devices : Install(d) \/ Join(d)
  BY DEF Next, Start, StartNode, NodeHandle, ResolveNode, DeleteInstance, NodeTimer,
      Deliver, Environment, NodeFails, DeleteNode, Recover, Elapse, NodeRemoved,
      Heartbeat, NodeStep, Delete, NodeFault, Crash, Resync, store, vars
<1> QED
  BY <1>1, <1>2, <1>3, <1>4, <1>5, <1>6, <1>7, <1>8, <1>9

(***************************************************************************)
(* The ways a step changes the copies of the Instance.                     *)
(***************************************************************************)
LEMMA NothingMoves ==
  ASSUME Early, UNCHANGED <<object, stale, cache, pass>>
  PROVE  Early' /\ Owed' <= Owed
<1>1. /\ Creating' <=> Creating
      /\ Recreating' <=> Recreating
      /\ Relisted' <=> Relisted
      /\ Exposed' <=> Exposed
  BY DEF Creating, Recreating, Relisted, Exposed, Bare, Fresh, At, Submittable
<1>2. Early'
  BY DEF Early, Bare, Fresh, At, Submittable
<1> QED
  BY <1>1, <1>2, OwedLess

(* Somebody deletes the object.                                            *)
LEMMA RemoveMoves ==
  ASSUME Core, Early, Remove, Overtake, UNCHANGED cache
  PROVE  Early' /\ Owed' <= Owed
<1>1. ~Submittable(object')
  BY DEF Remove, Put, Core, CoreTypes, Objects, InstanceObject, Submittable
<1>2. /\ pass'.at = pass.at /\ pass'.i = pass.i /\ pass'.shared = pass.shared
      /\ pass'.fresh => pass.fresh /\ object' = object
      /\ stale' = (stale \/ object' # object)
  BY DEF Remove, Put, Overtake, Core, CoreTypes, Pass
<1>3. /\ Creating' <=> Creating
      /\ Recreating' <=> Recreating
      /\ ~Relisted' /\ ~Exposed'
  BY <1>1, <1>2 DEF Creating, Recreating, Relisted, Exposed, Bare, At, Submittable
<1>4. Early'
  BY <1>1, <1>2 DEF Early, Bare, At, Submittable
<1> QED
  BY <1>3, <1>4, OwedLess

(* A pass that did not get to submitting ends.                             *)
LEMMA ReturnMoves ==
  ASSUME Early, pass' = Idle, UNCHANGED cache, ~At({"create", "submitStatus"}),
         (object' = object /\ stale' = stale) \/ ~Submittable(object')
  PROVE  Early' /\ Owed' <= Owed
<1>1. pass'.at = "idle"
  BY DEF Idle
<1>2. /\ ~Creating' /\ ~Creating /\ ~Fresh' /\ ~At({"create", "submitStatus"})
      /\ ~At({"create", "submitStatus", "submitFinalizer"})'
  BY <1>1 DEF Creating, Fresh, At
<1>3. Recreating' => Recreating
  BY <1>2 DEF Recreating
<1>4. \/ ~Submittable(object')
      \/ object' = object /\ stale' = stale /\ (Submittable(object') <=> Submittable(object))
  BY DEF Submittable
<1>5. (Relisted' => Relisted) /\ (Exposed' => Exposed)
  BY <1>2, <1>4 DEF Relisted, Exposed, Bare
<1>6. Early'
  <2>1. Bare' => ~stale'
    BY <1>4 DEF Early, Bare
  <2>2. Submittable(object') =>
          /\ object'.finalizers \subseteq {"wrangler"}
          /\ ~stale' => cache'.finalizers \subseteq object'.finalizers
    BY <1>4 DEF Early
  <2>3. ~At({"create", "submitStatus"})' /\ ~At({"submitFinalizer"})'
    BY <1>2 DEF At
  <2> QED
    BY <1>2, <2>1, <2>2, <2>3 DEF Early
<1> QED
  BY <1>2, <1>3, <1>5, <1>6, OwedLess

(* It goes on, with a copy that shows a status.                            *)
LEMMA GoesOnMoves ==
  ASSUME Core, Early, UNCHANGED <<object, stale>>, NEW i \in InstanceObject,
         i.finalizers \subseteq pass.i.finalizers,
         pass'.i = i, pass'.fresh = pass.fresh,
         pass'.at \notin {"create", "submitStatus", "submitFinalizer", "idle"},
         ~At({"idle"}), At({"create", "submitStatus"}) => ~pass.fresh,
         \/ cache' = cache
         \/ cache' = i /\ cache = pass.i /\ ~Submittable(i) /\ ~Submittable(pass.i)
  PROVE  Early' /\ Owed' <= Owed
<1>1. Submittable(cache') <=> Submittable(cache)
  BY DEF Submittable
<1>2. /\ ~Creating' /\ (Relisted' <=> Relisted) /\ (Bare' <=> Bare)
      /\ (Fresh' <=> Fresh)
      /\ ~At({"create", "submitStatus", "submitFinalizer", "idle"})'
  BY DEF Creating, Relisted, Bare, Fresh, At, Submittable
<1>3. Exposed' => Exposed
  BY <1>1, <1>2 DEF Exposed, Fresh, At
<1>5. Early'
  BY <1>1, <1>2 DEF Early, At, Submittable, Bare
<1>4. Recreating' => Recreating \/ Creating
  BY <1>1 DEF Recreating, Creating, At
<1> QED
  BY <1>2, <1>3, <1>4, <1>5 DEF Owed, One

(***************************************************************************)
(* The steps.                                                              *)
(***************************************************************************)
LEMMA StartMoves ==
  ASSUME Core, Early, Start
  PROVE  Early' /\ Owed' <= Owed
<1>1. UNCHANGED <<object, stale, cache>> /\ At({"idle"})
  BY DEF Start, store
<1>2. CASE Handler(cache) = "idle"
  <2>1. pass' = Idle /\ ~At({"create", "submitStatus"})
    BY <1>1, <1>2 DEF Start, At
  <2> QED
    BY <1>1, <2>1, ReturnMoves
<1>3. CASE Handler(cache) # "idle"
  <2>1. pass' = [at |-> Handler(cache), i |-> cache, shared |-> TRUE,
                 fresh |-> ~stale, failed |-> FALSE]
    BY <1>3 DEF Start
  <2>2. /\ pass'.at = Handler(cache) /\ pass'.i = cache /\ pass'.shared
        /\ pass'.fresh <=> ~stale
    BY <2>1
  <2>3. cache \in InstanceObject /\ cache # Gone
    BY <1>3, HandlerFacts, GoneIsNone DEF Core, CoreTypes
  <2>4. /\ Handler(cache) = "create" <=> Submittable(cache)
        /\ Handler(cache) \notin {"submitStatus", "submitFinalizer"}
    <3>1. CASE cache.deleting
      <4>1. Handler(cache) = OnInstanceRemove(cache.finalizers)
        BY <2>3, <3>1 DEF Handler
      <4>2. cache.finalizers \in {{}, {"equinix"}, {"wrangler"}, Finalizers}
        BY <2>3 DEF InstanceObject, Finalizers
      <4> QED
        BY <3>1, <4>1, <4>2 DEF OnInstanceRemove, Finalizers, Submittable
    <3>2. CASE ~cache.deleting
      BY <2>3, <3>2 DEF Handler, OnInstanceChange, Submittable
    <3> QED
      BY <3>1, <3>2
  <2>5. /\ Creating' <=> Submittable(cache)
        /\ ~Creating /\ ~Fresh /\ (Fresh' <=> ~stale)
        /\ ~At({"submitFinalizer", "submitStatus"})'
        /\ Submittable(cache') <=> Submittable(cache)
        /\ Submittable(object') <=> Submittable(object)
    BY <1>1, <1>3, <2>2, <2>4 DEF Creating, Fresh, At
  <2>6. /\ Recreating <=> Submittable(cache)
        /\ Recreating' <=> FALSE
    BY <2>2, <2>5 DEF Recreating
  <2>7. Relisted' <=> Relisted
    BY <1>1, <2>5 DEF Relisted
  <2>8. Exposed' => Exposed
    <3>1. Bare' <=> Bare
      BY <1>1, <2>5 DEF Bare
    <3>2. Bare' => ~stale
      BY <3>1 DEF Early
    <3>3. Exposed' => ~Submittable(cache)
      BY <2>5, <3>2 DEF Exposed, Creating, At
    <3> QED
      BY <2>5, <3>1, <3>3 DEF Exposed
  <2>9. Early'
    BY <1>1, <2>2, <2>5 DEF Early, Bare, At
  <2> QED
    BY <2>5, <2>6, <2>7, <2>8, <2>9 DEF Owed, One
<1> QED
  BY <1>2, <1>3

(* A creation is one of those that were owed.                              *)
LEMMA CreateMoves ==
  ASSUME Core, Early, CreateNewDevice
  PROVE  Early' /\ Owed' + 1 <= Owed
<1>1. PICK d \in Devices, state \in CreateStates :
        CreateDevice(d) /\ Assign(Created(pass.i, d, state), "submitStatus")
  BY DEF CreateNewDevice
<1> DEFINE i == Created(pass.i, d, state)
<1>2. UNCHANGED <<object, stale>> /\ pass.at = "create" /\ pass.i \in InstanceObject
  BY <1>1 DEF CreateNewDevice, CreateDevice, At, Core, CoreTypes, Pass
<1>3. state \in {"queued", "other"}
  BY ConstantsAssumption
<1>4. i.status # "" /\ i.finalizers = pass.i.finalizers
  BY <1>2, <1>3 DEF Created, InstanceObject
<1> HIDE DEF i
<1>5. /\ pass'.at = "submitStatus" /\ pass'.i = i
      /\ pass'.fresh = pass.fresh /\ pass'.shared = pass.shared
      /\ cache' = IF pass.shared THEN i ELSE cache
  BY <1>1 DEF i, Assign, Core, CoreTypes, Pass
<1>6. /\ Creating /\ ~Creating' /\ (Fresh <=> pass.fresh) /\ (Fresh' <=> pass.fresh)
      /\ At({"create", "submitStatus"}) /\ At({"create", "submitStatus"})'
      /\ ~At({"submitFinalizer"})'
      /\ Submittable(object') <=> Submittable(object)
  BY <1>2, <1>5 DEF Creating, Fresh, At, Submittable
<1>7. pass.fresh => pass.shared /\ ~stale
  BY <1>6 DEF Early
<1>8. IF pass.shared THEN ~Submittable(cache') ELSE cache' = cache
  BY <1>4, <1>5 DEF Submittable
<1>9. Recreating' => Recreating
  BY <1>6, <1>8 DEF Recreating
<1>10. Relisted' <=> Relisted
  BY <1>2, <1>6 DEF Relisted
<1>11. Exposed' => Exposed
  <2>1. Bare' <=> Bare
    BY <1>2, <1>6 DEF Bare
  <2>2. Exposed' => ~pass.fresh /\ Bare /\ ~stale
    BY <1>6, <2>1 DEF Exposed, Early
  <2>3. ~stale /\ ~pass.fresh => ~pass.shared
    BY <1>2 DEF Core, Handled, At
  <2> QED
    BY <1>6, <1>8, <2>1, <2>2, <2>3 DEF Exposed
<1>12. cache'.finalizers = cache.finalizers
  BY <1>2, <1>4, <1>5 DEF Core, Handled, At
<1>13. Early'
  BY <1>2, <1>4, <1>5, <1>6, <1>7, <1>12 DEF Early, Bare
<1> QED
  BY <1>6, <1>9, <1>10, <1>11, <1>13 DEF Owed, One

(* What a call does to the object: only wrangler's finalizer leaves it     *)
(* submittable.                                                            *)
LEMMA CallHides ==
  ASSUME Core, Early, Call, ~At({"hold", "idle"})
  PROVE  ~Submittable(object') \/ /\ object' = object /\ stale' = stale
                                  /\ At({"create", "reinstall", "deleteDevice", "deleteNode"})
<1>1. CASE At({"create", "reinstall", "deleteDevice", "deleteNode"})
  BY <1>1 DEF Call, At, CreateDevice, ReinstallDevice, DeleteDevice, FindAndDeleteNode
<1>2. CASE At({"submitStatus", "writeStatus"})
  <2>1. /\ object \in InstanceObject /\ pass.i.status # ""
        /\ object' = [object EXCEPT !.status = pass.i.status, !.id = pass.i.id]
    BY <1>2 DEF Call, At, UpdateStatus, Put, Core, CoreTypes, Objects, Handled, Staged,
                StageOK
  <2> QED
    BY <2>1 DEF Submittable, InstanceObject
<1>3. CASE At({"submitFinalizer"})
  <2>1. /\ object # Gone /\ object \in InstanceObject /\ object.status # ""
        /\ object' \in {Gone, [object EXCEPT !.finalizers = {"equinix"}]}
    BY <1>3 DEF Call, At, Update, Put, Core, CoreTypes, Objects, Handled, Early
  <2> QED
    BY <2>1 DEF Submittable, InstanceObject
<1>4. CASE At({"dropEquinix", "dropWrangler"})
  <2>1. /\ object # Gone /\ object \in InstanceObject /\ object.deleting
        /\ \E f : Update(f)
    BY <1>4 DEF Call, At, Update, Core, CoreTypes, Objects, Handled, Staged, StageOK,
                Removing, Ahead
  <2>2. \E f : object' \in {Gone, [object EXCEPT !.finalizers = f]}
    BY <2>1 DEF Update, Put
  <2> QED
    BY <2>1, <2>2 DEF Submittable, InstanceObject
<1> QED
  BY <1>1, <1>2, <1>3, <1>4 DEF Call, At

(* The write that may make the cached object an old one is one that was    *)
(* expected.                                                               *)
LEMMA AddMoves ==
  ASSUME Core, Early, Call, At({"hold"}), pass' = Idle, UNCHANGED cache
  PROVE  Early' /\ Owed' <= Owed
<1>1. CASE ~Submittable(object')
  BY <1>1, ReturnMoves DEF At
<1>2. CASE Submittable(object')
  <2>1. /\ pass.fresh /\ object # Gone /\ object \in InstanceObject
        /\ ~pass.i.deleting /\ ~object.deleting
    BY DEF Call, At, Update, Core, CoreTypes, Objects, Handled, Staged, StageOK,
           Removing, Ahead
  <2>2. /\ object' = [object EXCEPT !.finalizers = pass.i.finalizers \cup {"wrangler"}]
        /\ stale' = (stale \/ object' # object)
    BY <2>1 DEF Call, At, Update, Put
  <2>3. /\ object'.status = object.status /\ object'.deleting = object.deleting
        /\ object'.finalizers = pass.i.finalizers \cup {"wrangler"}
    BY <2>1, <2>2 DEF InstanceObject
  <2>4. Submittable(object)
    BY <1>2, <2>1, <2>3 DEF Submittable
  <2>5. Fresh /\ ~At({"create", "submitStatus"})
    BY <2>1 DEF Fresh, At
  <2>6. /\ ~stale /\ pass.i.finalizers \subseteq object.finalizers
        /\ object.finalizers \subseteq {"wrangler"}
    BY <2>4, <2>5 DEF Early
  <2>7. CASE "wrangler" \in object.finalizers
    <3>1. object'.finalizers = object.finalizers
      BY <2>3, <2>6, <2>7
    <3>2. object' = object
      BY <2>1, <2>2, <2>3, <3>1 DEF InstanceObject
    <3> QED
      <4>1. stale' = stale
        BY <2>2, <3>2 DEF Core, CoreTypes
      <4> QED
        BY <2>5, <3>2, <4>1, ReturnMoves
  <2>8. CASE "wrangler" \notin object.finalizers
    <3>1. Exposed
      BY <2>4, <2>5, <2>8 DEF Exposed, Bare
    <3>2. ~Bare' /\ stale' /\ object'.finalizers \subseteq {"wrangler"}
      BY <2>2, <2>3, <2>6, <2>8 DEF Bare
    <3>3. ~Fresh' /\ ~At({"create", "submitStatus", "submitFinalizer"})' /\ ~Creating'
          /\ ~Creating
      BY <2>5 DEF Fresh, At, Idle, Creating
    <3>4. ~Exposed' /\ (Recreating' => Recreating) /\ ~Relisted
      BY <2>6, <3>2, <3>3 DEF Exposed, Recreating, Relisted
    <3>5. ~At({"create", "submitStatus"})' /\ ~At({"submitFinalizer"})'
      BY <3>3 DEF At
    <3>6. Early'
      BY <3>2, <3>3, <3>5 DEF Early
    <3> QED
      BY <3>1, <3>3, <3>4, <3>6 DEF Owed, One
  <2> QED
    BY <2>7, <2>8
<1> QED
  BY <1>1, <1>2

LEMMA WriteMoves ==
  ASSUME Core, Early, Write
  PROVE  Early' /\ Owed' <= Owed
<1>1. At({"submitStatus", "submitFinalizer", "writeStatus"})
  BY DEF Write
<1>2. CASE ~pass.fresh /\ HoldNow(TRUE) /\ UNCHANGED store
  <2>1. /\ pass'.at = "hold" /\ pass'.i = pass.i /\ pass'.fresh = pass.fresh
        /\ pass.i \in InstanceObject /\ UNCHANGED <<object, stale, cache>>
    BY <1>2 DEF HoldNow, Core, CoreTypes, Pass, store
  <2> QED
    BY <1>1, <1>2, <2>1, GoesOnMoves DEF At
<1>3. ASSUME Call, NEW stage \in {"submitFinalizer", "hold"}, Wrote(stage),
             stage = "submitFinalizer" => At({"submitStatus"})
      PROVE  Early' /\ Owed' <= Owed
  <2>1. ~Submittable(object')
    BY <1>1, <1>3, CallHides DEF At
  <2>2. object'.status # ""
    BY <1>1, <1>3, <2>1, CallStep DEF At, Submittable
  <2>3. pass'.at = stage /\ UNCHANGED cache
    BY <1>3 DEF Wrote, Core, CoreTypes, Pass
  <2>4. /\ ~Creating /\ ~Creating' /\ ~At({"create", "submitStatus"})'
        /\ ~Bare' /\ (Submittable(cache') <=> Submittable(cache))
    BY <1>1, <2>1, <2>3 DEF Creating, At, Bare
  <2>5. /\ Recreating' => Recreating
        /\ ~Relisted' /\ ~Exposed'
    BY <2>1, <2>4 DEF Recreating, Relisted, Exposed
  <2>6. Early'
    BY <2>1, <2>2, <2>4 DEF Early
  <2> QED
    BY <2>4, <2>5, <2>6, OwedLess
<1> QED
  BY <1>2, <1>3 DEF Write

(* A pass that goes on with i, assigned to the cached object or to its own.*)
LEMMA AssignMoves ==
  ASSUME Core, Early, UNCHANGED <<object, stale>>, NEW stage \in {"writeStatus", "dropEquinix"},
         NEW i \in InstanceObject, i.finalizers \subseteq pass.i.finalizers,
         i.status # "" \/ i.deleting, pass.i.status # "" \/ pass.i.deleting,
         Assign(i, stage), ~At({"idle", "create", "submitStatus"})
  PROVE  Early' /\ Owed' <= Owed
<1>1. /\ pass'.i = i /\ pass'.fresh = pass.fresh /\ pass'.at = stage
      /\ cache' = IF pass.shared THEN i ELSE cache
  BY DEF Assign, Core, CoreTypes, Pass
<1>2. pass.shared => cache = pass.i
  BY DEF Core, Handled, At
<1>3. ~Submittable(i) /\ ~Submittable(pass.i)
  BY DEF Submittable
<1> QED
  BY <1>1, <1>2, <1>3, GoesOnMoves DEF At

LEMMA StayMoves ==
  ASSUME Core, Early, UNCHANGED <<object, stale, cache>>,
         NEW stage \in {"hold", "reinstall", "deleteNode"}, NEW failed \in BOOLEAN,
         pass' = [pass EXCEPT !.at = stage, !.failed = failed],
         ~At({"idle", "create", "submitStatus"})
  PROVE  Early' /\ Owed' <= Owed
<1>1. /\ pass'.i = pass.i /\ pass'.fresh = pass.fresh /\ pass'.at = stage
      /\ pass.i \in InstanceObject
  BY DEF Core, CoreTypes, Pass
<1> QED
  BY <1>1, GoesOnMoves DEF At

LEMMA ChangeMoves ==
  ASSUME Core, Early, CheckDevice \/ Reinstall \/ ManageNodes \/ RemoveDevice \/ RemoveNode
  PROVE  Early' /\ Owed' <= Owed
<1>1. /\ UNCHANGED <<object, stale>> /\ pass.i \in InstanceObject
      /\ ~At({"idle", "create", "submitStatus"})
  BY DEF CheckDevice, Reinstall, ReinstallDevice, ManageNodes, RemoveDevice, DeleteDevice,
         RemoveNode, FindAndDeleteNode, store, At, Core, CoreTypes, Pass, Staged, StageOK,
         Removing
<1>2. ASSUME NEW failed \in BOOLEAN, HoldNow(failed)
      PROVE  Early' /\ Owed' <= Owed
  BY <1>1, <1>2, StayMoves DEF HoldNow
<1>3. ASSUME NEW stage \in {"reinstall", "deleteNode"}, GoTo(stage)
      PROVE  Early' /\ Owed' <= Owed
  <2>1. pass' = [pass EXCEPT !.at = stage, !.failed = pass.failed]
        /\ pass.failed \in BOOLEAN
    BY <1>3 DEF GoTo, Core, CoreTypes, Pass
  <2> QED
    BY <1>1, <1>3, <2>1, StayMoves DEF GoTo
<1>4. ASSUME NEW status \in {"reinstalling", "ready", "managed"},
             Assign([pass.i EXCEPT !.status = status], "writeStatus"),
             pass.i.status # ""
      PROVE  Early' /\ Owed' <= Owed
  <2> DEFINE i == [pass.i EXCEPT !.status = status]
  <2>1. /\ i \in InstanceObject /\ i.status # ""
        /\ i.finalizers \subseteq pass.i.finalizers
    BY <1>1 DEF InstanceObject, Statuses
  <2> HIDE DEF i
  <2> QED
    BY <1>1, <1>4, <2>1, AssignMoves DEF i
<1>5. CASE RemoveNode
  <2> DEFINE i == [pass.i EXCEPT !.finalizers = @ \ {"equinix"}]
  <2>1. pass.i.deleting /\ Assign(i, "dropEquinix")
    BY <1>5 DEF RemoveNode, At, Core, Staged, StageOK, Removing
  <2>2. /\ i \in InstanceObject /\ i.deleting
        /\ i.finalizers \subseteq pass.i.finalizers
    BY <1>1, <2>1 DEF InstanceObject
  <2> HIDE DEF i
  <2> QED
    BY <1>1, <2>1, <2>2, AssignMoves
<1>6. CASE RemoveDevice
  BY <1>3, <1>6 DEF RemoveDevice
<1>7. CASE CheckDevice \/ Reinstall \/ ManageNodes
  <2>1. pass.i.status # ""
    BY <1>7 DEF CheckDevice, Reinstall, ManageNodes, At, Core, Staged, StageOK
  <2> QED
    BY <1>2, <1>3, <1>4, <1>7, <2>1 DEF CheckDevice, Reinstall, Reinstalling, ManageNodes
<1> QED
  BY <1>5, <1>6, <1>7

(* A pass ends at its finalizers, or OnInstanceRemove is through.          *)
LEMMA EndMoves ==
  ASSUME Core, Early, AddFinalizer \/ DropEquinix \/ DropWrangler
  PROVE  Early' /\ Owed' <= Owed
<1>1. At({"hold", "dropEquinix", "dropWrangler"})
  BY DEF AddFinalizer, DropEquinix, DropWrangler, At
<1>2. CASE UNCHANGED store /\ pass' = Idle /\ UNCHANGED cache
  BY <1>1, <1>2, ReturnMoves DEF At, store
<1>3. CASE Call /\ pass' = Idle /\ UNCHANGED cache
  <2>1. CASE At({"hold"})
    BY <1>3, <2>1, AddMoves
  <2>2. CASE ~At({"hold"})
    <3>1. ~Submittable(object')
      BY <1>1, <1>3, <2>2, CallHides DEF At
    <3> QED
      BY <1>1, <1>3, <3>1, ReturnMoves DEF At
  <2> QED
    BY <2>1, <2>2
<1>4. CASE /\ DropEquinix /\ Call /\ UNCHANGED cache
           /\ pass' = [pass EXCEPT !.at = "dropWrangler", !.fresh = object' = object]
  <2>1. /\ pass'.at = "dropWrangler" /\ UNCHANGED cache
    BY <1>4 DEF Core, CoreTypes, Pass
  <2>2. ~Submittable(object')
    BY <1>4, CallHides DEF At, DropEquinix
  <2>3. /\ ~Creating /\ ~Creating' /\ ~At({"create", "submitStatus"})'
        /\ ~At({"submitFinalizer"})' /\ ~Bare'
        /\ (Submittable(cache') <=> Submittable(cache))
    BY <1>1, <2>1, <2>2 DEF Creating, At, Bare
  <2>4. /\ Recreating' => Recreating
        /\ ~Relisted' /\ ~Exposed'
    BY <2>2, <2>3 DEF Recreating, Relisted, Exposed
  <2>5. Early'
    BY <2>2, <2>3 DEF Early
  <2> QED
    BY <2>3, <2>4, <2>5, OwedLess
<1> QED
  BY <1>2, <1>3, <1>4 DEF AddFinalizer, DropEquinix, DropWrangler, Return

(* What is delivered was owed already.                                     *)
LEMMA DeliverMoves ==
  ASSUME Core, Early, Deliver
  PROVE  Early' /\ Owed' <= Owed
<1>1. stale /\ ~stale' /\ object' = object /\ cache' = object
  BY DEF Deliver
<1>2. /\ pass'.at = pass.at /\ pass'.i = pass.i /\ pass'.fresh = pass.fresh
      /\ ~pass'.shared
  BY DEF Deliver, Core, CoreTypes, Pass
<1>3. /\ Creating' <=> Creating
      /\ Recreating' <=> Submittable(object)
      /\ Relisted <=> Submittable(object)
      /\ ~Relisted'
      /\ Fresh' <=> Fresh
  BY <1>1, <1>2 DEF Creating, Recreating, Relisted, Fresh, At
<1>4. ~Exposed'
  <2>1. ~Bare
    BY <1>1 DEF Early
  <2> QED
    BY <1>1, <2>1 DEF Exposed, Bare
<1>5. ~(At({"create", "submitStatus"}) /\ pass.fresh)
  BY <1>1 DEF Early
<1>6. Early'
  BY <1>1, <1>2, <1>3, <1>5 DEF Early, At
<1> QED
  BY <1>3, <1>4, <1>6 DEF Owed, One

(* A restart forgets what the pass was about.                              *)
LEMMA CrashMoves ==
  ASSUME Core, Early, Crash
  PROVE  Early' /\ Owed' <= Owed + 1
<1>1. ~stale' /\ object' = object /\ cache' = object /\ pass'.at = "idle"
  BY DEF Crash, Idle
<1>2. ~Creating' /\ ~Relisted' /\ ~Fresh' /\ ~At({"create", "submitStatus"})'
      /\ ~At({"submitFinalizer"})'
  BY <1>1 DEF Creating, Relisted, Fresh, At
<1>3. ~Exposed'
  BY <1>1, <1>2 DEF Exposed, Bare
<1>4. Early'
  BY <1>1, <1>2 DEF Early
<1>5. Owed' <= 1
  BY <1>2, <1>3 DEF Owed, One
<1> QED
  BY <1>4, <1>5, OwedType

(* A failing call leaves the pass with an object that may still be the     *)
(* stored version, or it does not.                                         *)
LEMMA FaultMoves ==
  ASSUME Core, Early, Fault
  PROVE  Early' /\ Owed' <= Owed + 1
<1>1. CASE At({"hold", "deleteDevice", "deleteNode", "dropEquinix", "dropWrangler"})
  <2>1. pass' = Idle /\ UNCHANGED cache
    BY <1>1 DEF Fault, Return
  <2>2. Owed' <= Owed => Owed' <= Owed + 1
    BY OwedType
  <2>3. ~At({"create", "submitStatus"})
    BY <1>1 DEF At
  <2>4. CASE UNCHANGED store
    BY <2>1, <2>2, <2>3, <2>4, ReturnMoves DEF store
  <2>5. CASE Call /\ At({"hold"})
    BY <2>1, <2>2, <2>5, AddMoves
  <2>6. CASE Call /\ ~At({"hold"})
    BY <1>1, <2>1, <2>2, <2>3, <2>6, CallHides, ReturnMoves DEF At
  <2> QED
    BY <2>4, <2>5, <2>6 DEF Fault
<1>2. CASE ~At({"hold", "deleteDevice", "deleteNode", "dropEquinix", "dropWrangler"})
  <2>1. /\ pass' = [pass EXCEPT !.at = "hold", !.failed = TRUE,
              !.fresh = @ /\ object' = object /\ ~At({"submitFinalizer"})]
        /\ UNCHANGED cache
    BY <1>2 DEF Fault
  <2>2. /\ pass'.at = "hold" /\ pass'.i = pass.i
        /\ pass'.fresh <=> (pass.fresh /\ object' = object /\ ~At({"submitFinalizer"}))
    BY <2>1 DEF Core, CoreTypes, Pass
  <2>3. /\ ~At({"hold", "idle"}) /\ (Fresh' => Fresh)
        /\ ~Creating' /\ ~At({"create", "submitStatus"})' /\ ~At({"submitFinalizer"})'
    BY <1>2, <2>2 DEF Fault, At, Creating, Fresh
  <2>4. Submittable(cache') <=> Submittable(cache)
    BY <2>1
  <2>5. Recreating' => Recreating \/ Creating
    BY <2>4 DEF Recreating
  <2>6. ~Submittable(object') \/ (object' = object /\ stale' = stale)
    BY <2>3, CallHides DEF Fault, store
  <2>7. CASE ~Submittable(object')
    <3>1. ~Relisted' /\ ~Exposed' /\ ~Bare'
      BY <2>7 DEF Relisted, Exposed, Bare
    <3>2. Early'
      BY <2>3, <2>7, <3>1 DEF Early
    <3> QED
      BY <2>3, <2>5, <3>1, <3>2 DEF Owed, One
  <2>8. CASE object' = object /\ stale' = stale
    <3>1. /\ Relisted' <=> Relisted
          /\ Bare' <=> Bare
          /\ Submittable(object') <=> Submittable(object)
      BY <2>8 DEF Relisted, Bare
    <3>2. Early'
      <4>1. Bare' => ~stale'
        BY <2>8, <3>1 DEF Early
      <4>2. Submittable(object') =>
              /\ object'.finalizers \subseteq {"wrangler"}
              /\ Fresh' => ~stale' /\ pass'.i.finalizers \subseteq object'.finalizers
              /\ ~stale' => cache'.finalizers \subseteq object'.finalizers
        BY <2>1, <2>2, <2>3, <2>8, <3>1 DEF Early
      <4> QED
        BY <2>3, <4>1, <4>2 DEF Early
    <3> QED
      BY <2>3, <2>5, <3>1, <3>2 DEF Owed, One
  <2> QED
    BY <2>6, <2>7, <2>8
<1> QED
  BY <1>1, <1>2

(***************************************************************************)
(* The invariant.                                                          *)
(***************************************************************************)
CountInv == Early /\ Cardinality(Live) + Owed <= 1 + 2 * disturbed

LEMMA Quiet ==
  ASSUME [Next]_vars,
         ~Start, ~Handle, ~Deliver, ~Crash, ~Fault, ~Delete, ~DeleteInstance, ~NodeFault
  PROVE  UNCHANGED <<object, stale, cache, pass>>
BY DEF Next, NodeHandle, Environment, StartNode, ResolveNode, NodeTimer, Resync, Install,
       Join, NodeFails, DeleteNode, Recover, Elapse, NodeRemoved, Heartbeat, NodeStep, Rest,
       store, vars

LEMMA DisturbedGrows ==
  ASSUME AroundTypes, [Next]_vars
  PROVE  /\ disturbed' \in {disturbed, disturbed + 1}
         /\ Fault \/ Crash => disturbed' = disturbed + 1
         /\ CreateNewDevice => disturbed' = disturbed
BY DEF Next, NodeHandle, Environment, Start, Handle, CreateNewDevice, Write, CheckDevice,
       Reinstall, ManageNodes, AddFinalizer, RemoveDevice, RemoveNode, DropEquinix,
       DropWrangler, StartNode, ResolveNode, DeleteInstance, NodeTimer, Deliver, Resync,
       Install, Join, NodeFails, DeleteNode, Recover, Elapse, NodeRemoved, Heartbeat,
       NodeStep, Rest, Delete, Fault, NodeFault, Crash, Disturb, vars

LEMMA OwedNext ==
  ASSUME Core, Early, [Next]_vars
  PROVE  /\ Early'
         /\ CreateNewDevice => Owed' + 1 <= Owed
         /\ Owed' <= Owed \/ ((Fault \/ Crash) /\ Owed' <= Owed + 1)
<1>1. CASE Start
  BY <1>1, StartMoves DEF Start, CreateNewDevice, At
<1>2. CASE CreateNewDevice
  <2>1. Owed' + 1 <= Owed => Owed' <= Owed
    BY OwedType, Sums, Zenon
  <2> QED
    BY <1>2, <2>1, CreateMoves
<1>3. CASE Handle /\ ~CreateNewDevice
  BY <1>3, WriteMoves, ChangeMoves, EndMoves DEF Handle
<1>4. CASE ~CreateNewDevice /\ (Crash \/ Fault)
  BY <1>4, CrashMoves, FaultMoves
<1>5. CASE ~CreateNewDevice /\ Deliver
  BY <1>5, DeliverMoves
<1>6. CASE ~CreateNewDevice /\ (Delete \/ DeleteInstance \/ NodeFault)
  <2>1. \/ Remove /\ Overtake /\ UNCHANGED cache
        \/ UNCHANGED <<object, stale, cache, pass>>
    BY <1>6 DEF Delete, DeleteInstance, NodeFault, store
  <2> QED
    BY <1>6, <2>1, RemoveMoves, NothingMoves
<1> QED
  BY <1>1, <1>2, <1>3, <1>4, <1>5, <1>6, Quiet, NothingMoves

LEMMA CountNext ==
  ASSUME Core, AroundTypes, CountInv, [Next]_vars
  PROVE  CountInv'
<1>1. Early /\ disturbed \in Nat /\ Cardinality(Live) + Owed <= 1 + 2 * disturbed
  BY DEF CountInv, AroundTypes
<1>2. /\ Early' /\ (CreateNewDevice => Owed' + 1 <= Owed)
      /\ Owed' <= Owed \/ ((Fault \/ Crash) /\ Owed' <= Owed + 1)
  BY <1>1, OwedNext
<1>3. \/ Cardinality(Live') <= Cardinality(Live)
      \/ /\ CreateNewDevice \/ Fault
         /\ Cardinality(Live') <= Cardinality(Live) + 1
  BY LiveStep, LiveCounts
<1>4. Cardinality(Live') + Owed' <= 1 + 2 * disturbed'
  <2>1. CASE Fault \/ Crash
    <3>1. /\ disturbed' = disturbed + 1
          /\ Cardinality(Live') <= Cardinality(Live) + 1
          /\ Owed' <= Owed + 1
      BY <1>2, <1>3, <2>1, DisturbedGrows, OwedType, LiveFinite
    <3> QED
      BY <1>1, <3>1, OwedType, LiveFinite
  <2>2. CASE CreateNewDevice /\ ~Fault /\ ~Crash
    <3>1. disturbed' = disturbed /\ Owed' + 1 <= Owed
      BY <1>2, <2>2, DisturbedGrows, Zenon
    <3>2. Cardinality(Live') <= Cardinality(Live) + 1
      BY <1>3, LiveFinite
    <3> QED
      BY <1>1, <3>1, <3>2, OwedType, LiveFinite, Sums, Zenon
  <2>3. CASE ~CreateNewDevice /\ ~Fault /\ ~Crash
    <3>1. /\ disturbed' \in Nat /\ disturbed' >= disturbed
          /\ Cardinality(Live') <= Cardinality(Live)
          /\ Owed' <= Owed
      BY <1>1, <1>2, <1>3, <2>3, DisturbedGrows
    <3> QED
      BY <1>1, <3>1, OwedType, LiveFinite
  <2> QED
    BY <2>1, <2>2, <2>3
<1> QED
  BY <1>2, <1>4 DEF CountInv

LEMMA CountInit == Init => CountInv
<1> SUFFICES ASSUME Init PROVE CountInv
  OBVIOUS
<1>1. /\ object = NewInstance /\ cache = NewInstance /\ ~stale /\ pass.at = "idle"
      /\ disturbed = 0
  BY DEF Init, Idle
<1>2. /\ NewInstance # Gone /\ NewInstance.finalizers = {}
      /\ Submittable(NewInstance)
  BY GoneIsNone, NewIsOne DEF NewInstance, Submittable
<1>3. \A d \in Devices : device[d].state = "unused"
  BY DEF Init, Unused
<1>4. Live = {}
  BY <1>3 DEF Live, Exists
<1>5. Early
  BY <1>1, <1>2 DEF Early, Fresh, At
<1>6. Owed <= 1
  BY <1>1, <1>2 DEF Owed, One, Creating, Recreating, Relisted, Exposed, Fresh, At
<1>7. Cardinality(Live) = 0
  BY <1>4, FS_EmptySet
<1> QED
  BY <1>1, <1>5, <1>6, <1>7, OwedType DEF CountInv

(* However often calls fail, the process dies, Instances are deleted and   *)
(* nodes break, and in whatever order the cache learns of it: an Instance  *)
(* has at most one device, and two more for each disturbance.              *)
THEOREM DevicesLimited == Spec => []DevicesBounded
<1>1. CountInv /\ AroundTypes => DevicesBounded
  BY OwedType, LiveFinite, Sums DEF CountInv, AroundTypes, DevicesBounded
<1>2. TypeOK => AroundTypes
  BY DEF TypeOK, AroundTypes
<1> QED
  BY <1>1, <1>2, CountInit, CountNext, CoreAlways, Typed, PTL DEF Spec
================================================================================
