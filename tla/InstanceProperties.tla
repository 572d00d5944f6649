------------------------- MODULE InstanceProperties -------------------------
(* What the Instance controller is held to.                                *)
EXTENDS Instance, TLC

(* Equinix's IDs are interchangeable.                                      *)
Symmetric == Permutations(Devices)

(* The variables keep their types.                                         *)
TypeOK ==
  /\ object \in InstanceObject \cup {Gone} /\ cache \in InstanceObject \cup {Gone}
  /\ device \in [Devices -> Device] /\ node \in NodeStates
  /\ disturbed \in Nat
  /\ stale \in BOOLEAN /\ queued \in BOOLEAN /\ pass \in Pass
  /\ nodeQueued \in BOOLEAN /\ nodeTimer \in BOOLEAN /\ nodePass \in NodePass

Live == {d \in Devices : Exists(d)}

(* Nobody pays for a device that no Instance knows of: each is the one of  *)
(* the stored Instance, which is not gone before its device is, or the one *)
(* submitRequest has just created and is about to store.                   *)
DeviceAccounted ==
  \A d \in Live : object.id = d \/ (At({"submitStatus"}) /\ pass.i.id = d)

(* An Instance is managed once its own device has been reinstalled with    *)
(* the cloud-init that knows its MAC addresses, and has joined.            *)
ManagedHasJoined ==
  object.status = "managed" => device[object.id].boots = "joined"

(* submitRequest is not idempotent: a creation whose outcome was not       *)
(* stored is repeated; one disturbance leads to at most two more devices.  *)
DevicesBounded == Cardinality(Live) <= 1 + 2 * disturbed

(* A device whose node has joined is not wiped again.                      *)
JoinedNotReinstalled ==
  [][Reinstall => device[pass.i.id].boots # "joined"]_vars

Order == [s \in Statuses |->
  CASE s = "" -> 0 [] s = "queued" -> 1 [] s = "other" -> 1
    [] s = "reinstalling" -> 2 [] s = "ready" -> 3 [] s = "managed" -> 4]

(* The stored status only moves forward, and the device, once stored, is   *)
(* never replaced: no handler writes what it took from an older object.    *)
StatusForward ==
  [][object # Gone /\ object' # Gone =>
       /\ Order[object'.status] >= Order[object.status]
       /\ object.id # NoDevice => object'.id = object.id]_vars

(* The object as one sees it who only asks: is it there, will a deletion   *)
(* linger, is it managed, is it being deleted?                             *)
LifeOf ==
  [phase |-> CASE object = Gone -> "absent"
               [] object # Gone /\ object.finalizers = {} -> "created"
               [] object # Gone /\ object.finalizers # {} ->
                    IF object.status = "managed" THEN "managed" ELSE "pending",
   deleting |-> object.deleting]

Life == INSTANCE InstanceLife WITH life <- LifeOf

(* The controller implements that life, whatever its workers, its stale    *)
(* cache, failing calls and ResolveNode's deletions do to each other: in   *)
(* particular nothing makes a deleted Instance managed, and no finalizer   *)
(* list is emptied before the object is to go.                             *)
ImplementsLife == Life!Spec

(* The Instance ends up managed, unless it is deleted.                     *)
BecomesManaged ==
  <>(object.status = "managed" \/ object = Gone \/ object.deleting)

(* An Instance that is being deleted goes away, and so does its device.    *)
DeletionCompletes ==
  \A d \in Devices :
    (object.deleting /\ object.id = d) ~> (object = Gone /\ d \notin Live)

(* An Instance deleted while it carries both finalizers goes away, and so  *)
(* does its device: the conflict OnInstanceRemove always runs into, a crash*)
(* or a pass that began before leaves a state from which it is resumed.    *)
ProtectedDeletionCompletes ==
  \A d \in Devices :
    (object.deleting /\ object.finalizers = Finalizers /\ object.id = d)
      ~> (object = Gone /\ d \notin Live)

(* "Nodes managed by the operator which are unhealthy for more than the    *)
(* specified duration are replaced".                                       *)
UnhealthyReplaced ==
  []<>~(/\ object.status = "managed" /\ ~object.deleting
        /\ node \in {"notReady", "overdue"})
=============================================================================
