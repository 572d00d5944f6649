------------------------------ MODULE Instance ------------------------------
(***************************************************************************)
(* The life of one Instance: pkg/controllers/instance and the device calls *)
(* of pkg/equinix.  A worker takes the Instance's key and runs, in this    *)
(* order, OnInstanceChange and wrangler's remove handler: the latter adds  *)
(* its finalizer to a live object, and calls OnInstanceRemove for one that *)
(* is being deleted.  Another worker runs ResolveNode for the node of the  *)
(* same name.  As in InstancePool, a write is refused unless it is made    *)
(* from the stored version, and a handler's object is the informer's own.  *)
(*                                                                         *)
(* The CRD has a status subresource: UpdateStatus writes the status and    *)
(* nothing else, Update everything but the status.                         *)
(*                                                                         *)
(* Operators defined and never used (CreatedUnnoted, EnqueueNever, ...) are*)
(* slips, kept beside what they would break.                               *)
(***************************************************************************)
EXTENDS Naturals, FiniteSets

CONSTANTS
  Devices,          \* the devices Equinix can hand out
  NoDevice,         \* status.instanceID of an Instance that has none
  CreateStates,     \* the states a device may be in when it was just created
  CleanupWait,      \* whether spec.nodeCleanupWaitInterval is set
  Reporting,        \* whether the kubelet of an unhealthy node keeps reporting
  SlowInstall,      \* whether an installation outlasts the pass that began it
  Disturbances,     \* the kinds of disturbance that may occur
  MaxDisturbances   \* how many may, all kinds together

DisturbanceKinds ==
  {"delete", "deleteEarly", "nodeFail", "nodeFailEarly", "nodeDelete",
   "nodeDeleteEarly", "fault", "crash", "resync"}

ASSUME ConstantsAssumption ==
  /\ NoDevice \notin Devices /\ IsFiniteSet(Devices)
  /\ CreateStates \subseteq {"queued", "other"}
  /\ CleanupWait \in BOOLEAN /\ Reporting \in BOOLEAN
  /\ SlowInstall \in BOOLEAN
  /\ Disturbances \subseteq DisturbanceKinds /\ MaxDisturbances \in Nat

VARIABLES
  object,      \* the Instance the API server stores, or Gone
  device,      \* device[d]: what Equinix has under the ID d
  node,        \* the cluster's node of the Instance's name
  disturbed,   \* number of disturbances so far
  cache,       \* the informer's Instance
  stale,       \* it is not the stored version
  queued,      \* the key is in the work queue, later retries included
  pass,        \* the worker's pass over the key, or Idle
  nodeQueued,  \* the node's key is in its work queue
  nodeTimer,   \* ResolveNode has asked for the node's key after the interval
  nodePass     \* the worker's pass over the node, or NodeIdle

store == <<object, stale, device, node>>
nodeWork == <<nodeQueued, nodeTimer, nodePass>>
vars == <<store, disturbed, cache, queued, pass, nodeWork>>

(* "queued" stands for "submitted" and "queued", "other" for a device      *)
(* state that no case of OnInstanceChange names.                           *)
Statuses == {"", "queued", "reinstalling", "ready", "managed", "other"}
Finalizers == {"equinix", "wrangler"}
InstanceObject ==
  [status: Statuses, id: Devices \cup {NoDevice},
   finalizers: SUBSET Finalizers, deleting: BOOLEAN]
NewInstance ==
  [status |-> "", id |-> NoDevice, finalizers |-> {}, deleting |-> FALSE]
Gone == [NewInstance EXCEPT !.status = "gone"]

(* A device boots a shell at first, is told to install Harvester and join, *)
(* and has joined once its node is in the cluster; "busy" is every state   *)
(* but active.                                                             *)
Device == [state: {"unused", "busy", "active", "deleted"},
           boots: {"shell", "join", "joined"}]
Unused == [state |-> "unused", boots |-> "shell"]

(* A node that is not ready is "overdue" once its last heartbeat is older  *)
(* than the interval.                                                      *)
NodeStates == {"absent", "ready", "notReady", "overdue", "deleting"}

(* at: the next call; i: the handler's object; shared: it is the cached    *)
(* object itself; fresh: it has the stored version; failed: a handler has  *)
(* returned an error.                                                      *)
Stages == {"idle", "create", "submitStatus", "submitFinalizer", "check",
           "reinstall", "writeStatus", "node", "hold", "deleteDevice",
           "deleteNode", "dropEquinix", "dropWrangler"}
Pass == [at: Stages, i: InstanceObject, shared: BOOLEAN, fresh: BOOLEAN,
         failed: BOOLEAN]
Idle == [at |-> "idle", i |-> NewInstance, shared |-> FALSE, fresh |-> FALSE,
         failed |-> FALSE]
NodePass == [at: {"idle", "resolve", "delete"}, seen: NodeStates]
NodeIdle == [at |-> "idle", seen |-> "absent"]

Init ==
  /\ object = NewInstance /\ cache = NewInstance /\ stale = FALSE
  /\ device = [d \in Devices |-> Unused]
  /\ node = "absent" /\ disturbed = 0
  /\ queued = TRUE /\ pass = Idle
  /\ nodeQueued = FALSE /\ nodeTimer = FALSE /\ nodePass = NodeIdle

(***************************************************************************)
(* What the handlers are made of.                                          *)
(***************************************************************************)
At(stages) == pass.at \in stages

Disturb(kind) ==
  /\ kind \in Disturbances /\ disturbed < MaxDisturbances
  /\ disturbed' = disturbed + 1

(* The API server stores o.                                                *)
Put(o) == object' = o /\ stale' = (stale \/ o # object)

(* A delete request, from whomever: an object without finalizers is gone.  *)
Remove ==
  /\ object # Gone
  /\ Put(IF object.finalizers = {} THEN Gone ELSE [object EXCEPT !.deleting = TRUE])

(* One who is not the worker has changed the object.                       *)
Overtake == pass' = [pass EXCEPT !.fresh = @ /\ object' = object]

(* Assign to the fields of i, and so of the cached object if it is that.   *)
Assign(i, stage) ==
  /\ pass' = [pass EXCEPT !.i = i, !.at = stage]
  /\ cache' = IF pass.shared THEN i ELSE cache

GoTo(stage) == pass' = [pass EXCEPT !.at = stage] /\ UNCHANGED cache

(* OnInstanceChange returns; the remove handler comes next.                *)
HoldNow(failed) ==
  pass' = [pass EXCEPT !.at = "hold", !.failed = failed] /\ UNCHANGED cache

(* The last handler returns; an error puts the key back into the queue.    *)
Return(failed) ==
  /\ pass' = Idle /\ queued' = (queued \/ failed)
  /\ UNCHANGED cache

(* The writer goes on with what the server returned.                       *)
Wrote(stage) ==
  /\ pass' = [pass EXCEPT !.i = object', !.at = stage, !.shared = FALSE]
  /\ UNCHANGED cache

(***************************************************************************)
(* The calls that change something outside the process.                    *)
(***************************************************************************)
Exists(d) == d \in Devices /\ device[d].state \in {"busy", "active"}

CreateDevice(d) ==
  /\ device[d] = Unused
  /\ device' = [device EXCEPT ![d].state = "busy"]
  /\ UNCHANGED <<object, stale, node>>

ReinstallDevice ==
  /\ Exists(pass.i.id)
  /\ device' = [device EXCEPT ![pass.i.id] = [state |-> "busy", boots |-> "join"]]
  /\ UNCHANGED <<object, stale, node>>

DeviceKept == UNCHANGED store

DeleteDevice ==
  /\ device' = [d \in Devices |->
       IF d = pass.i.id THEN [device[d] EXCEPT !.state = "deleted"] ELSE device[d]]
  /\ UNCHANGED <<object, stale, node>>

FindAndDeleteNode ==
  /\ node' = IF node = "absent" THEN node ELSE "deleting"
  /\ UNCHANGED <<object, stale, device>>

UpdateStatusOfAny ==
  /\ object # Gone
  /\ Put([object EXCEPT !.status = pass.i.status, !.id = pass.i.id])
  /\ UNCHANGED <<device, node>>

UpdateStatus ==
  /\ pass.fresh
  /\ Put([object EXCEPT !.status = pass.i.status, !.id = pass.i.id])
  /\ UNCHANGED <<device, node>>

Update(finalizers) ==
  /\ pass.fresh
  /\ Put(IF object.deleting /\ finalizers = {} THEN Gone
         ELSE [object EXCEPT !.finalizers = finalizers])
  /\ UNCHANGED <<device, node>>

Call ==
  \/ At({"create"}) /\ \E d \in Devices : CreateDevice(d)
  \/ At({"reinstall"}) /\ ReinstallDevice
  \/ At({"deleteDevice"}) /\ DeleteDevice
  \/ At({"deleteNode"}) /\ FindAndDeleteNode
  \/ At({"submitStatus", "writeStatus"}) /\ UpdateStatus
  \/ At({"submitFinalizer"}) /\ Update({"equinix"})
  \/ At({"hold"}) /\ Update(pass.i.finalizers \cup {"wrangler"})
  \/ At({"dropEquinix"}) /\ Update(pass.i.finalizers)
  \/ At({"dropWrangler"}) /\ Update(pass.i.finalizers \ {"wrangler"})

(***************************************************************************)
(* What a worker does with the key, and OnInstanceChange.                  *)
(***************************************************************************)
OnInstanceChange(status) ==
  CASE status = "" -> "create"
    [] status \in {"queued", "reinstalling"} -> "check"
    [] status = "ready" -> "node"
    [] OTHER -> "hold"

OnInstanceRemoveOnce(finalizers) ==
  IF finalizers = Finalizers THEN "deleteDevice" ELSE "idle"

OnInstanceRemove(finalizers) ==
  CASE "wrangler" \notin finalizers -> "idle"
    [] finalizers = {"wrangler"} -> "dropEquinix"
    [] finalizers = Finalizers -> "deleteDevice"

HandlerOfNil(i) ==
  IF i.deleting THEN OnInstanceRemove(i.finalizers) ELSE OnInstanceChange(i.status)

Handler(i) ==
  CASE i = Gone -> "idle"
    [] i # Gone /\ i.deleting -> OnInstanceRemove(i.finalizers)
    [] i # Gone /\ ~i.deleting -> OnInstanceChange(i.status)

Start ==
  /\ queued /\ At({"idle"})
  /\ queued' = FALSE
  /\ pass' = IF Handler(cache) = "idle" THEN Idle
             ELSE [at |-> Handler(cache), i |-> cache, shared |-> TRUE,
                   fresh |-> ~stale, failed |-> FALSE]
  /\ UNCHANGED <<store, disturbed, cache, nodeWork>>

(* submitRequest: the device first, then what is known of it, then the     *)
(* finalizer that protects it, in place of any other.                      *)
CreatedUnnoted(i, d, state) == [i EXCEPT !.id = d]

Created(i, d, state) == [i EXCEPT !.id = d, !.status = state]

CreateNewDevice ==
  /\ At({"create"})
  /\ \E d \in Devices, state \in CreateStates :
       CreateDevice(d) /\ Assign(Created(pass.i, d, state), "submitStatus")
  /\ UNCHANGED <<disturbed, queued, nodeWork>>

Write ==
  /\ At({"submitStatus", "submitFinalizer", "writeStatus"})
  /\ \/ Call /\ Wrote(IF At({"submitStatus"}) THEN "submitFinalizer" ELSE "hold")
     \/ ~pass.fresh /\ HoldNow(TRUE) /\ UNCHANGED store
  /\ UNCHANGED <<disturbed, queued, nodeWork>>

EnqueueNever == UNCHANGED queued

EnqueueAfter == queued' = TRUE

(* CheckDeviceStatus, for reinstallDevice and checkDeviceStatus: not there *)
(* any more, not active yet, or active.                                    *)
CheckDevice ==
  /\ At({"check"})
  /\ \/ ~Exists(pass.i.id) /\ HoldNow(TRUE) /\ UNCHANGED queued
     \/ /\ Exists(pass.i.id) /\ device[pass.i.id].state = "busy"
        /\ HoldNow(FALSE) /\ EnqueueAfter
     \/ /\ Exists(pass.i.id) /\ device[pass.i.id].state = "active"
        /\ IF pass.i.status = "queued" THEN GoTo("reinstall")
           ELSE Assign([pass.i EXCEPT !.status = "ready"], "writeStatus")
        /\ UNCHANGED queued
  /\ UNCHANGED <<store, disturbed, nodeWork>>

ReinstallingAsBefore(i) == i

Reinstalling(i) == [i EXCEPT !.status = "reinstalling"]

Reinstall ==
  /\ At({"reinstall"})
  /\ ReinstallDevice /\ Assign(Reinstalling(pass.i), "writeStatus")
  /\ UNCHANGED <<disturbed, queued, nodeWork>>

NodeFoundOrNot == TRUE

NodeFound == node # "absent"

ManageNodes ==
  /\ At({"node"})
  /\ IF NodeFound THEN Assign([pass.i EXCEPT !.status = "managed"], "writeStatus")
     ELSE HoldNow(FALSE)
  /\ UNCHANGED <<store, disturbed, queued, nodeWork>>

(* The remove handler, for an Instance that is not being deleted.          *)
AddFinalizer ==
  /\ At({"hold"})
  /\ \/ "wrangler" \in pass.i.finalizers /\ Return(pass.failed) /\ UNCHANGED store
     \/ "wrangler" \notin pass.i.finalizers /\ Call /\ Return(pass.failed)
     \/ /\ "wrangler" \notin pass.i.finalizers /\ ~pass.fresh
        /\ Return(TRUE) /\ UNCHANGED store
  /\ UNCHANGED <<disturbed, nodeWork>>

(***************************************************************************)
(* OnInstanceRemove, then the end of the remove handler.                   *)
(***************************************************************************)
RemoveDevice ==
  /\ At({"deleteDevice"})
  /\ DeleteDevice /\ GoTo("deleteNode")
  /\ UNCHANGED <<disturbed, queued, nodeWork>>

NodeEvent == nodeQueued' = (nodeQueued \/ node' # node)

RemoveNode ==
  /\ At({"deleteNode"})
  /\ FindAndDeleteNode /\ NodeEvent
  /\ Assign([pass.i EXCEPT !.finalizers = @ \ {"equinix"}], "dropEquinix")
  /\ UNCHANGED <<disturbed, queued, nodeTimer, nodePass>>

(* RemoveFinalizer calls a list modified if anything is left in it, so     *)
(* Update is called even if nothing was removed.  Its result is dropped,   *)
(* and what follows is written from the version it replaced.               *)
DropEquinix ==
  /\ At({"dropEquinix"})
  /\ \/ /\ Call
        /\ pass' = [pass EXCEPT !.at = "dropWrangler", !.fresh = object' = object]
        /\ UNCHANGED <<cache, queued>>
     \/ ~pass.fresh /\ Return(TRUE) /\ UNCHANGED store
  /\ UNCHANGED <<disturbed, nodeWork>>

DropWrangler ==
  /\ At({"dropWrangler"})
  /\ \/ Call /\ Return(FALSE)
     \/ ~pass.fresh /\ Return(TRUE) /\ UNCHANGED store
  /\ UNCHANGED <<disturbed, nodeWork>>

(***************************************************************************)
(* ResolveNode                                                             *)
(***************************************************************************)
StartNode ==
  /\ nodeQueued /\ nodePass = NodeIdle
  /\ nodeQueued' = FALSE
  /\ nodePass' = IF node = "absent" THEN NodeIdle
                 ELSE [at |-> "resolve", seen |-> node]
  /\ UNCHANGED <<store, disturbed, cache, queued, pass, nodeTimer>>

(* managedNodeNotReady looks at the health of managed Instances' nodes     *)
(* only.                                                                   *)
Cared == object.status = "managed" /\ CleanupWait

Condemned ==
  \/ nodePass.seen = "deleting"
  \/ nodePass.seen = "overdue" /\ Cared

EnqueueNodeNever == UNCHANGED nodeTimer

EnqueueNodeAfter == nodeTimer' = TRUE

ResolveNode ==
  /\ nodePass.at = "resolve"
  /\ \/ /\ object = Gone
        /\ nodePass' = NodeIdle /\ UNCHANGED <<queued, nodeTimer>>
     \/ /\ object # Gone /\ Condemned
        /\ nodePass' = [nodePass EXCEPT !.at = "delete"]
        /\ UNCHANGED <<queued, nodeTimer>>
     \/ /\ object # Gone /\ ~Condemned
        /\ nodePass' = NodeIdle /\ queued' = TRUE
        /\ IF nodePass.seen = "notReady" /\ Cared THEN EnqueueNodeAfter
           ELSE UNCHANGED nodeTimer
  /\ UNCHANGED <<store, disturbed, cache, pass, nodeQueued>>

DeleteInstance ==
  /\ nodePass.at = "delete"
  /\ \/ Remove /\ Overtake /\ UNCHANGED <<device, node, nodeQueued>>
     \/ object = Gone /\ nodeQueued' = TRUE /\ UNCHANGED <<store, pass>>
  /\ nodePass' = NodeIdle
  /\ UNCHANGED <<disturbed, cache, queued, nodeTimer>>

NodeTimer ==
  /\ nodeTimer
  /\ nodeTimer' = FALSE /\ nodeQueued' = TRUE
  /\ UNCHANGED <<store, disturbed, cache, queued, pass, nodePass>>

(***************************************************************************)
(* The informer, the devices and the nodes.                                *)
(***************************************************************************)
Deliver ==
  /\ stale
  /\ cache' = object /\ stale' = FALSE /\ queued' = TRUE
  /\ pass' = [pass EXCEPT !.shared = FALSE]
  /\ UNCHANGED <<object, device, node, disturbed, nodeWork>>

Rest == UNCHANGED <<object, stale, cache, queued, pass, nodeTimer, nodePass>>

(* Installing takes minutes, a pass and the watch event that follows it    *)
(* well under a second; the model relies on that only where the constant   *)
(* says so.                                                                *)
Install(d) ==
  /\ device[d].state = "busy" /\ (SlowInstall => ~stale /\ pass = Idle)
  /\ device' = [device EXCEPT ![d].state = "active"]
  /\ UNCHANGED <<node, disturbed, nodeQueued>> /\ Rest

Join(d) ==
  /\ device[d] = [state |-> "active", boots |-> "join"] /\ node # "deleting"
  /\ device' = [device EXCEPT ![d].boots = "joined"]
  /\ node' = "ready" /\ nodeQueued' = TRUE
  /\ UNCHANGED disturbed /\ Rest

NodeStep(from, to) ==
  /\ node \in from /\ node' = to
  /\ UNCHANGED device /\ Rest

NodeFails ==
  /\ NodeStep({"ready"}, "notReady") /\ NodeEvent
  /\ Disturb(IF object.status = "managed" THEN "nodeFail" ELSE "nodeFailEarly")

DeleteNode ==
  /\ NodeStep({"ready", "notReady", "overdue"}, "deleting") /\ NodeEvent
  /\ Disturb(IF object.status = "managed" THEN "nodeDelete" ELSE "nodeDeleteEarly")

Recover ==
  NodeStep({"notReady", "overdue"}, "ready") /\ NodeEvent /\ UNCHANGED disturbed

Elapse ==
  NodeStep({"notReady"}, "overdue") /\ UNCHANGED <<disturbed, nodeQueued>>

NodeRemoved == NodeStep({"deleting"}, "absent") /\ NodeEvent /\ UNCHANGED disturbed

(* A heartbeat is an event, and the interval starts anew.                  *)
Heartbeat ==
  /\ \/ NodeStep({"ready"}, "ready")
     \/ Reporting /\ NodeStep({"notReady", "overdue"}, "notReady")
  /\ nodeQueued' = TRUE /\ UNCHANGED disturbed

(***************************************************************************)
(* What may go wrong.                                                      *)
(***************************************************************************)
Delete ==
  /\ Remove /\ Overtake
  /\ Disturb(IF "wrangler" \in object.finalizers THEN "delete" ELSE "deleteEarly")
  /\ UNCHANGED <<device, node, cache, queued, nodeWork>>

(* A call fails in transit, before or after it took effect.  An error of   *)
(* OnInstanceChange does not keep the remove handler from running, with    *)
(* the object the pass started from.                                       *)
Fault ==
  /\ Disturb("fault") /\ ~At({"idle"})
  /\ Call \/ UNCHANGED store
  /\ IF At({"hold", "deleteDevice", "deleteNode", "dropEquinix", "dropWrangler"})
     THEN Return(TRUE)
     ELSE /\ pass' = [pass EXCEPT !.at = "hold", !.failed = TRUE,
               !.fresh = @ /\ object' = object /\ ~At({"submitFinalizer"})]
          /\ UNCHANGED <<cache, queued>>
  /\ NodeEvent /\ UNCHANGED <<nodeTimer, nodePass>>

NodeFault ==
  /\ Disturb("fault") /\ nodePass # NodeIdle
  /\ \/ nodePass.at = "delete" /\ Remove /\ Overtake
     \/ UNCHANGED <<object, stale, pass>>
  /\ nodePass' = NodeIdle /\ nodeQueued' = TRUE
  /\ UNCHANGED <<device, node, cache, queued, nodeTimer>>

(* The process dies, starts again, and lists what there is.                *)
Crash ==
  /\ Disturb("crash")
  /\ cache' = object /\ stale' = FALSE /\ queued' = TRUE /\ pass' = Idle
  /\ nodeQueued' = (node # "absent") /\ nodeTimer' = FALSE
  /\ nodePass' = NodeIdle
  /\ UNCHANGED <<object, device, node>>

Resync ==
  /\ Disturb("resync")
  /\ queued' = TRUE /\ nodeQueued' = (nodeQueued \/ node # "absent")
  /\ UNCHANGED <<store, cache, pass, nodeTimer, nodePass>>

-----------------------------------------------------------------------------
Handle ==
  \/ CreateNewDevice \/ Write \/ CheckDevice \/ Reinstall \/ ManageNodes
  \/ AddFinalizer \/ RemoveDevice \/ RemoveNode \/ DropEquinix \/ DropWrangler

NodeHandle == ResolveNode \/ DeleteInstance

Environment ==
  \/ \E d \in Devices : Install(d) \/ Join(d)
  \/ NodeFails \/ DeleteNode \/ Recover \/ Elapse \/ NodeRemoved \/ Heartbeat
  \/ Delete \/ Fault \/ NodeFault \/ Crash \/ Resync

Next ==
  Start \/ Handle \/ StartNode \/ NodeHandle \/ NodeTimer \/ Deliver \/ Environment

(* Workers run on, the queues and the watch deliver, timers go off, devices*)
(* get installed and join, deleted nodes disappear.  Of heartbeats and     *)
(* recoveries nothing is assumed.                                          *)
Fairness ==
  /\ WF_vars(Start) /\ WF_vars(Handle) /\ WF_vars(Deliver)
  /\ WF_vars(StartNode) /\ WF_vars(NodeHandle) /\ WF_vars(NodeTimer)
  /\ \A d \in Devices : WF_vars(Install(d)) /\ WF_vars(Join(d))
  /\ WF_vars(Elapse) /\ WF_vars(NodeRemoved)

Spec == Init /\ [][Next]_vars /\ Fairness
=============================================================================
