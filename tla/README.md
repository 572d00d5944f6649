# Verification of harvester-equinix-addon

The operator turns an `InstancePool` (a number of worker nodes of one kind)
into `Instance` objects, each `Instance` into a device of Equinix Metal that
installs Harvester and joins the cluster, and replaces the nodes that stay
unhealthy.  This directory holds TLA+ models of its controllers, the TLC runs
that check them on small instances, and TLAPS proofs of what holds for every
number of pools, Instances, workers, devices, ports and disturbances.

Paths below are relative to the repository: `instancepool.go` is
`pkg/controllers/instancepool/instancepool.go`, `instance.go` is
`pkg/controllers/instance/instance.go`, `equinix.go` is `pkg/equinix/equinix.go`.

## 1. The system

| Component | State | Operations | Modelled in |
| --- | --- | --- | --- |
| InstancePool controller (`instancepool.go`) | `status.{status,needed,requested,ready}` of each pool, `instanceLock`, a work queue | `wrapper` with `prepareInstancePool`, `submitInstances`, `reconcileInstances`, `removeInstances`; `ReconcileNodePool` | `InstancePool` |
| Instance controller (`instance.go`) | `status.{status,instanceID}`, the finalizers, two work queues (Instances, nodes) | `OnInstanceChange` with `submitRequest`, `reinstallDevice`, `checkDeviceStatus`, `manageNodes`; `OnInstanceRemove`; `ResolveNode` with `managedNodeNotReady`, `findAndDeleteInstance` | `Instance` |
| Equinix client (`equinix.go`) | none here; the devices at Equinix | `CreateNewDevice`, `CheckDeviceStatus`, `DeleteDevice`, `deviceExists`; `ReInstallDevice` with `UpdateNetworkConfig`, `ConvertDevice`, `updateCloudInit` | `Instance` (the first four, and the fifth as one step), `ReInstall` (the fifth, call by call) |
| Wiring (`controllers.go`) | informers' caches, five workers per controller | register, start | folded into both |
| Helpers (`util.go`) | none | finalizer lists, random names | folded into both |
| API types, Harvester config types, CRD registration, generated code, code generators, `main.go`, chart | data | none of their own | see `PROJECT.json` |

**How they interact.**  Nothing calls anything directly: a controller writes an
object to the API server, the informer's watch brings it back later, replaces
the cached object and puts its key into a work queue.  The pool controller
creates and deletes Instances; a related-resource handler
(`ReconcileNodePool`) puts the pool's key into the queue when an Instance is
managed or being deleted.  The Instance controller talks to Equinix, watches
nodes (`ResolveNode`), deletes the node of a deleted Instance and the Instance
of a deleted or long-unhealthy node.

**What is hard.**

* Handlers get a pointer to the informer's *cached* object and assign to its
  fields before `UpdateStatus`.  If the write fails, the next pass reads what
  was never stored, until the watch replaces the object.
* Writes are optimistic: one made from an old version fails, after everything
  else the handler did (created Instances, bought or wiped a device) is done.
* Passes start on events and errors only.  A write that changes nothing makes
  no event; a path that returns no error and leaves no event is final.
* `instanceLock` is a process-wide mutex with one release and many returns.
* Creating a device, storing its ID and storing the finalizer that gets it
  deleted are three calls; wrangler adds a second finalizer of its own.
* Crash and restart between any two calls: the lock, the caches, the queues and
  the timers (`EnqueueAfter`) are lost, the API server and Equinix keep theirs.

**What makes each part correct.**  For a pool: it ends up with `spec.count`
managed Instances and says so; `ready` is never published for a count it does
not have; it is not forgotten on the way; it creates no more than asked, except
for a bounded excess that it removes again; the two status fields the state
machine is spread over agree wherever a handler reads them; deleted, it leaves
no Instance behind and does not touch its successor of the same name.  For an
Instance: every device is accounted for; it is wiped once, before it joins; the
stored status only moves forward; it becomes managed; a deletion completes and
takes the device along; an unhealthy node is replaced; and towards its pool it
lives the life the pool counts on.  For a reinstallation: what the device would
boot is complete, however often the conversion failed half-way, but for ports
Equinix does not report as disbondable; the network it is managed through is
never taken away; a retry gets through.

`PROJECT.json` lists the hazards line by line with the properties that cover
them.

## 2. Modules

| Module | Content |
| --- | --- |
| `InstancePool` | the InstancePool controller |
| `InstancePoolProperties` | what it is held to; module of the `pool_*` runs |
| `InstancePoolProofs`, `InstancePoolWakeProofs`, `InstancePoolCountProofs` | theorems about it; the second: no pool is forgotten; the third: how many Instances a pool can have |
| `Instance` | one Instance, its devices and its node |
| `InstanceProperties` | what it is held to; module of the `instance_*` runs |
| `InstanceLife` | the abstract life of an Instance, which `Instance` implements and `InstancePool` relies on |
| `InstanceProofs` | `TypeOK`, `StatusForward` and the refinement |
| `InstanceDeviceProofs`, `InstanceJoinProofs`, `InstanceCountProofs` | devices are accounted for; they are wiped once, before they join; how many are bought |
| `ReInstall` | `ReInstallDevice`, call by call |
| `ReInstallProperties`, `MCReInstall` | what it is held to; a device and the specs of the `reinstall` run |
| `ReInstallProofs` | theorems about it |

`InstancePool` sees an Instance as `InstanceLife` describes it, and `Instance`
is shown to implement that: the two controllers are composed through it.
`Instance` takes `ReInstallDevice` for one step that makes a device boot the
installation; `ReInstall` shows what the calls inside that step do.

The controllers' models have one action per API call, since the watch, the other workers
and the rest of the cluster act between calls.  `Fault` (and `SubmitFault`,
`NodeFault`) makes a call fail, with or without its effect; `Crash` ends the
process and starts it again; everything that is not the program's own doing is
a *disturbance*, its kind enabled by the constant `Disturbances` and the number
of all kinds together bounded by `MaxDisturbances`.

**Versions.**  `resourceVersion` is only ever compared with the server's, so a
flag suffices: `stale` says that the cached object is not the stored one,
`shared` that a handler's object *is* the cached one (and its assignments show
there), `fresh` (Instance) that it has the stored version.  Watch events that
are overtaken by a later one make no difference: the queue holds a key once,
and only the newest object matters.  A write that changes nothing neither makes
a version nor an event, as on the API server.

**Queue.**  A key is in the queue at most once and is worked on by one worker
at a time (client-go's work queue), so the queue is a set; back-off is a delay
and delays are arbitrary.

### InstancePool

`pool[p]`, `inst[n]`: stored objects.  `cache`, `stale`, `notify`, `queue`,
`locked`, `pass`: the process.  `config` and `prereq`: what
`prepareInstancePool` and `submitInstances` find when they look (the rancherd
`config.yaml`; the secret, the control-plane nodes and the ingress of the
join address), which `Repair` may correct.

`Start` is `wrapper`'s switch over the cached `status.status`;
`PrepareInstancePool`, `AcquireLock`/`Lookup`/`CreateInstance`/`FinishSubmit`,
`ReconcileInstances`, `ListInstances`/`RemoveInstance` are the four handlers,
`UpdateStatus` the last call of each.  `RejectNetworkType`, `SubmitFault` and
`Lookup`'s second disjunct are the early returns that leave `instanceLock`
taken.  `Panic` is a Go panic in a worker: a type assertion on the token
(line 118), `Ingress[0]` of a service without one, index -1 in
`removeInstances`; it ends the process, which starts again.

The life of an Instance is reduced to what a pool can see: `created` (no
finalizer yet: a deletion removes it at once), `pending`, `managed`, and
`deleting` until the finalizers are gone.  `Finalize` notifies the pool: the
related-resource handler follows a deletion up five seconds later with the last
known object.  The informer's list of Instances in a handler is the API server's
(`List` is a call here, not a cache read).  Random names are names that are not
in use; one is used again only when nobody still holds it.

A pool can be deleted (`DeletePool`): at once, or in the foreground, when it
lingers as `deleting`.  `wrapper` returns early for either.  `uid` tells a pool
from one created later under the same name; an Instance carries the uid of the
pool it was created for in its owner reference (`SetOwnerReferences`), the name
of it in its label.  The garbage collector (`Collect`) goes by the first, `List`
by the second.  A pass that began before the deletion runs on: what it creates
then is owned by a pool that is gone.

### Instance and InstanceLife

`object` (status, `instanceID`, finalizers, deletion), `device`, `node` are
stored outside; `cache`, `stale`, `queued`, `pass` and `nodeQueued`,
`nodeTimer`, `nodePass` belong to the process.

On one key the handlers run in the order of registration: `OnInstanceChange`,
then wrangler's remove handler.  The latter adds wrangler's finalizer to a
live object (`AddFinalizer`), even after `OnInstanceChange` failed, then from
the object the pass started with; for a deleted object that carries wrangler's
finalizer it calls `OnInstanceRemove` and then drops the finalizer
(`DropWrangler`).  Since `OnInstanceRemove` drops the result of its `Update`,
`DropWrangler` works on the version before: it fails with a conflict in every
deletion, and the retry finds the work done.

The CRD has a status subresource, so `UpdateStatus` stores the status alone and
`Update` everything else.  `SetFinalizers` in `submitRequest` replaces whatever
list is there.

A device is `busy` until it is `active`; it `boots` a shell at first, `join`
after the reinstallation, and has `joined` once its node is in the cluster
(`Join`).  Equinix's IDs are not used again, so `Devices` must be as large as
the number of creations a run allows, else creation would be cut off:
`instance_faults` has one more than `DevicesBounded` allows, and the liveness
run would show an Instance that waits for a device it cannot get.

`SlowInstall`: an installation takes minutes; the write that ends the pass and
the watch event after it take less than a second.  Where the constant is
`TRUE`, the device does not become active before them.  Without that
assumption a pass from the cached `queued` may find the device active and
reinstall it again, so properties of reinstallation are claimed with it only.

`InstanceLife` has five steps: `Create`, `Protect` (the first finalizer),
`Manage`, `Delete`, `Finalize`.  `LifeOf` of `InstanceProperties` is the
refinement mapping.  `InstancePool`'s `AddInstance`, `Provision`, `Manage`,
`DeleteInstance` and `Finalize` are those steps.  Usually an Instance is
`pending` between `Protect` and `Manage`; when every write of a finalizer
failed it may go straight to `managed`, which a pool cannot tell from two steps.

### ReInstall

One device and one pass through `ReInstallDevice` after the other, until the
caller's write of `reinstalling` is stored (`Report`).  `Get` reads the device
once; `Loops` gives the loops of `ConvertDevice` for each network type, of
which `Convert` makes one call at a time and `Skip` leaves out a port for which
the device that was read does not say `DisbondOperationSupported`; `Assign` is
the VLANs' loop, `Update` the `Devices.Update` with the iPXE script and the
cloud-init, `Reinstall` the last call.  The ports are seen as they were at `Get`, while the calls change them.
`Fault` is a call that fails before or after its effect, or a crash there; the
next pass starts from the ports as they are then.

What Equinix does is not in the repository and read from the way it is used:
a new device has all ports bonded, in layer 3; a bulk disbond may take any other
ports along; a bond port may bond any of its ports.  For which ports
`DisbondOperationSupported` is reported is left entirely open, at each reading
anew: nothing in the repository says what it depends on.  The calls in
`config.refuses` are refused when there is nothing left to do for them; the run
has the two disbond calls there, or none.  If Equinix refused a repeated
assignment or conversion, `Completes` would fail after a single failing call,
since nothing in the code looks for what is already done.

`InstallsAsConfigured` therefore excuses the ports that the code passes over,
and only those: the ones not reported to the very pass that wrote the script
(`boot.seen` remembers them).  `Completes` needs nothing of the reports if
Equinix does a disbond again; if it refuses, the flag has to be off in the end
for a port that is not bonded when it is read (`Refreshed`; the code's comment asks
for ports to be "refreshed before bonding/disbonding").  Section 5 says what
happens otherwise.

Two peculiarities of the code are part of the model and of the properties: a
spec without a type gets no VLANs, and a conversion to layer 3 does not remove
VLANs (the code's own TODO).

## 3. Runs

| Run | Question | Bounds |
| --- | --- | --- |
| `pool_safety` | Do `status` and `needed` agree (`NeededAgreesWithStatus`), is no pool let go before it is settled (`NoLostWakeUp`), is the lock released (`LockReleased`), is `ready` only published for the stored count (`PublishedReadyMatchesSpec`)? | 1 pool, counts 1-2, 3 names; 2 of: edit of the count, eviction, crash, resync; an unreadable `config.yaml` or a missing ingress at first. No state may deadlock. `TypeOK`. |
| `pool_faults` | Are creations of two pools kept apart (`SubmitExclusive`), and is the excess of repeated creations bounded (`OvershootBounded`)? | 2 pools (one invalid), 2 workers, 4 names, count 1; 2 of: failing calls, eviction, crash |
| `pool_converges` | Does a pool end up settled (`Converges`)? | 1 pool, counts 0-1, 3 names; 2 of: edit, eviction, crash, resync, deletion of the pool, a new one of its name |
| `pool_deletion` | Does a deleted pool leave nothing behind (`LeavesNothing`), and does a pass that outlives it leave its successor alone (`SuccessorUntouched`)? | 1 pool, count 1, 3 names, 1 worker; 2 of: deletion, creation of a successor (also early), deletion of a new Instance, crash, failing calls |
| `instance_safety` | Is every device accounted for (`DeviceAccounted`), is a managed Instance's device installed and joined (`ManagedHasJoined`) and never wiped after that (`JoinedNotReinstalled`); does the controller implement the life a pool relies on (`ImplementsLife`)? | 3 devices; 3 of: deletion, failing node, deleted node (also before the Instance is managed), resync; `SlowInstall` |
| `instance_faults` | How many devices can be bought (`DevicesBounded`), and does the stored status only move forward (`StatusForward`)? `TypeOK`. | 6 devices (one more than the bound), 2 of: failing call, crash, early deletion, failing node; symmetric in the devices |
| `instance_liveness` | Does an Instance become managed (`BecomesManaged`), a deletion complete (`ProtectedDeletionCompletes`), an unhealthy node get replaced (`UnhealthyReplaced`)? | 3 devices, 2 of: crash, deletion, early deletion, failing node, deleted node |
| `reinstall` | Is what the device would boot converted and connected as the spec says, but for ports that were not reported as disbondable (`InstallsAsConfigured`), is the management network kept (`ManagementKept`), and does the reinstallation come to its end (`Completes`)? `TypeOK`. | 4 physical ports in 2 bonds; every network type, with VLANs, an empty and an unknown type, ports the device lacks, unreadable userData; any set of ports reported at each reading; disbonding again refused or not; 2 failing calls |
| `pool_lock_leak`, `pool_remove_panic`, `instance_unprotected`, `instance_reporting` | disagreements with the code's own texts, section 5 | as small as shows them |

**Why the bounds are enough.**  A pool needs two Instances to be half created
and three names to have a surplus one beside a replacement; a pass that repeats
an earlier one needs one disturbance, and two make one interfere with the
recovery from the other.  `pool_faults` has exactly as many names as the
excess bound would allow plus one, so that a violation has room.  An Instance's
passes are sequential, so the interesting states are those between two calls
when one or two things go wrong; three disturbances cover a node that fails,
recovers and is deleted.  `OvershootBounded` and `DevicesBounded` count
disturbances, and both bounds are reached.  `pool_deletion` needs a disturbance
for the deletion, one for the successor or for a crash or a failing call, and
names for an Instance of the old pool, one of the new and one that a repeated
pass creates; three disturbances with three names would cut creation off.
`reinstall` has an odd and an even port in each of two loops, so that a bulk
disbond can take a port the loop has yet to come to, and two failures, so that
a pass may fail on what another had half done.

`CHECK_DEADLOCK FALSE` is set where the system may really stop: an Instance
that is gone leaves nothing to do, a pool of count 0 or one that is deleted
neither, nor a device whose reinstallation is reported; `pool_faults` leaks the
lock on purpose.  `pool_safety` checks for deadlock.

**Fairness.**  A worker that is running finishes its call (`WF` of `Handle`,
`NodeHandle`), the watch delivers (`WF` of `Deliver`), notified keys are queued
and timers go off.  Start of a pass and acquisition of `instanceLock` are `SF`
in `InstancePool`: both wait for a turn that is given first come, first served
(work queue, `sync.Mutex` in its fair mode).  The environment installs devices,
lets installed ones join, lets a failing node's interval elapse and removes
deleted nodes; it repairs the operator's surroundings.  No heartbeat, recovery,
edit or other disturbance is assumed to happen.  The API server ends a
foreground deletion and the garbage collector works (`WF` of `RemovePool`,
`Collect`).  In `ReInstall`, `WF` of `Proceed`: an error puts the key back into
the queue, and the pass runs again.

**Premises that are part of a property.**  `Converges` is claimed for
behaviours in which passes eventually stop starting from a stale cache: each
one that does may create Instances again, and removing them may take another
such pass, so without the premise the pool can oscillate.  `LockReleased` and
`NoLostWakeUp` are checked without `fault`: section 5 says what a failing call
does to them.  `DevicesBounded` allows two extra devices per disturbance since
one crash or conflict can make a creation whose ID was not stored happen again,
both from the cache and from the queue.  `ProtectedDeletionCompletes` is claimed
for an Instance with both finalizers: one deleted between them lingers (section
5).  `LeavesNothing` is claimed for a pool that stays deleted.  `Completes` has the
premise about the reports that section 2 gives.  `JoinedNotReinstalled` is
checked without crashes, and `Converges` without a missing token and
`evictCreated`: section 5 again.

**Mutants.**  Operators such as `ReconciledWithoutRefill`, `CurrentOrNot`,
`AddUnownedInstance`, `ReinstallingAsBefore` and `NeverSkipped` are slips of a
plausible kind, never used by the models; `PROJECT.json` says which property
catches each.

## 4. Proofs

For every value of the constants that satisfies `ConstantsAssumption` of the
module, and the assumption named in the table.

| Module, theorem | Statement | Assumption | Inductive invariant |
| --- | --- | --- | --- |
| `InstancePoolProofs` `Typed` | `Spec => []TypeOK` | | `TypeOK` itself |
| `Exclusive` | `Spec => []SubmitExclusive` | | with `TypeOK`: a pool inside has the lock taken, and `Lock` needs it free |
| `FieldsAgree` | `Spec => []NeededAgreesWithStatus` | | `FieldsInv`: a handler that reconciles or removes Instances still holds an object of the status it was chosen for; without that the status it writes could not be related to the `needed` it read |
| `Released` | `Spec => []LockReleased` | `NoEarlyReturn`: no failing call, valid pools, no missing secret | `ReleasedInv`: the look-ups end with success or a panic |
| `Untouched` | `Spec => SuccessorUntouched` | | `VersionInv`: a handler that still shares the cached object has the cached uid, and a cache that is not stale the stored one |
| `ReadyMatches` | `Spec => PublishedReadyMatchesSpec` | no `fault` | `StatusInv`: a current object that says `ready` either has the stored status or has just been decided by a comparison with the stored count |
| `InstancePoolWakeProofs` `NeverForgotten` | `Spec => []NoLostWakeUp` | `Undisturbed`: no `fault`, `evictCreated`, `deletePool`, no missing token | `WakeInv`: a write that will be accepted either changes the status, and the watch follows it up, or is what `reconcileInstances` makes of the Instances there are, unless the pool is to be looked at again anyway; so an idle pool nobody is to look at is at rest |
| `InstancePoolCountProofs` `OvershootLimited` | `Spec /\ []PanicsAlone => []OvershootBounded` | `Steady`: no `edit`, `deletePool` | `OvershootInv`: the Instances a pool has and those still to come, together, are at most `count * (1 + disturbed)`; see below |
| `OvershootAlone` | `Spec => []OvershootBounded` | `Steady`, at most one pool not in `InvalidPools` | the same; an invalid pool has no Instance, so it never gets to `removeInstances` |
| `InstanceProofs` `Typed` | `Spec => []TypeOK` | | `Core` and the types of the other variables |
| `Forward` | `Spec => StatusForward` | | `Core`: of the stored object, the cached one and the handler's own, one that counts as current is ahead of the stored object or equal to it, never behind, and has its device |
| `Lives` | `Spec => ImplementsLife` | | `Core`: every step that changes the object is one of a few `Legal` changes, and each maps to a step of `InstanceLife` or a stutter |
| `InstanceDeviceProofs` `Accounted` | `Spec => []DeviceAccounted` | `NoAccident`: no failing call, crash or early deletion | `AccountedInv`: before the first `UpdateStatus` one pass knows everything; after it every copy knows the device, and the finalizer that protects it is missing only during one call in which nobody can delete the object |
| `InstanceJoinProofs` `Joined` | `Spec => []ManagedHasJoined` | `NoAccident`, `SlowInstall` | `JoinInv`: what each copy's status says of the device is so, and no copy that could start a pass asks for a device that has been wiped |
| `WipedBeforeJoining` | `Spec => JoinedNotReinstalled` | `NoAccident`, `SlowInstall` | the same |
| `InstanceCountProofs` `DevicesLimited` | `Spec => []DevicesBounded` | | the devices bought and those still to be bought from the copies now in sight are at most two per disturbance and one more |
| `ReInstallProofs` `Typed` | `Spec => []TypeOK` | | `TypeOK` |
| `Configured` | `Spec => []InstallsAsConfigured` | | `Progress`: all earlier loops of the pass have had their effect, and the current one on all that is not left, but for ports the pass was not told it could disbond; it survives the pass's later calls since the loops of a type never work against each other |
| `Connected` | `Spec => []ManagementKept` | | the property and `TypeOK` |

Section 5 has examples of what the excluded disturbances do to the properties;
without `SlowInstall` a pass from the cached `queued` wipes the device again.  `ReadyMatches` excludes a failing
write because its value stays in the cache and is stored by the next write,
whatever the count is by then.

The proofs follow the actions.  `InstancePoolProofs` sums them up once for the
later theorems: `StepKinds` says that every step is, for one pool, a start, an
assignment, an end of a pass, a delivery, a change by others or a restart, and
`VersionInv` and `StatusInv` are shown for those kinds.  `WakeInv` is shown for
one pool at a time: `Calm` closes every step of others, since whoever changes
what a pass counts also wakes the pool (`OthersStep`, `InstancesStep`); `Advances`,
`Fails`, `Assigns` and `UpdateStep` are what the pool's own pass can do.
`InstanceProofs` has a lemma for what a step of each kind does to the copies
(`CallStep`, `Returned`, `Moved`, `Assigned`, ...) and one for each action.

`DevicesLimited` and `OvershootLimited` are amortised arguments.  An Instance
or a device is created twice because a pass starts from a status that another
pass has already dealt with: the cached one while it is stale, the stored one
after a restart, the handler's own.  What those copies can still bring about is
a number, the *debt* (`Debt` in `InstancePoolCountProofs`), and the invariant
bounds what there is together with the debt.  A creation turns one unit of debt
into an Instance; a write makes the stored object the one to pay for and the
cached one stale; a step that is no disturbance never raises the sum
(`QuietBudget`), one that is raises it by `spec.count` at most (`RoughBudget`).
Before the first disturbance the sum would be too large: of a new pool it counts
what the stored object asks for and what the write to come leaves in the cache,
twice `spec.count`, though the first of the two never happens unless something
goes wrong.  There `Untroubled` says instead where the pool is on its way
(nothing asked for yet, asked for and being created, created).  `Coherent` is
what the sum needs to know: of the stored object, the cached one and the
handler's own, which can differ and in what.

`PanicsAlone` is there because without it the bound is **false**, which the
attempt to prove it brought to light.  Take two valid pools of count 1.  An
eviction and a crash give the first three Instances; the removal of the surplus
is done a second time from the stale cache and runs out of Instances, and
`removeInstances` panics.  While the last of them lingers with its finalizers,
every restart lists it, deletes it again and panics again.  A panic ends the
whole process; if the second pool's `submitInstances` happens to be between
`Create` and `UpdateStatus` then, it starts over after the restart and creates
another Instance, every time round, without any further disturbance.  So
`OvershootBounded` is claimed where no other pool's panic interrupts a
creation; `pool_faults` has one valid pool, to which `OvershootAlone` applies.

Model-checked only: all liveness (`Converges`, `LeavesNothing`, `BecomesManaged`,
`ProtectedDeletionCompletes`, `UnhealthyReplaced`, `Completes`), since liveness
under fairness and `ENABLED` are beyond TLAPS.

## 5. Disagreements between the code and its texts

Four runs show one each, quoted in `PROJECT.json`:

* `pool_lock_leak`: every return of `submitInstances` before line 255 leaves
  `instanceLock` taken; no pool is provisioned any more.
* `pool_remove_panic`: `removeInstances` indexes `Items[-1]` when
  `status.needed` counts more than the listing has.
* `instance_unprotected`: a crash between the status and the finalizer write of
  `submitRequest` leaves an Instance whose deletion leaves its device running.
* `instance_reporting`: the unhealthy time is taken from `LastHeartbeatTime`,
  so a node that keeps reporting `NotReady` is never replaced.

More can be seen by changing a configuration:

| Change | Violated | What happens |
| --- | --- | --- |
| `PoolLockLeak`: `InitPrereq = {"ok"}`, `InitConfig = {"noToken"}` | `Converges` | `errors.Wrap(nil, ...)` is nil: a missing token counts as success |
| `PoolLockLeak`: `InitPrereq = {"ok"}`, `Disturbances = {"evictCreated"}`, one disturbance | `Converges` | an Instance deleted before it has a finalizer wakes nobody |
| `PoolSafety`: `Disturbances = {"fault", "evict"}` | `NoLostWakeUp` | a failed write stays in the cache, and the next, equal to what is stored, wakes nobody |
| `PoolSafety`: `Disturbances = {"fault", "edit"}`, this property alone, no deadlock check | `PublishedReadyMatchesSpec` | a `ready` whose write failed is stored later, for another count |
| `PoolDeletion`: `INVARIANT NoLostWakeUp` | `NoLostWakeUp` | a pool created while an Instance of its predecessor has no finalizer yet counts it by its label; the surplus is removed at its own cost, the old Instance collected silently |
| `InstanceSafety`: `Disturbances = {"deleteEarly"}` | `DeviceAccounted` | deleted while its device is being created: the ID is lost |
| `InstanceUnprotected`: `Disturbances = {"deleteEarly"}` | `DeletionCompletes` | deleted between the two finalizers: `OnInstanceRemove` is never called |
| `InstanceLiveness`: `Disturbances = {"fault"}` | `BecomesManaged` | a failed write of `managed` is never repeated |
| `InstanceReporting`: `Reporting = FALSE`, `Disturbances = {"nodeFailEarly"}` | `UnhealthyReplaced` | a node that turns unhealthy just before its Instance is managed is not looked at again |
| `Reinstall`: `INVARIANT InstallsAsDocumented` | `InstallsAsDocumented` | a port the README's network type unbonds (`src/README.md:73`) stays bonded if Equinix does not report `DisbondOperationSupported` for it: it is passed over without an error, and the installation goes on |
| `Reinstall`: `Completes` without its premise | `Feasible ~> reported` | Equinix refuses to disbond a port an earlier pass took out, and reports the flag for it all the same: every retry fails there |
| `InstanceSafety`: no invariants, `Disturbances = {"crash"}` | `JoinedNotReinstalled` | a crash after `Reinstall` wipes the device a second time |

## 6. Not modelled

* Negative counts, which nothing validates: a count below zero is never
  reached and the pool alternates between two states for ever; no state
  satisfies such a spec, so there is nothing to hold the code to.
* States of a device no `case` names (`provisioning`, `failed`): liveness is
  claimed for devices that are created as `queued`.
* The text of the cloud-init document and of the creation request, except for
  what `ReInstall` keeps of it (the interfaces it names, whether it is YAML).
* Set-up of clients, CRDs and factories, the Harvester configuration types,
  generated code and code generators: they keep no state of their own and have
  no order that matters.

## 7. What could follow

* `OvershootBounded` for two valid pools, with the panics of `removeInstances`
  counted as disturbances of every other pool; and with edits of `spec.count`,
  for the largest count so far.
* `InstancePool` with `Instance` in the place of `InstanceLife`, for one pool
  and one or two Instances; the refinement makes it a test of the mapping only.
