---------------------------- MODULE InstancePool ----------------------------
(***************************************************************************)
(* The InstancePool controller: pkg/controllers/instancepool.  A worker    *)
(* takes a pool's key from the work queue, reads the pool from the         *)
(* informer's cache, switches on status.status and runs one of four        *)
(* handlers, each a sequence of API calls: one action per call, because    *)
(* the API server, the watch, the other workers and the rest of the        *)
(* cluster act in between.  Two facts of the framework matter:             *)
(*   - a write is refused when the server has a newer resourceVersion than *)
(*     the object it is made from;                                         *)
(*   - a handler gets a pointer to the cached object and assigns to its    *)
(*     fields, so an assignment whose write failed stays visible to the    *)
(*     next pass until the watch replaces the cached object.               *)
(* Versions are only compared with the server's: stale[p] says the cached  *)
(* object is older, pass[p].shared that the handler's ip is that object.   *)
(* The operators whose names say that they omit something (AddUnowned-     *)
(* Instance, CurrentOrNot, ...) are slips kept beside what they would break;*)
(* nothing below uses them.                                                *)
(***************************************************************************)
EXTENDS Integers, FiniteSets

CONSTANTS
  Pools,            \* the InstancePool objects, by name
  NoPool,           \* the owner of an Instance that does not exist
  Names,            \* Instance names; their order is that of List
  Counts,           \* the values spec.count takes
  Workers,          \* workers of the controller (start.All)
  InvalidPools,     \* pools whose networkingConfiguration.type is invalid
  InitConfig,       \* how the rancherd config.yaml may be found at first
  InitPrereq,       \* how the secret, nodes and ingress may be found at first
  Disturbances,     \* the kinds of disturbance that may occur
  MaxDisturbances   \* how many may, all kinds together

ConfigStates == {"ok", "unreadable", "noToken", "notString"}
PrereqStates == {"ok", "missing", "noIngress"}
DisturbanceKinds ==
  {"edit", "evict", "evictCreated", "crash", "fault", "submitFault", "resync",
   "deletePool", "createPool", "createPoolEarly"}

ASSUME ConstantsAssumption ==
  /\ NoPool \notin Pools
  /\ IsFiniteSet(Pools) /\ IsFiniteSet(Names)
  /\ Names \subseteq Nat /\ Counts \subseteq Nat /\ Workers \in Nat \ {0}
  /\ InvalidPools \subseteq Pools
  /\ InitConfig \subseteq ConfigStates /\ InitPrereq \subseteq PrereqStates
  /\ Disturbances \subseteq DisturbanceKinds /\ MaxDisturbances \in Nat

VARIABLES
  pool,        \* pool[p]: the InstancePool the API server stores
  inst,        \* inst[n]: the Instance it stores under the name n, or Absent
  config,      \* state of /etc/rancher/rancherd/config.yaml
  prereq,      \* state of the secret, control-plane nodes, ingress service
  disturbed,   \* number of disturbances so far
  cache,       \* cache[p]: the informer's InstancePool
  stale,       \* stale[p]: it is not the stored version
  notify,      \* pools ReconcileNodePool is about to enqueue
  queue,       \* pools in the work queue, those in back-off included
  locked,      \* instanceLock
  pass         \* pass[p]: the worker's pass over p, or Idle

store == <<pool, inst>>
world == <<config, prereq, disturbed>>
watch == <<cache, stale, notify>>
vars  == <<store, world, watch, queue, locked, pass>>

(* life: a deletion in the foreground leaves the pool "deleting" for a     *)
(* while, any other is over at once; uid tells a pool from its successor   *)
(* of the same name.                                                       *)
Statuses == {"", "tokenReady", "submitted", "ready", "cleanupNodes"}
InstancePoolObject ==
  [count: Nat, status: Statuses, needed: Int, requested: Int, ready: Nat,
   life: {"live", "deleting", "gone"}, uid: Nat]
NewPool(c, uid) ==
  [count |-> c, status |-> "", needed |-> 0, requested |-> 0, ready |-> 0,
   life |-> "live", uid |-> uid]

(* owner: the label instancePool; uid: the owner reference, 0 if there is  *)
(* none.  A "created" Instance has no finalizer and is gone once deleted;  *)
(* later it carries finalizers and lingers while "deleting".               *)
Absent == [phase |-> "absent", owner |-> NoPool, uid |-> 0, deleting |-> FALSE]
InstanceObject ==
  [phase: {"created", "pending", "managed"}, owner: Pools, uid: Nat,
   deleting: BOOLEAN]

(* at: the next call; ip: the handler's object; left: Instances still to   *)
(* create; items: instanceList.Items of removeInstances.                   *)
Stages == {"idle", "prepare", "lock", "lookup", "create", "publish", "list",
           "listRemove", "delete", "write"}
Pass == [at: Stages, ip: InstancePoolObject, shared: BOOLEAN, left: Int,
         items: SUBSET Names]
Idle == [at |-> "idle", ip |-> NewPool(0, 0), shared |-> FALSE, left |-> 0,
         items |-> {}]

(* What List returns for the label selector instancePool=p.                *)
Members(p) == {n \in Names : inst[n].owner = p}
Managed(p) == {n \in Members(p) : inst[n].phase = "managed"}

(* The pools have just been created and the informer has listed them.      *)
Init ==
  /\ \E c \in [Pools -> Counts] : pool = [p \in Pools |-> NewPool(c[p], 1)]
  /\ inst = [n \in Names |-> Absent]
  /\ config \in InitConfig /\ prereq \in InitPrereq /\ disturbed = 0
  /\ cache = pool /\ stale = [p \in Pools |-> FALSE] /\ notify = {}
  /\ queue = Pools
  /\ locked = FALSE
  /\ pass = [p \in Pools |-> Idle]

(***************************************************************************)
(* What the handlers are made of.                                          *)
(***************************************************************************)
At(p, stages) == pass[p].at \in stages

(* Assign to the fields of ip, and so of the cached object it points to.   *)
Assign(p, o, stage, items) ==
  /\ pass' = [pass EXCEPT ![p].ip = o, ![p].at = stage, ![p].items = items]
  /\ cache' = IF pass[p].shared THEN [cache EXCEPT ![p] = o] ELSE cache
  /\ UNCHANGED <<world, stale, queue, locked>>

(* The pass is over; an error puts the key back into the queue.            *)
Return(p, failed) ==
  /\ pass' = [pass EXCEPT ![p] = Idle]
  /\ queue' = IF failed THEN queue \cup {p} ELSE queue

ReturnNow(p, failed) ==
  Return(p, failed) /\ UNCHANGED <<store, world, watch, locked>>

(* The process dies, starts again, lists every object and queues its key.  *)
Restart ==
  /\ cache' = pool /\ stale' = [p \in Pools |-> FALSE] /\ notify' = {}
  /\ queue' = {p \in Pools : pool[p].life # "gone"}
  /\ locked' = FALSE
  /\ pass' = [p \in Pools |-> Idle]
  /\ UNCHANGED <<store, config, prereq>>

Panic == Restart /\ UNCHANGED disturbed

Disturb(kind) ==
  /\ kind \in Disturbances
  /\ disturbed < MaxDisturbances
  /\ disturbed' = disturbed + 1
  /\ UNCHANGED <<config, prereq>>

(* Instance n is deleted through the API.                                  *)
DeleteInstance(n) ==
  IF inst[n].phase = "created"
  THEN inst' = [inst EXCEPT ![n] = Absent] /\ UNCHANGED notify
  ELSE /\ inst' = [inst EXCEPT ![n].deleting = TRUE]
       /\ notify' = IF inst[n].deleting THEN notify
                    ELSE notify \cup {inst[n].owner}

(* A write made from the stored version goes through, and changes nothing  *)
(* but the status.                                                         *)
CurrentOrNot(p) == TRUE

Current(p) == pass[p].shared /\ ~stale[p]

Store(p) ==
  /\ pool' = [pool EXCEPT ![p] = [pass[p].ip EXCEPT
       !.count = pool[p].count, !.life = pool[p].life, !.uid = pool[p].uid]]
  /\ stale' = [stale EXCEPT ![p] = pool'[p] # pool[p]]

(* submitInstances releases instanceLock after its UpdateStatus, whatever  *)
(* that returned.                                                          *)
ReleaseOnSuccess(p) == locked' = (locked /\ ~(At(p, {"publish"}) /\ Current(p)))

Release(p) == locked' = (locked /\ ~At(p, {"publish"}))

(***************************************************************************)
(* wrapper: a worker takes a key and switches on the cached status.        *)
(***************************************************************************)
Handler(status) ==
  CASE status = ""                       -> "prepare"
    [] status = "tokenReady"             -> "lock"
    [] status \in {"submitted", "ready"} -> "list"
    [] status = "cleanupNodes"           -> "listRemove"

Busy == {p \in Pools : pass[p].at # "idle"}

Start(p) ==
  /\ p \in queue /\ p \notin Busy /\ Cardinality(Busy) < Workers
  /\ queue' = queue \ {p}
  /\ pass' = [pass EXCEPT ![p] =
       IF cache[p].life # "live" THEN Idle
       ELSE [Idle EXCEPT !.at = Handler(cache[p].status), !.ip = cache[p],
                         !.shared = TRUE]]
  /\ UNCHANGED <<store, world, watch, locked>>

IsLast(n, items) == n \in items /\ \A m \in items : m <= n

(* The last call of every handler.                                         *)
UpdateStatus(p) ==
  /\ At(p, {"write", "publish"})
  /\ IF Current(p) THEN Store(p) ELSE UNCHANGED <<pool, stale>>
  /\ Return(p, ~Current(p)) /\ Release(p)
  /\ UNCHANGED <<inst, world, cache, notify>>

(* A call fails in transit, before or after it took effect.                *)
Fault(p) ==
  /\ Disturb("fault")
  /\ \/ /\ At(p, {"list", "listRemove", "delete", "write", "publish"})
        /\ UNCHANGED <<store, stale, notify>>
     \/ /\ At(p, {"write", "publish"}) /\ Current(p) /\ Store(p)
        /\ UNCHANGED <<inst, notify>>
     \/ /\ At(p, {"delete"})
        /\ \E n \in Names :
             IsLast(n, pass[p].items) /\ inst[n] # Absent /\ DeleteInstance(n)
        /\ UNCHANGED <<pool, stale>>
  /\ Return(p, TRUE) /\ Release(p)
  /\ UNCHANGED cache

(***************************************************************************)
(* prepareInstancePool: find the join token, ask for spec.count Instances. *)
(* Without a token key errors.Wrap is handed a nil error and returns nil,  *)
(* so the pass ends as if it had succeeded; token.(string) may panic.      *)
(***************************************************************************)
PrepareInstancePool(p) ==
  /\ At(p, {"prepare"})
  /\ \/ /\ config = "ok"
        /\ LET ip == pass[p].ip IN
             Assign(p, [ip EXCEPT !.needed = ip.count, !.status = "tokenReady",
                                  !.requested = ip.count], "write", {})
        /\ UNCHANGED <<store, notify>>
     \/ config \in {"unreadable", "noToken"}
        /\ ReturnNow(p, config = "unreadable")
     \/ config = "notString" /\ Panic

(***************************************************************************)
(* submitInstances: under instanceLock, create status.needed Instances.    *)
(* Its early returns leave the lock taken.                                 *)
(***************************************************************************)
LockUnguarded == locked' = TRUE

Lock == ~locked /\ locked' = TRUE

AcquireLock(p) ==
  /\ At(p, {"lock"}) /\ Lock
  /\ pass' = [pass EXCEPT ![p].at = "lookup"]
  /\ UNCHANGED <<store, world, watch, queue>>

(* The secret and its two keys, the control-plane nodes, and the join      *)
(* address: Ingress[0] of a service that may have no ingress yet.          *)
Lookup(p) ==
  /\ At(p, {"lookup"})
  /\ \/ /\ prereq = "ok"
        /\ pass' = [pass EXCEPT ![p].at = "create",
                                ![p].left = pass[p].ip.needed]
        /\ UNCHANGED <<store, world, watch, queue, locked>>
     \/ prereq = "missing" /\ ReturnNow(p, TRUE)
     \/ prereq = "noIngress" /\ Panic

Unused ==
  {n \in Names : inst[n] = Absent /\ \A p \in Pools : n \notin pass[p].items}

AddUnownedInstance(p) ==
  \E n \in Unused :
    inst' = [inst EXCEPT ![n] =
               [phase |-> "created", owner |-> p, uid |-> 0, deleting |-> FALSE]]

AddInstance(p) ==
  \E n \in Unused :
    inst' = [inst EXCEPT ![n] =
               [phase |-> "created", owner |-> p, uid |-> pass[p].ip.uid,
                deleting |-> FALSE]]

CreateInstance(p) ==
  /\ At(p, {"create"}) /\ pass[p].left > 0 /\ p \notin InvalidPools
  /\ AddInstance(p)
  /\ pass' = [pass EXCEPT ![p].left = @ - 1]
  /\ UNCHANGED <<pool, world, watch, queue, locked>>

(* The networking type is looked at inside the loop, once per Instance.    *)
RejectNetworkType(p) ==
  /\ At(p, {"create"}) /\ pass[p].left > 0 /\ p \in InvalidPools
  /\ ReturnNow(p, TRUE)

(* A lookup or a Create fails in transit; the Instance may exist or not.   *)
SubmitFault(p) ==
  /\ \/ At(p, {"lookup"}) /\ UNCHANGED inst
     \/ /\ At(p, {"create"}) /\ pass[p].left > 0 /\ p \notin InvalidPools
        /\ UNCHANGED inst \/ AddInstance(p)
  /\ Disturb("submitFault")
  /\ Return(p, TRUE)
  /\ UNCHANGED <<pool, watch, locked>>

SubmittedAsBefore(ip) == ip
SubmittedStillNeeded(ip) == [ip EXCEPT !.status = "submitted"]

Submitted(ip) == [ip EXCEPT !.status = "submitted", !.needed = 0]

FinishSubmit(p) ==
  /\ At(p, {"create"}) /\ pass[p].left <= 0
  /\ Assign(p, Submitted(pass[p].ip), "publish", {})
  /\ UNCHANGED <<store, notify>>

(***************************************************************************)
(* reconcileInstances: compare the Instances that exist with spec.count.   *)
(***************************************************************************)
ReconciledIgnoringCount(ip, ready, present) ==
  IF ip.requested = ready
  THEN [ip EXCEPT !.status = "ready", !.needed = 0, !.ready = ready]
  ELSE [ip EXCEPT !.requested = ip.count, !.needed = ip.count - present,
                  !.ready = ready,
                  !.status = IF ip.count < present THEN "cleanupNodes"
                             ELSE IF ip.count > present THEN "tokenReady" ELSE @]

ReconciledWithoutRefill(ip, ready, present) ==
  IF ip.requested = ready /\ ip.requested = ip.count
  THEN [ip EXCEPT !.status = "ready", !.needed = 0, !.ready = ready]
  ELSE [ip EXCEPT !.requested = ip.count, !.ready = ready,
                  !.needed = ip.count - present,
                  !.status = IF ip.count < present THEN "cleanupNodes" ELSE @]

Reconciled(ip, ready, present) ==
  LET needed == ip.count - present
  IN IF ip.requested = ready /\ ip.requested = ip.count
     THEN [ip EXCEPT !.status = "ready", !.needed = 0, !.ready = ready]
     ELSE [ip EXCEPT !.requested = ip.count, !.needed = needed,
                     !.ready = ready,
                     !.status = IF needed < 0 THEN "cleanupNodes"
                                ELSE IF needed > 0 THEN "tokenReady" ELSE @]

ReconcileInstances(p) ==
  /\ At(p, {"list"})
  /\ Assign(p, Reconciled(pass[p].ip, Cardinality(Managed(p)),
                          Cardinality(Members(p))), "write", {})
  /\ UNCHANGED <<store, notify>>

(***************************************************************************)
(* removeInstances: delete -status.needed Instances from the end of one    *)
(* listing, counting requested down and needed up on the way.              *)
(***************************************************************************)
Surplus(p) == Members(p) # {} /\ pass[p].ip.needed < 0

ListInstances(p) ==
  /\ At(p, {"listRemove"})
  /\ \/ /\ Surplus(p)
        /\ pass' = [pass EXCEPT ![p].items = Members(p), ![p].at = "delete"]
        /\ UNCHANGED <<world, cache, stale, queue, locked>>
     \/ /\ ~Surplus(p)
        /\ Assign(p, [pass[p].ip EXCEPT !.status = "submitted"], "write", {})
  /\ UNCHANGED <<store, notify>>

(* Delete returns NotFound if the Instance is gone by now, and the index   *)
(* is -1 if fewer were listed than status.needed counts.                   *)
RemoveInstance(p) ==
  LET items == pass[p].items
      ip    == [pass[p].ip EXCEPT !.requested = @ - 1, !.needed = @ + 1]
      last  == ip.needed >= 0
  IN /\ At(p, {"delete"})
     /\ \/ \E n \in Names :
             /\ IsLast(n, items) /\ inst[n] # Absent
             /\ DeleteInstance(n)
             /\ Assign(p, IF last THEN [ip EXCEPT !.status = "submitted"] ELSE ip,
                       IF last THEN "write" ELSE "delete", items \ {n})
             /\ UNCHANGED pool
        \/ /\ \E n \in Names : IsLast(n, items) /\ inst[n] = Absent
           /\ ReturnNow(p, TRUE)
        \/ items = {} /\ Panic

(***************************************************************************)
(* The informer delivers a pool's newest version, and ReconcileNodePool    *)
(* enqueues the pool of an Instance that is managed or being deleted.      *)
(***************************************************************************)
Deliver(p) ==
  /\ stale[p]
  /\ cache' = [cache EXCEPT ![p] = pool[p]]
  /\ stale' = [stale EXCEPT ![p] = FALSE]
  /\ pass' = [pass EXCEPT ![p].shared = FALSE]
  /\ queue' = queue \cup {p}
  /\ UNCHANGED <<store, world, notify, locked>>

ReconcileNobody(p) ==
  /\ p \in notify
  /\ notify' = notify \ {p}
  /\ UNCHANGED <<store, world, cache, stale, queue, locked, pass>>

ReconcileNodePool(p) ==
  /\ p \in notify
  /\ notify' = notify \ {p} /\ queue' = queue \cup {p}
  /\ UNCHANGED <<store, world, cache, stale, locked, pass>>

(***************************************************************************)
(* The rest of the cluster, as far as a pool sees it: the device is        *)
(* created, then installed until its node joins; the finalizers of a       *)
(* deleted Instance are removed, which the watch follows up 5s later; a    *)
(* node's heartbeat makes ResolveNode enqueue its Instance.                *)
(***************************************************************************)
Rest == UNCHANGED <<pool, cache, stale, queue, locked, pass>>

Provision(n) ==
  /\ inst[n].phase = "created"
  /\ inst' = [inst EXCEPT ![n].phase = "pending"]
  /\ UNCHANGED <<world, notify>> /\ Rest

Manage(n) ==
  /\ inst[n].phase = "pending" /\ ~inst[n].deleting
  /\ inst' = [inst EXCEPT ![n].phase = "managed"]
  /\ notify' = notify \cup {inst[n].owner}
  /\ UNCHANGED world /\ Rest

FinalizeUnowned(n) ==
  /\ inst[n].deleting
  /\ inst' = [inst EXCEPT ![n] = Absent]
  /\ notify' = notify \cup {inst'[n].owner}
  /\ UNCHANGED world /\ Rest

Finalize(n) ==
  /\ inst[n].deleting
  /\ inst' = [inst EXCEPT ![n] = Absent]
  /\ notify' = notify \cup {inst[n].owner}
  /\ UNCHANGED world /\ Rest

Heartbeat(n) ==
  /\ inst[n].phase = "managed"
  /\ notify' = notify \cup {inst[n].owner}
  /\ UNCHANGED <<inst, world>> /\ Rest

(* The garbage collector deletes what a deleted pool owned, and what a pass*)
(* that outlives its pool still creates for it.                            *)
Owned(n) ==
  LET owner == pool[inst[n].owner]
  IN inst[n].uid = 0 \/ (inst[n].uid = owner.uid /\ owner.life = "live")

Collect(n) ==
  /\ inst[n] # Absent /\ ~inst[n].deleting /\ ~Owned(n)
  /\ DeleteInstance(n)
  /\ UNCHANGED world /\ Rest

(* ResolveNode replaces an unhealthy node, or somebody deletes the object. *)
Evict(n) ==
  /\ inst[n] # Absent
  /\ Disturb(IF inst[n].phase = "created" THEN "evictCreated" ELSE "evict")
  /\ DeleteInstance(n) /\ Rest

(* What others do with the pool itself.                                    *)
ChangePool(p, o) ==
  /\ pool' = [pool EXCEPT ![p] = o]
  /\ stale' = [stale EXCEPT ![p] = TRUE]
  /\ UNCHANGED <<inst, cache, notify, queue, locked, pass>>

EditCount(p, c) ==
  /\ pool[p].life = "live" /\ c # pool[p].count
  /\ Disturb("edit")
  /\ ChangePool(p, [pool[p] EXCEPT !.count = c])

DeletePool(p) ==
  /\ pool[p].life = "live"
  /\ Disturb("deletePool")
  /\ \E life \in {"deleting", "gone"} :
       ChangePool(p, [pool[p] EXCEPT !.life = life])

RemovePool(p) ==
  /\ pool[p].life = "deleting"
  /\ ChangePool(p, [pool[p] EXCEPT !.life = "gone"])
  /\ UNCHANGED world

(* A pool of the same name is created, "early" while an Instance of the    *)
(* last one has no finalizer yet, or the controller is still busy with it. *)
CreatePool(p, c) ==
  /\ pool[p].life = "gone"
  /\ Disturb(IF \/ stale[p] \/ pass[p] # Idle
                \/ \E n \in Members(p) : inst[n].phase = "created"
             THEN "createPoolEarly" ELSE "createPool")
  /\ ChangePool(p, NewPool(c, pool[p].uid + 1))

(* The informer's resync, hours apart, hands every object out again.       *)
Resync ==
  /\ Disturb("resync")
  /\ queue' = queue \cup {p \in Pools : cache[p].life # "gone"}
  /\ UNCHANGED <<store, watch, locked, pass>>

Repair ==
  /\ <<config, prereq>> # <<"ok", "ok">>
  /\ config' = "ok" /\ prereq' = "ok"
  /\ UNCHANGED <<store, disturbed, watch, queue, locked, pass>>

Crash == Restart /\ Disturb("crash")

-----------------------------------------------------------------------------
Handle(p) ==
  \/ UpdateStatus(p) \/ PrepareInstancePool(p)
  \/ Lookup(p) \/ CreateInstance(p) \/ RejectNetworkType(p) \/ FinishSubmit(p)
  \/ ReconcileInstances(p) \/ ListInstances(p) \/ RemoveInstance(p)

PoolStep(p) ==
  \/ Start(p) \/ AcquireLock(p) \/ Handle(p) \/ Fault(p) \/ SubmitFault(p)
  \/ Deliver(p) \/ ReconcileNodePool(p)
  \/ \E c \in Counts : EditCount(p, c) \/ CreatePool(p, c)
  \/ DeletePool(p) \/ RemovePool(p)

InstanceStep(n) ==
  \/ Provision(n) \/ Manage(n) \/ Finalize(n) \/ Heartbeat(n)
  \/ Collect(n) \/ Evict(n)

Next ==
  \/ \E p \in Pools : PoolStep(p)
  \/ \E n \in Names : InstanceStep(n)
  \/ Repair \/ Crash \/ Resync

(* A running worker runs on and the watch delivers.  The work queue and a  *)
(* contended sync.Mutex are first come, first served, hence strong         *)
(* fairness for the two steps that wait for a turn.  The rest is the       *)
(* environment's part: devices get installed and deleted, the operator's   *)
(* surroundings repaired.  Nothing is assumed of the disturbances.         *)
Fairness ==
  /\ \A p \in Pools :
       /\ SF_vars(Start(p)) /\ SF_vars(AcquireLock(p)) /\ WF_vars(Handle(p))
       /\ WF_vars(Deliver(p)) /\ WF_vars(ReconcileNodePool(p))
       /\ WF_vars(RemovePool(p))
  /\ \A n \in Names :
       /\ WF_vars(Provision(n)) /\ WF_vars(Manage(n)) /\ WF_vars(Finalize(n))
       /\ WF_vars(Collect(n))
  /\ WF_vars(Repair)

Spec == Init /\ [][Next]_vars /\ Fairness
=============================================================================
