----------------------- MODULE InstancePoolWakeProofs -----------------------
(***************************************************************************)
(* NoLostWakeUp: a pool nobody is about to look at is settled.  A pass     *)
(* ends for good only in UpdateStatus; it then either changed something,   *)
(* and the watch brings the pool back, or it stored what was there before, *)
(* which is possible for reconcileInstances alone, and only if that has    *)
(* nothing to do for the Instances there are.                              *)
(***************************************************************************)
EXTENDS InstancePoolProofs

(* Each of these makes the property false: a failed write stays in the     *)
(* cache; a deletion that needs no finalizer wakes nobody, nor does the    *)
(* collection of another pool's Instance; without a token the pass ends.   *)
Undisturbed ==
  /\ Disturbances \cap {"fault", "evictCreated", "deletePool"} = {}
  /\ "noToken" \notin InitConfig

(* No pool is ever deleted, so that each Instance has the owner it was     *)
(* created for.                                                            *)
First(o) == o.life = "live" /\ o.uid = 1

Undeleted ==
  /\ config # "noToken"
  /\ \A p \in Pools : /\ First(pool[p]) /\ First(cache[p])
                      /\ ~At(p, {"idle"}) => First(pass[p].ip)
  /\ \A n \in Names : inst[n] # Absent => inst[n].uid = 1
  /\ \A p \in Pools : \A n \in pass[p].items : inst[n].owner \in {p, NoPool}

Woken(p) == p \in queue \cup notify

Counted(p, o) == Reconciled(o, Cardinality(Managed(p)), Cardinality(Members(p)))

Reconciling(o) == o.status \in {"submitted", "ready"}

(* reconcileInstances would change nothing.                                *)
AtRest(p) == Reconciling(pool[p]) /\ Counted(p, pool[p]) = pool[p]

(* The status the handler was chosen for, until it assigns another.        *)
Chosen(p) ==
  /\ At(p, {"prepare"}) => pass[p].ip.status = ""
  /\ At(p, {"lock", "lookup", "create"}) => pass[p].ip.status = "tokenReady"

(* What a pass leaves in the cache when it ends without having written.    *)
Faithful(p) ==
  ~stale[p] /\ ~(Writing(p) /\ pass[p].shared) =>
    /\ cache[p].status = pool[p].status
    /\ Reconciling(pool[p]) => cache[p] = pool[p]

(* A write that will be accepted changes the status, or is what            *)
(* reconcileInstances makes of the Instances there are.                    *)
Outcome(p) ==
  /\ Writing(p) /\ Current(p) /\ pass[p].ip.status = pool[p].status
  => Reconciling(pool[p]) /\ (Woken(p) \/ pass[p].ip = Counted(p, pool[p]))

Rests(p) == At(p, {"idle"}) /\ ~stale[p] /\ ~Woken(p) => AtRest(p)

Settling(p) == Chosen(p) /\ Faithful(p) /\ Outcome(p) /\ Rests(p)

WakeInv == Undeleted /\ \A p \in Pools : Settling(p)

-----------------------------------------------------------------------------
(***************************************************************************)
(* No pool is deleted, and no Instance but by its pool or with a finalizer.*)
(***************************************************************************)
LEMMA NewPoolFirst == ASSUME NEW c PROVE First(NewPool(c, 1))
BY DEF First, NewPool

LEMMA UndeletedInit == ASSUME Undisturbed, Init PROVE Undeleted
<1>1. config # "noToken"
  BY DEF Undisturbed, Init
<1>2. \A n \in Names : inst[n] = Absent
  BY DEF Init
<1>3. \A p \in Pools : pass[p].at = "idle" /\ pass[p].items = {}
  BY DEF Init, Idle
<1>4. \A p \in Pools : First(pool[p]) /\ First(cache[p])
  <2>1. PICK c \in [Pools -> Counts] : pool = [p \in Pools |-> NewPool(c[p], 1)]
    BY DEF Init
  <2>2. \A p \in Pools : pool[p] = NewPool(c[p], 1)
    BY <2>1
  <2>3. cache = pool
    BY DEF Init
  <2> QED
    BY <2>2, <2>3, NewPoolFirst
<1> QED
  BY <1>1, <1>2, <1>3, <1>4 DEF Undeleted, At

(* The objects handlers write are of the pool they were started for.       *)
LEMMA ReconciledFirst ==
  ASSUME NEW ip \in InstancePoolObject, NEW ready, NEW present
  PROVE  LET o == Reconciled(ip, ready, present)
         IN o.uid = ip.uid /\ o.life = ip.life
<1>1. CASE ip.requested = ready /\ ip.requested = ip.count
  BY <1>1 DEF Reconciled, InstancePoolObject
<1>2. CASE ~(ip.requested = ready /\ ip.requested = ip.count)
  BY <1>2 DEF Reconciled, InstancePoolObject
<1> QED
  BY <1>1, <1>2

(* Each conjunct of Undeleted, as far as a step of pool p can disturb it.  *)
PoolsFirst ==
  \A p \in Pools : /\ First(pool[p]) /\ First(cache[p])
                   /\ ~At(p, {"idle"}) => First(pass[p].ip)
InstancesFirst == \A n \in Names : inst[n] # Absent => inst[n].uid = 1
ItemsOwn == \A p \in Pools : \A n \in pass[p].items : inst[n].owner \in {p, NoPool}

LEMMA UndeletedParts ==
  Undeleted <=> config # "noToken" /\ PoolsFirst /\ InstancesFirst /\ ItemsOwn
BY DEF Undeleted, PoolsFirst, InstancesFirst, ItemsOwn

LEMMA RestartUndeleted ==
  ASSUME Undeleted, Restart
  PROVE  Undeleted'
BY DEF Restart, store, Undeleted, First, Idle, At

LEMMA AssignUndeleted ==
  ASSUME TypeOK, PoolsFirst, NEW p \in Pools, NEW o, NEW stage, NEW items,
         Assign(p, o, stage, items), First(o), UNCHANGED pool
  PROVE  PoolsFirst'
<1>1. /\ pass'[p].ip = o /\ (cache'[p] = o \/ cache'[p] = cache[p])
      /\ \A q \in Pools \ {p} : cache'[q] = cache[q] /\ pass'[q] = pass[q]
  BY DEF Assign, TypeOK, Pass
<1> QED
  BY <1>1 DEF PoolsFirst, At

LEMMA ReturnUndeleted ==
  ASSUME TypeOK, PoolsFirst, NEW p \in Pools,
         pass' = [pass EXCEPT ![p] = Idle], UNCHANGED <<pool, cache>>
  PROVE  PoolsFirst'
<1>1. /\ pass'[p].at = "idle"
      /\ \A q \in Pools \ {p} : pass'[q] = pass[q]
  BY DEF TypeOK, Idle
<1> QED
  BY <1>1 DEF PoolsFirst, At

LEMMA StoreFirst ==
  ASSUME TypeOK, PoolsFirst, NEW p \in Pools, Store(p)
  PROVE  \A q \in Pools : First(pool'[q])
<1>1. pool'[p] = Written(p) /\ \A q \in Pools \ {p} : pool'[q] = pool[q]
  BY DEF Store, Written, TypeOK
<1>2. Written(p).life = pool[p].life /\ Written(p).uid = pool[p].uid
  BY DEF Written, TypeOK, Pass, InstancePoolObject
<1> QED
  BY <1>1, <1>2 DEF PoolsFirst, First

LEMMA PoolsFirstNext ==
  ASSUME Undisturbed, TypeOK, Undeleted, [Next]_vars
  PROVE  PoolsFirst'
<1>1. PoolsFirst
  BY UndeletedParts
<1>2. ASSUME NEW p \in Pools, Start(p) PROVE PoolsFirst'
  <2>1. /\ \A q \in Pools \ {p} : pass'[q] = pass[q]
        /\ pass'[p].at = "idle" \/ pass'[p].ip = cache[p]
    BY <1>2 DEF Start, TypeOK, Idle
  <2> QED
    BY <1>1, <1>2, <2>1 DEF Start, PoolsFirst, At, store, watch
<1>3. ASSUME NEW p \in Pools, UpdateStatus(p) PROVE PoolsFirst'
  <2>1. UNCHANGED cache /\ pass' = [pass EXCEPT ![p] = Idle]
    BY <1>3 DEF UpdateStatus, Return
  <2>2. pass'[p].at = "idle" /\ \A q \in Pools \ {p} : pass'[q] = pass[q]
    BY <2>1 DEF TypeOK, Idle
  <2>3. \A q \in Pools : First(pool'[q])
    BY <1>1, <1>3, StoreFirst DEF UpdateStatus, PoolsFirst
  <2> QED
    BY <1>1, <2>1, <2>2, <2>3 DEF PoolsFirst, At
<1>4. ASSUME NEW p \in Pools, ReturnNow(p, TRUE) \/ ReturnNow(p, FALSE)
      PROVE  PoolsFirst'
  BY <1>1, <1>4, ReturnUndeleted DEF ReturnNow, Return, store, watch
<1>5. ASSUME NEW p \in Pools, SubmitFault(p) PROVE PoolsFirst'
  BY <1>1, <1>5, ReturnUndeleted DEF SubmitFault, Return, watch
<1>6. ASSUME Restart PROVE PoolsFirst'
  BY <1>6, RestartUndeleted DEF Undeleted, PoolsFirst
<1>7. ASSUME NEW p \in Pools, PrepareInstancePool(p) PROVE PoolsFirst'
  <2> DEFINE o == [pass[p].ip EXCEPT !.needed = pass[p].ip.count,
                        !.status = "tokenReady", !.requested = pass[p].ip.count]
  <2>1. First(o)
    BY <1>1, <1>7
       DEF PoolsFirst, PrepareInstancePool, At, First, TypeOK, Pass, InstancePoolObject
  <2>2. \/ Assign(p, o, "write", {}) /\ UNCHANGED pool
        \/ ReturnNow(p, TRUE) \/ ReturnNow(p, FALSE) \/ Restart
    BY <1>7 DEF PrepareInstancePool, Panic, store
  <2> HIDE DEF o
  <2> QED
    BY <1>1, <1>4, <1>6, <2>1, <2>2, AssignUndeleted
<1>8. ASSUME NEW p \in Pools, AcquireLock(p) \/ Lookup(p) \/ CreateInstance(p)
      PROVE  PoolsFirst'
  <2>1. \/ ReturnNow(p, TRUE) \/ Restart
        \/ UNCHANGED <<pool, cache>> /\ \E stage, left :
             pass' = [pass EXCEPT ![p].at = stage, ![p].left = left]
    <3>1. ASSUME AcquireLock(p)
          PROVE  /\ UNCHANGED <<pool, cache>>
                 /\ pass' = [pass EXCEPT ![p].at = "lookup", ![p].left = pass[p].left]
      BY <3>1 DEF AcquireLock, TypeOK, Pass, store, watch
    <3>2. ASSUME CreateInstance(p)
          PROVE  /\ UNCHANGED <<pool, cache>>
                 /\ pass' = [pass EXCEPT ![p].at = pass[p].at, ![p].left = pass[p].left - 1]
      BY <3>2 DEF CreateInstance, TypeOK, Pass, watch
    <3>3. ASSUME Lookup(p)
          PROVE  \/ ReturnNow(p, TRUE) \/ Restart
                 \/ UNCHANGED <<pool, cache>> /\ \E left :
                      pass' = [pass EXCEPT ![p].at = "create", ![p].left = left]
      BY <3>3 DEF Lookup, Panic, store, watch
    <3> QED
      BY <1>8, <3>1, <3>2, <3>3
  <2>2. ~At(p, {"idle"})
    BY <1>8 DEF AcquireLock, Lookup, CreateInstance, At
  <2>3. \/ ReturnNow(p, TRUE) \/ Restart
        \/ /\ UNCHANGED <<pool, cache>> /\ pass'[p].ip = pass[p].ip
           /\ \A q \in Pools \ {p} : pass'[q] = pass[q]
    <3>1. ASSUME NEW stage, NEW left,
                 pass' = [pass EXCEPT ![p].at = stage, ![p].left = left]
          PROVE  /\ pass'[p].ip = pass[p].ip
                 /\ \A q \in Pools \ {p} : pass'[q] = pass[q]
      BY <3>1 DEF TypeOK, Pass
    <3> QED
      BY <2>1, <3>1
  <2> QED
    BY <1>1, <1>4, <1>6, <2>2, <2>3 DEF PoolsFirst, At
<1>9. ASSUME NEW p \in Pools, FinishSubmit(p) PROVE PoolsFirst'
  <2>1. First(Submitted(pass[p].ip))
    BY <1>1, <1>9
       DEF PoolsFirst, FinishSubmit, Submitted, At, First, TypeOK, Pass, InstancePoolObject
  <2> QED
    BY <1>1, <1>9, <2>1, AssignUndeleted DEF FinishSubmit, store
<1>10. ASSUME NEW p \in Pools, ReconcileInstances(p) PROVE PoolsFirst'
  <2> DEFINE o == Reconciled(pass[p].ip, Cardinality(Managed(p)), Cardinality(Members(p)))
  <2>1. o.uid = pass[p].ip.uid /\ o.life = pass[p].ip.life
    BY ReconciledFirst DEF TypeOK, Pass
  <2>2. First(o)
    BY <1>1, <1>10, <2>1 DEF PoolsFirst, ReconcileInstances, At, First
  <2>3. Assign(p, o, "write", {}) /\ UNCHANGED pool
    BY <1>10 DEF ReconcileInstances, store
  <2> HIDE DEF o
  <2> QED
    BY <1>1, <2>2, <2>3, AssignUndeleted
<1>11. ASSUME NEW p \in Pools, ListInstances(p) PROVE PoolsFirst'
  <2> DEFINE o == [pass[p].ip EXCEPT !.status = "submitted"]
  <2>1. First(o)
    BY <1>1, <1>11
       DEF PoolsFirst, ListInstances, At, First, TypeOK, Pass, InstancePoolObject
  <2>2. CASE Surplus(p)
    <3>1. /\ ~At(p, {"idle"}) /\ UNCHANGED <<pool, cache>>
          /\ pass'[p].ip = pass[p].ip
          /\ \A q \in Pools \ {p} : pass'[q] = pass[q]
      BY <1>11, <2>2 DEF ListInstances, At, TypeOK, Pass, store
    <3> QED
      BY <1>1, <3>1 DEF PoolsFirst, At
  <2>3. CASE ~Surplus(p)
    <3>1. Assign(p, o, "write", {}) /\ UNCHANGED pool
      BY <1>11, <2>3 DEF ListInstances, store
    <3> HIDE DEF o
    <3> QED
      BY <1>1, <2>1, <3>1, AssignUndeleted
  <2> QED
    BY <2>2, <2>3
<1>12. ASSUME NEW p \in Pools, RemoveInstance(p) PROVE PoolsFirst'
  <2>1. PICK o, stage, items :
          \/ ReturnNow(p, TRUE) \/ Restart
          \/ Assign(p, o, stage, items) /\ UNCHANGED pool /\ First(o)
    <3> DEFINE ip == [pass[p].ip EXCEPT !.requested = @ - 1, !.needed = @ + 1]
               o == IF ip.needed >= 0 THEN [ip EXCEPT !.status = "submitted"] ELSE ip
               stage == IF ip.needed >= 0 THEN "write" ELSE "delete"
    <3>1. ip.uid = pass[p].ip.uid /\ ip.life = pass[p].ip.life
      BY DEF TypeOK, Pass, InstancePoolObject
    <3>2. o.uid = ip.uid /\ o.life = ip.life
      BY DEF TypeOK, Pass, InstancePoolObject
    <3>3. First(o)
      BY <1>1, <1>12, <3>1, <3>2 DEF PoolsFirst, RemoveInstance, At, First
    <3>4. \/ ReturnNow(p, TRUE) \/ Restart
          \/ \E n \in Names : Assign(p, o, stage, pass[p].items \ {n}) /\ UNCHANGED pool
      BY <1>12 DEF RemoveInstance, Panic
    <3> HIDE DEF o, stage
    <3> QED
      BY <3>3, <3>4
  <2> QED
    BY <1>1, <1>4, <1>6, <2>1, AssignUndeleted
<1>13. ASSUME NEW p \in Pools, Deliver(p) PROVE PoolsFirst'
  <2>1. \A q \in Pools : /\ cache'[q] \in {cache[q], pool[q]}
                         /\ pass'[q].at = pass[q].at /\ pass'[q].ip = pass[q].ip
    BY <1>13 DEF Deliver, TypeOK, Pass
  <2> QED
    BY <1>1, <1>13, <2>1 DEF Deliver, PoolsFirst, At, store
<1>14. ASSUME NEW p \in Pools, NEW c \in Counts, EditCount(p, c) PROVE PoolsFirst'
  <2>1. UNCHANGED <<cache, pass>> /\ pool' = [pool EXCEPT ![p].count = c]
    BY <1>14 DEF EditCount, ChangePool, TypeOK
  <2>2. \A q \in Pools : pool'[q].life = pool[q].life /\ pool'[q].uid = pool[q].uid
    BY <2>1 DEF TypeOK, InstancePoolObject
  <2> QED
    BY <1>1, <2>1, <2>2 DEF PoolsFirst, First, At
<1>15. ASSUME NEW p \in Pools
       PROVE  ~DeletePool(p) /\ ~RemovePool(p) /\ \A c \in Counts : ~CreatePool(p, c)
  BY <1>1 DEF CreatePool, DeletePool, RemovePool, Disturb, PoolsFirst, First, Undisturbed
<1>16. ASSUME NEW p \in Pools PROVE ~Fault(p)
  BY DEF Fault, Disturb, Undisturbed
<1>17. ASSUME UNCHANGED <<pool, cache, pass>> PROVE PoolsFirst'
  BY <1>1, <1>17 DEF PoolsFirst, At
<1>18. ASSUME NEW p \in Pools, PoolStep(p) PROVE PoolsFirst'
  <2>1. ReconcileNodePool(p) => UNCHANGED <<pool, cache, pass>>
    BY DEF ReconcileNodePool, store
  <2>2. RejectNetworkType(p) => ReturnNow(p, TRUE)
    BY DEF RejectNetworkType
  <2> QED
    BY <1>2, <1>3, <1>4, <1>5, <1>7, <1>8, <1>9, <1>10, <1>11, <1>12, <1>13, <1>14,
       <1>15, <1>16, <1>17, <1>18, <2>1, <2>2 DEF PoolStep, Handle
<1>19. ASSUME NEW n \in Names, InstanceStep(n) PROVE UNCHANGED <<pool, cache, pass>>
  BY <1>19
     DEF InstanceStep, Provision, Manage, Finalize, Heartbeat, Collect, Evict, Rest
<1>20. Repair \/ Resync \/ UNCHANGED vars => UNCHANGED <<pool, cache, pass>>
  BY DEF Repair, Resync, vars, store, watch
<1> QED
  BY <1>6, <1>17, <1>18, <1>19, <1>20 DEF Next, Crash

(* Which Instances there are: a step alters or removes one, or adds one.   *)
Alters(n) ==
  \E o : /\ inst' = [inst EXCEPT ![n] = o]
         /\ \/ o = Absent
            \/ inst[n] # Absent /\ o.owner = inst[n].owner /\ o.uid = inst[n].uid

LEMMA DeleteAlters ==
  ASSUME TypeOK, NEW n \in Names, inst[n] # Absent, DeleteInstance(n)
  PROVE  Alters(n)
<1>1. CASE inst' = [inst EXCEPT ![n] = Absent]
  BY <1>1 DEF Alters
<1>2. CASE inst' = [inst EXCEPT ![n].deleting = TRUE]
  <2> DEFINE o == [inst[n] EXCEPT !.deleting = TRUE]
  <2>1. o.owner = inst[n].owner /\ o.uid = inst[n].uid
    BY DEF TypeOK, InstanceObject
  <2>2. inst' = [inst EXCEPT ![n] = o]
    BY <1>2
  <2> HIDE DEF o
  <2> QED
    BY <2>1, <2>2 DEF Alters
<1> QED
  BY <1>1, <1>2 DEF DeleteInstance

LEMMA PhaseAlters ==
  ASSUME TypeOK, NEW n \in Names, inst[n] # Absent, NEW phase,
         inst' = [inst EXCEPT ![n].phase = phase]
  PROVE  Alters(n)
<1> DEFINE o == [inst[n] EXCEPT !.phase = phase]
<1>1. o.owner = inst[n].owner /\ o.uid = inst[n].uid
  BY DEF TypeOK, InstanceObject
<1>2. inst' = [inst EXCEPT ![n] = o]
  OBVIOUS
<1> HIDE DEF o
<1> QED
  BY <1>1, <1>2 DEF Alters

Shrinking == \A p \in Pools : pass'[p].items \subseteq pass[p].items

LEMMA AltersOwn ==
  ASSUME TypeOK, InstancesFirst, ItemsOwn, NEW n \in Names, Alters(n), Shrinking
  PROVE  (InstancesFirst /\ ItemsOwn)'
<1>1. PICK o : /\ inst' = [inst EXCEPT ![n] = o]
               /\ \/ o = Absent
                  \/ inst[n] # Absent /\ o.owner = inst[n].owner /\ o.uid = inst[n].uid
  BY DEF Alters
<1>2. inst'[n] = o /\ \A m \in Names \ {n} : inst'[m] = inst[m]
  BY <1>1 DEF TypeOK
<1>3. Absent.owner = NoPool
  BY DEF Absent
<1>4. \A p \in Pools : pass[p].items \subseteq Names
  BY DEF TypeOK, Pass
<1>5. InstancesFirst'
  BY <1>1, <1>2 DEF InstancesFirst
<1>6. ItemsOwn'
  BY <1>1, <1>2, <1>3, <1>4 DEF ItemsOwn, Shrinking
<1> QED
  BY <1>5, <1>6

LEMMA FrameOwn ==
  ASSUME InstancesFirst, ItemsOwn, UNCHANGED inst, Shrinking
  PROVE  (InstancesFirst /\ ItemsOwn)'
BY DEF InstancesFirst, ItemsOwn, Shrinking

LEMMA AddOwn ==
  ASSUME TypeOK, InstancesFirst, ItemsOwn, NEW p \in Pools, First(pass[p].ip),
         AddInstance(p), Shrinking
  PROVE  (InstancesFirst /\ ItemsOwn)'
<1>1. PICK n \in Unused :
        inst' = [inst EXCEPT ![n] = [phase |-> "created", owner |-> p,
                                     uid |-> pass[p].ip.uid, deleting |-> FALSE]]
  BY DEF AddInstance
<1>2. /\ inst'[n].uid = 1 /\ \A m \in Names \ {n} : inst'[m] = inst[m]
      /\ \A q \in Pools : n \notin pass[q].items
  BY <1>1 DEF Unused, TypeOK, First
<1>3. \A q \in Pools : pass[q].items \subseteq Names
  BY DEF TypeOK, Pass
<1> QED
  BY <1>2, <1>3 DEF InstancesFirst, ItemsOwn, Shrinking

LEMMA PassesShrink ==
  ASSUME TypeOK, NEW p \in Pools
  PROVE  /\ pass' = [pass EXCEPT ![p] = Idle] => Shrinking
         /\ UNCHANGED pass => Shrinking
         /\ Start(p) \/ AcquireLock(p) \/ Deliver(p) => Shrinking
         /\ \A o, stage, items : Assign(p, o, stage, items) /\ items \subseteq pass[p].items => Shrinking
<1>1. Idle.items = {}
  BY DEF Idle
<1>2. pass' = [pass EXCEPT ![p] = Idle] => Shrinking
  BY <1>1 DEF TypeOK, Shrinking
<1>3. UNCHANGED pass => Shrinking
  BY DEF Shrinking
<1>4. Start(p) => Shrinking
  <2>1. Start(p) => /\ pass'[p].items = {}
                    /\ \A q \in Pools \ {p} : pass'[q] = pass[q]
    BY <1>1 DEF Start, TypeOK, Idle
  <2> QED
    BY <2>1 DEF Shrinking
<1>5. AcquireLock(p) \/ Deliver(p) => Shrinking
  <2>1. ASSUME NEW stage, pass' = [pass EXCEPT ![p].at = stage] PROVE Shrinking
    BY <2>1 DEF TypeOK, Pass, Shrinking
  <2>2. ASSUME NEW b, pass' = [pass EXCEPT ![p].shared = b] PROVE Shrinking
    BY <2>2 DEF TypeOK, Pass, Shrinking
  <2> QED
    BY <2>1, <2>2 DEF AcquireLock, Deliver
<1>6. ASSUME NEW o, NEW stage, NEW items, Assign(p, o, stage, items),
             items \subseteq pass[p].items
      PROVE  Shrinking
  BY <1>6 DEF Assign, TypeOK, Pass, Shrinking
<1> QED
  BY <1>2, <1>3, <1>4, <1>5, <1>6

LEMMA OwnNext ==
  ASSUME Undisturbed, TypeOK, Undeleted, [Next]_vars
  PROVE  (InstancesFirst /\ ItemsOwn)'
<1> DEFINE Own == InstancesFirst' /\ ItemsOwn'
<1>1. PoolsFirst /\ InstancesFirst /\ ItemsOwn
  BY UndeletedParts
<1>2. ASSUME NEW p \in Pools, pass' = [pass EXCEPT ![p] = Idle], UNCHANGED inst
      PROVE  Own
  BY <1>1, <1>2, PassesShrink, FrameOwn
<1>3. ASSUME Restart PROVE Own
  BY <1>3, RestartUndeleted DEF Undeleted, InstancesFirst, ItemsOwn
<1>4. ASSUME NEW p \in Pools, NEW o, NEW stage, Assign(p, o, stage, {}), UNCHANGED inst
      PROVE  Own
  BY <1>1, <1>4, PassesShrink, FrameOwn
<1>5. ASSUME NEW p \in Pools,
             Start(p) \/ AcquireLock(p) \/ Deliver(p) \/ ReconcileNodePool(p)
      PROVE  Own
  BY <1>1, <1>5, PassesShrink, FrameOwn
     DEF Start, AcquireLock, Deliver, ReconcileNodePool, store
<1>6. ASSUME NEW p \in Pools, UpdateStatus(p) \/ RejectNetworkType(p) PROVE Own
  BY <1>2, <1>6 DEF UpdateStatus, RejectNetworkType, ReturnNow, Return, store
<1>7. ASSUME NEW p \in Pools, PrepareInstancePool(p) \/ FinishSubmit(p) PROVE Own
  BY <1>2, <1>3, <1>4, <1>7
     DEF PrepareInstancePool, FinishSubmit, ReturnNow, Return, Panic, store
<1>8. ASSUME NEW p \in Pools, Lookup(p) PROVE Own
  <2>1. CASE pass' = [pass EXCEPT ![p].at = "create", ![p].left = pass[p].ip.needed]
             /\ UNCHANGED inst
    <3>1. Shrinking
      BY <2>1 DEF TypeOK, Pass, Shrinking
    <3> QED
      BY <1>1, <2>1, <3>1, FrameOwn
  <2> QED
    BY <1>2, <1>3, <1>8, <2>1 DEF Lookup, ReturnNow, Return, Panic, store
<1>9. ASSUME NEW p \in Pools, CreateInstance(p) \/ SubmitFault(p) PROVE Own
  <2>1. Shrinking
    <3>1. CASE pass' = [pass EXCEPT ![p].left = @ - 1]
      BY <3>1 DEF TypeOK, Pass, Shrinking
    <3> QED
      BY <1>9, <3>1, PassesShrink DEF CreateInstance, SubmitFault, Return
  <2>2. UNCHANGED inst \/ AddInstance(p)
    BY <1>9 DEF CreateInstance, SubmitFault
  <2>3. First(pass[p].ip)
    BY <1>1, <1>9 DEF CreateInstance, SubmitFault, At, PoolsFirst
  <2> QED
    BY <1>1, <2>1, <2>2, <2>3, FrameOwn, AddOwn
<1>10. ASSUME NEW p \in Pools, ReconcileInstances(p) PROVE Own
  BY <1>4, <1>10 DEF ReconcileInstances, store
<1>11. ASSUME NEW p \in Pools, ListInstances(p) PROVE Own
  <2>1. CASE Surplus(p)
    <3>1. /\ UNCHANGED inst /\ pass'[p].items = Members(p)
          /\ \A q \in Pools \ {p} : pass'[q] = pass[q]
      BY <1>11, <2>1 DEF ListInstances, TypeOK, Pass, store
    <3> QED
      BY <1>1, <3>1 DEF InstancesFirst, ItemsOwn, Members
  <2> QED
    BY <1>4, <1>11, <2>1 DEF ListInstances, store
<1>12. ASSUME NEW p \in Pools, RemoveInstance(p) PROVE Own
  <2>1. CASE \E n \in Names : /\ inst[n] # Absent /\ DeleteInstance(n)
                             /\ \E o, stage : Assign(p, o, stage, pass[p].items \ {n})
    <3>1. PICK n \in Names : /\ inst[n] # Absent /\ DeleteInstance(n)
                             /\ \E o, stage : Assign(p, o, stage, pass[p].items \ {n})
      BY <2>1
    <3>2. pass[p].items \ {n} \subseteq pass[p].items
      OBVIOUS
    <3>3. Shrinking
      BY <3>1, <3>2, PassesShrink
    <3> QED
      BY <1>1, <3>1, <3>3, DeleteAlters, AltersOwn
  <2>2. \/ ReturnNow(p, TRUE) \/ Panic
        \/ \E n \in Names : /\ inst[n] # Absent /\ DeleteInstance(n)
                            /\ \E o, stage : Assign(p, o, stage, pass[p].items \ {n})
    BY <1>12 DEF RemoveInstance
  <2> QED
    BY <1>2, <1>3, <2>1, <2>2 DEF ReturnNow, Return, Panic, store
<1>13. ASSUME NEW p \in Pools, NEW c \in Counts,
              EditCount(p, c) \/ CreatePool(p, c)
       PROVE  Own
  BY <1>1, <1>13, PassesShrink, FrameOwn DEF EditCount, CreatePool, ChangePool
<1>14. ASSUME NEW p \in Pools, DeletePool(p) \/ RemovePool(p) PROVE Own
  BY <1>1, <1>14, PassesShrink, FrameOwn DEF DeletePool, RemovePool, ChangePool
<1>15. ASSUME NEW p \in Pools PROVE ~Fault(p)
  BY DEF Fault, Disturb, Undisturbed
<1>16. ASSUME NEW n \in Names, InstanceStep(n) PROVE Own
  <2>1. Shrinking
    BY <1>16
       DEF InstanceStep, Provision, Manage, Finalize, Heartbeat, Collect, Evict, Rest, Shrinking
  <2>2. ASSUME Provision(n) \/ Manage(n) PROVE Own
    <3>1. inst[n] # Absent /\ \E phase : inst' = [inst EXCEPT ![n].phase = phase]
      BY <2>2 DEF Provision, Manage, Absent
    <3> QED
      BY <1>1, <2>1, <3>1, PhaseAlters, AltersOwn
  <2>3. ASSUME Finalize(n) PROVE Own
    <3>1. Alters(n)
      BY <2>3 DEF Finalize, Alters
    <3> QED
      BY <1>1, <2>1, <3>1, AltersOwn
  <2>4. ASSUME Collect(n) \/ Evict(n) PROVE Own
    <3>1. inst[n] # Absent /\ DeleteInstance(n)
      BY <2>4 DEF Collect, Evict
    <3> QED
      BY <1>1, <2>1, <3>1, DeleteAlters, AltersOwn
  <2>5. ASSUME Heartbeat(n) PROVE Own
    BY <1>1, <2>1, <2>5, FrameOwn DEF Heartbeat
  <2> QED
    BY <1>16, <2>2, <2>3, <2>4, <2>5 DEF InstanceStep
<1>17. Repair \/ Resync \/ UNCHANGED vars => UNCHANGED <<inst, pass>>
  BY DEF Repair, Resync, vars, store
<1>18. ASSUME UNCHANGED <<inst, pass>> PROVE Own
  BY <1>1, <1>18 DEF InstancesFirst, ItemsOwn
<1> QED
  BY <1>3, <1>5, <1>6, <1>7, <1>8, <1>9, <1>10, <1>11, <1>12, <1>13, <1>14, <1>15,
     <1>16, <1>17, <1>18 DEF Next, PoolStep, Handle, Crash

LEMMA UndeletedNext ==
  ASSUME Undisturbed, TypeOK, Undeleted, [Next]_vars
  PROVE  Undeleted'
<1>1. config' \in {config, "ok"}
  <2>1. ASSUME NEW p \in Pools, PoolStep(p) PROVE UNCHANGED config
    BY <2>1
       DEF PoolStep, Handle, Start, AcquireLock, UpdateStatus, PrepareInstancePool, Lookup,
           CreateInstance, RejectNetworkType, FinishSubmit, ReconcileInstances,
           ListInstances, RemoveInstance, Fault, SubmitFault, Deliver, ReconcileNodePool,
           EditCount, CreatePool, DeletePool, RemovePool, Assign, ReturnNow, Panic,
           Restart, Disturb, world
  <2>2. ASSUME NEW n \in Names, InstanceStep(n) PROVE UNCHANGED config
    BY <2>2
       DEF InstanceStep, Provision, Manage, Finalize, Heartbeat, Collect, Evict,
           Disturb, world
  <2> QED
    BY <2>1, <2>2 DEF Next, Repair, Crash, Restart, Resync, Disturb, vars, world
<1>2. (config # "noToken")'
  BY <1>1 DEF Undeleted
<1> QED
  BY <1>2, PoolsFirstNext, OwnNext DEF Undeleted, PoolsFirst, InstancesFirst, ItemsOwn

-----------------------------------------------------------------------------
(***************************************************************************)
(* Settling, under the steps of others: whoever changes what a pass over p *)
(* counts also wakes p, and nobody else takes p out of the queue.          *)
(***************************************************************************)
KeepsCount(p) == Members(p)' = Members(p) /\ Managed(p)' = Managed(p)

LEMMA Calm ==
  ASSUME NEW p \in Pools, Settling(p),
         pool'[p] = pool[p], cache'[p] = cache[p], stale'[p] = stale[p],
         pass'[p] = pass[p],
         Woken(p) => Woken(p)', Woken(p)' \/ KeepsCount(p)
  PROVE  Settling(p)'
<1>1. CASE Woken(p)'
  BY <1>1
     DEF Settling, Chosen, Faithful, Outcome, Rests, At, Writing, Current
<1>2. CASE ~(Woken(p)') /\ KeepsCount(p)
  <2>1. Counted(p, pool[p])' = Counted(p, pool[p])
    BY <1>2 DEF Counted, KeepsCount
  <2>2. ~Woken(p)
    BY <1>2
  <2> QED
    BY <1>2, <2>1, <2>2
       DEF Settling, Chosen, Faithful, Outcome, Rests, AtRest, At, Writing, Current
<1> QED
  BY <1>1, <1>2

LEMMA AlterKeeps ==
  ASSUME TypeOK, NEW p \in Pools, NEW n \in Names, NEW o,
         inst' = [inst EXCEPT ![n] = o],
         (o.owner = p) <=> (inst[n].owner = p),
         o.owner = p => ((o.phase = "managed") <=> (inst[n].phase = "managed"))
  PROVE  KeepsCount(p)
<1>1. inst'[n] = o /\ \A m \in Names \ {n} : inst'[m] = inst[m]
  BY DEF TypeOK
<1>2. Members(p)' = Members(p)
  BY <1>1 DEF Members
<1>3. Managed(p)' = Managed(p)
  BY <1>1, <1>2 DEF Members, Managed
<1> QED
  BY <1>2, <1>3 DEF KeepsCount

LEMMA FrameKeeps ==
  ASSUME NEW p \in Pools, UNCHANGED inst
  PROVE  KeepsCount(p)
BY DEF KeepsCount, Members, Managed

LEMMA AbsentOwner == Absent.owner = NoPool /\ NoPool \notin Pools
BY ConstantsAssumption DEF Absent

(* Another pool's pass adds and removes only Instances of that pool.       *)
LEMMA OthersInstances ==
  ASSUME TypeOK, ItemsOwn, NEW p \in Pools, NEW q \in Pools \ {p}
  PROVE  /\ AddInstance(q) => KeepsCount(p)
         /\ \A n \in pass[q].items :
              inst[n] # Absent /\ DeleteInstance(n) =>
                KeepsCount(p) /\ notify \subseteq notify'
<1>1. ASSUME AddInstance(q) PROVE KeepsCount(p)
  <2>1. PICK n \in Unused :
          inst' = [inst EXCEPT ![n] = [phase |-> "created", owner |-> q,
                                       uid |-> pass[q].ip.uid, deleting |-> FALSE]]
    BY <1>1 DEF AddInstance
  <2>2. n \in Names /\ inst[n].owner # p
    BY <2>1, AbsentOwner DEF Unused
  <2> QED
    BY <2>1, <2>2, AlterKeeps
<1>2. ASSUME NEW n \in pass[q].items, inst[n] # Absent, DeleteInstance(n)
      PROVE  KeepsCount(p) /\ notify \subseteq notify'
  <2>1. n \in Names /\ inst[n].owner # p
    BY AbsentOwner DEF ItemsOwn, TypeOK, Pass
  <2>2. PICK o : inst' = [inst EXCEPT ![n] = o]
                 /\ (o = Absent \/ o.owner = inst[n].owner)
    BY <1>2, <2>1, DeleteAlters DEF Alters
  <2>3. o.owner # p
    BY <2>1, <2>2, AbsentOwner
  <2>4. KeepsCount(p)
    BY <2>1, <2>2, <2>3, AlterKeeps
  <2> QED
    BY <1>2, <2>4 DEF DeleteInstance
<1> QED
  BY <1>1, <1>2

LEMMA OthersStep ==
  ASSUME Undisturbed, TypeOK, Undeleted, NEW p \in Pools, NEW q \in Pools \ {p},
         PoolStep(q)
  PROVE  Restart \/ (KeepsCount(p) /\ (Woken(p) => Woken(p)'))
<1> DEFINE Good == KeepsCount(p) /\ (Woken(p) => Woken(p)')
<1>1. ItemsOwn
  BY UndeletedParts
<1>2. ASSUME UNCHANGED <<inst, notify>>, queue \ {q} \subseteq queue' PROVE Good
  BY <1>2, FrameKeeps DEF Woken
<1>3. ASSUME Start(q) \/ AcquireLock(q) \/ UpdateStatus(q) \/ RejectNetworkType(q)
      PROVE  Good
  BY <1>2, <1>3
     DEF Start, AcquireLock, UpdateStatus, RejectNetworkType, ReturnNow, Return, store, watch
<1>4. ASSUME NEW o, NEW stage, NEW items, Assign(q, o, stage, items), UNCHANGED <<store, notify>>
      PROVE  Good
  BY <1>2, <1>4 DEF Assign, store
<1>5. ASSUME ReturnNow(q, TRUE) \/ ReturnNow(q, FALSE) PROVE Good
  BY <1>2, <1>5 DEF ReturnNow, Return, store, watch
<1>6. ASSUME PrepareInstancePool(q) \/ FinishSubmit(q) \/ ReconcileInstances(q)
      PROVE  Restart \/ Good
  BY <1>4, <1>5, <1>6 DEF PrepareInstancePool, FinishSubmit, ReconcileInstances, Panic
<1>7. ASSUME Lookup(q) PROVE Restart \/ Good
  BY <1>2, <1>5, <1>7 DEF Lookup, Panic, store, watch
<1>8. ASSUME CreateInstance(q) \/ SubmitFault(q) PROVE Good
  <2>1. UNCHANGED inst \/ AddInstance(q)
    BY <1>8 DEF CreateInstance, SubmitFault
  <2>2. KeepsCount(p)
    BY <1>1, <2>1, OthersInstances, FrameKeeps
  <2>3. queue \subseteq queue' /\ UNCHANGED notify
    BY <1>8 DEF CreateInstance, SubmitFault, Return, watch
  <2> QED
    BY <2>2, <2>3 DEF Woken
<1>9. ASSUME ListInstances(q) PROVE Good
  BY <1>2, <1>4, <1>9 DEF ListInstances, store
<1>10. ASSUME RemoveInstance(q) PROVE Restart \/ Good
  <2>1. \/ ReturnNow(q, TRUE) \/ Restart
        \/ \E n \in pass[q].items :
             inst[n] # Absent /\ DeleteInstance(n) /\ UNCHANGED queue
    BY <1>10 DEF RemoveInstance, Panic, IsLast, Assign
  <2> QED
    BY <1>1, <1>5, <2>1, OthersInstances DEF Woken
<1>11. ASSUME Deliver(q) \/ ReconcileNodePool(q) PROVE Good
  <2>1. UNCHANGED inst /\ queue \subseteq queue' /\ notify \ {q} \subseteq notify'
    BY <1>11 DEF Deliver, ReconcileNodePool, store
  <2> QED
    BY <2>1, FrameKeeps DEF Woken
<1>12. ASSUME \/ \E c \in Counts : EditCount(q, c) \/ CreatePool(q, c)
              \/ DeletePool(q) \/ RemovePool(q)
       PROVE  Good
  BY <1>2, <1>12 DEF EditCount, CreatePool, DeletePool, RemovePool, ChangePool
<1>13. ~Fault(q)
  BY DEF Fault, Disturb, Undisturbed
<1> QED
  BY <1>3, <1>6, <1>7, <1>8, <1>9, <1>10, <1>11, <1>12, <1>13 DEF PoolStep, Handle

LEMMA InstancesStep ==
  ASSUME Undisturbed, TypeOK, Undeleted, NEW p \in Pools, NEW n \in Names,
         InstanceStep(n)
  PROVE  (Woken(p) => Woken(p)') /\ (Woken(p)' \/ KeepsCount(p))
<1>1. UNCHANGED queue /\ notify \subseteq notify'
  BY DEF InstanceStep, Provision, Manage, Finalize, Heartbeat, Collect, Evict, Rest,
         DeleteInstance
<1>2. CASE Provision(n)
  <2> DEFINE o == [inst[n] EXCEPT !.phase = "pending"]
  <2>1. inst[n] \in InstanceObject
    BY <1>2 DEF Provision, TypeOK, Absent
  <2>2. o.owner = inst[n].owner /\ o.phase = "pending" /\ inst[n].phase = "created"
    BY <1>2, <2>1 DEF Provision, InstanceObject
  <2>3. inst' = [inst EXCEPT ![n] = o]
    BY <1>2 DEF Provision
  <2> HIDE DEF o
  <2> QED
    BY <1>1, <2>2, <2>3, AlterKeeps DEF Woken
<1>3. CASE Manage(n)
  <2> DEFINE o == [inst[n] EXCEPT !.phase = "managed"]
  <2>1. inst[n] \in InstanceObject
    BY <1>3 DEF Manage, TypeOK, Absent
  <2>2. o.owner = inst[n].owner
    BY <2>1 DEF InstanceObject
  <2>3. inst' = [inst EXCEPT ![n] = o] /\ inst[n].owner \in notify'
    BY <1>3 DEF Manage
  <2> HIDE DEF o
  <2> QED
    BY <1>1, <2>2, <2>3, AlterKeeps DEF Woken
<1>4. CASE Finalize(n)
  <2>1. inst' = [inst EXCEPT ![n] = Absent] /\ inst[n].owner \in notify'
    BY <1>4 DEF Finalize
  <2> QED
    BY <1>1, <2>1, AlterKeeps, AbsentOwner DEF Woken
<1>5. CASE Heartbeat(n)
  BY <1>1, <1>5, FrameKeeps DEF Heartbeat, Woken
<1>6. ~Collect(n)
  <2>1. inst[n] # Absent => Owned(n)
    BY DEF Undeleted, First, Owned, TypeOK, InstanceObject
  <2> QED
    BY <2>1 DEF Collect
<1>7. CASE Evict(n)
  <2> DEFINE o == [inst[n] EXCEPT !.deleting = TRUE]
  <2>1. inst[n] \in InstanceObject
    BY <1>7 DEF Evict, TypeOK
  <2>2. o.owner = inst[n].owner /\ o.phase = inst[n].phase
    BY <2>1 DEF InstanceObject
  <2>3. inst' = [inst EXCEPT ![n] = o]
    BY <1>7 DEF Evict, DeleteInstance, Disturb, Undisturbed
  <2> HIDE DEF o
  <2> QED
    BY <1>1, <2>2, <2>3, AlterKeeps DEF Woken
<1> QED
  BY <1>2, <1>3, <1>4, <1>5, <1>6, <1>7 DEF InstanceStep

-----------------------------------------------------------------------------
(***************************************************************************)
(* Settling of p, under the steps of its own pass, the watch and edits.    *)
(***************************************************************************)

(* A handler goes on, or ends with an error, before it assigns a status.   *)
LEMMA Advances ==
  ASSUME NEW p \in Pools, Settling(p), ~Writing(p),
         pool'[p] = pool[p], cache'[p] = cache[p], stale'[p] = stale[p],
         Chosen(p)',
         \/ ~At(p, {"idle", "write", "publish"})'
         \/ At(p, {"idle"})' /\ p \in queue'
  PROVE  Settling(p)'
BY DEF Settling, Chosen, Faithful, Outcome, Rests, At, Writing, Woken

LEMMA Fails ==
  ASSUME TypeOK, NEW p \in Pools, Settling(p), ~Writing(p),
         pass' = [pass EXCEPT ![p] = Idle], queue' = queue \cup {p},
         UNCHANGED <<pool, cache, stale>>
  PROVE  Settling(p)'
<1>1. pass'[p].at = "idle"
  BY DEF TypeOK, Idle
<1> QED
  BY <1>1, Advances DEF Chosen, At

(* The handler assigns the status it will write, or on the way to it.      *)
LEMMA Assigns ==
  ASSUME TypeOK, VersionInv, NEW p \in Pools, Settling(p), ~Writing(p),
         NEW o, NEW items, Assign(p, o, "write", items) \/ Assign(p, o, "publish", items),
         UNCHANGED pool,
         Current(p) /\ o.status = pool[p].status =>
           Reconciling(pool[p]) /\ o = Counted(p, pool[p])'
  PROVE  Settling(p)'
<1>1. /\ pass'[p].ip = o /\ pass'[p].at \in {"write", "publish"}
      /\ pass'[p].shared = pass[p].shared /\ UNCHANGED <<pool, stale>>
      /\ ~pass[p].shared => cache'[p] = cache[p]
  BY DEF Assign, TypeOK, Pass
<1>2. Chosen(p)' /\ Rests(p)'
  BY <1>1 DEF Chosen, Rests, At
<1>3. Faithful(p)'
  BY <1>1 DEF Settling, Faithful, Writing, At
<1>4. Outcome(p)'
  BY <1>1 DEF Outcome, Current
<1> QED
  BY <1>2, <1>3, <1>4 DEF Settling

(* What is stored if the write is accepted, and where it leaves p.         *)
LEMMA UpdateStep ==
  ASSUME TypeOK, VersionInv, Undeleted, NEW p \in Pools, Settling(p), UpdateStatus(p)
  PROVE  Settling(p)'
<1>1. /\ pass'[p].at = "idle" /\ Writing(p) /\ UNCHANGED <<inst, cache, notify>>
      /\ queue' = IF ~Current(p) THEN queue \cup {p} ELSE queue
  BY DEF UpdateStatus, Return, Writing, TypeOK, Idle
<1>2. CASE Current(p)
  <2>1. /\ pool'[p] = Written(p) /\ stale'[p] = (pool'[p] # pool[p])
        /\ queue' = queue
    BY <1>1, <1>2 DEF UpdateStatus, Store, Written, TypeOK
  <2>2. /\ pass[p].ip = cache[p] /\ cache[p].count = pool[p].count
        /\ cache[p].uid = pool[p].uid /\ cache[p].life = pool[p].life
    BY <1>2 DEF Current, VersionInv, FromVersion, Undeleted, First
  <2>3. Written(p) = pass[p].ip
    BY <2>2 DEF Written, TypeOK, Pass, InstancePoolObject
  <2>4. cache'[p] = pool'[p]
    BY <1>1, <2>1, <2>2, <2>3
  <2>5. Chosen(p)' /\ Faithful(p)' /\ Outcome(p)'
    BY <1>1, <2>4 DEF Chosen, Faithful, Outcome, Writing, At
  <2>6. ASSUME ~stale'[p], ~(Woken(p)') PROVE AtRest(p)'
    <3>1. pool'[p] = pool[p] /\ pass[p].ip = pool[p] /\ ~Woken(p)
      BY <1>1, <2>1, <2>3, <2>6 DEF Woken
    <3>2. Reconciling(pool[p]) /\ pool[p] = Counted(p, pool[p])
      BY <1>1, <1>2, <3>1 DEF Settling, Outcome
    <3>3. Counted(p, pool[p])' = Counted(p, pool[p])
      BY <1>1, <3>1 DEF Counted, Members, Managed
    <3> QED
      BY <3>1, <3>2, <3>3 DEF AtRest
  <2> QED
    BY <2>5, <2>6 DEF Settling, Rests
<1>3. CASE ~Current(p)
  <2>1. UNCHANGED <<pool, stale>> /\ p \in queue'
    BY <1>1, <1>3 DEF UpdateStatus
  <2>2. Faithful(p)'
    BY <1>1, <1>3, <2>1 DEF Settling, Faithful, Current
  <2> QED
    BY <1>1, <2>1, <2>2 DEF Settling, Chosen, Outcome, Rests, Writing, At, Woken
<1> QED
  BY <1>2, <1>3

(* The status of the handler's object is the stored one as long as its     *)
(* write would be accepted.                                                *)
LEMMA CurrentStatus ==
  ASSUME VersionInv, NEW p \in Pools, Settling(p), ~Writing(p), Current(p)
  PROVE  /\ pass[p].ip = cache[p] /\ pass[p].ip.status = pool[p].status
         /\ Reconciling(pool[p]) => pass[p].ip = pool[p]
BY DEF VersionInv, FromVersion, Settling, Faithful, Current

LEMMA StartStep ==
  ASSUME TypeOK, Undeleted, NEW p \in Pools, Settling(p), Start(p)
  PROVE  Settling(p)'
<1>1. cache[p].status \in Statuses /\ cache[p].life = "live"
  BY DEF TypeOK, InstancePoolObject, Undeleted, First
<1>2. /\ pass'[p].at = Handler(cache[p].status) /\ pass'[p].ip = cache[p]
      /\ UNCHANGED <<pool, cache, stale>> /\ ~Writing(p)
  BY <1>1 DEF Start, TypeOK, Idle, Busy, Writing, At, store, watch
<1>3. /\ Handler(cache[p].status) \in {"prepare", "lock", "list", "listRemove"}
      /\ Handler(cache[p].status) = "prepare" => cache[p].status = ""
      /\ Handler(cache[p].status) = "lock" => cache[p].status = "tokenReady"
  BY <1>1 DEF Handler, Statuses
<1> QED
  BY <1>2, <1>3, Advances DEF Chosen, At

LEMMA SubmitSteps ==
  ASSUME TypeOK, NEW p \in Pools, Settling(p),
         \/ AcquireLock(p) \/ Lookup(p) \/ CreateInstance(p) \/ SubmitFault(p)
         \/ RejectNetworkType(p)
  PROVE  Restart \/ Settling(p)'
<1>1. ~Writing(p)
  BY DEF AcquireLock, Lookup, CreateInstance, SubmitFault, RejectNetworkType, Writing, At
<1>2. ASSUME SubmitFault(p) \/ ReturnNow(p, TRUE) PROVE Settling(p)'
  BY <1>1, <1>2, Fails DEF SubmitFault, ReturnNow, Return, store, watch
<1>3. ASSUME UNCHANGED <<pool, cache, stale>>, At(p, {"lock", "lookup", "create"}),
             NEW stage \in {"lookup", "create"}, NEW left,
             pass' = [pass EXCEPT ![p].at = stage, ![p].left = left]
      PROVE  Settling(p)'
  <2>1. pass'[p].at = stage /\ pass'[p].ip = pass[p].ip
    BY <1>3 DEF TypeOK, Pass
  <2> QED
    BY <1>1, <1>3, <2>1, Advances DEF Settling, Chosen, At
<1>4. ASSUME AcquireLock(p) PROVE Settling(p)'
  <2>1. pass' = [pass EXCEPT ![p].at = "lookup", ![p].left = pass[p].left]
    BY <1>4 DEF AcquireLock, TypeOK, Pass
  <2> QED
    BY <1>3, <1>4, <2>1 DEF AcquireLock, At, store, watch
<1>5. ASSUME CreateInstance(p) PROVE Settling(p)'
  <2>1. pass' = [pass EXCEPT ![p].at = "create", ![p].left = pass[p].left - 1]
    BY <1>5 DEF CreateInstance, At, TypeOK, Pass
  <2> QED
    BY <1>3, <1>5, <2>1 DEF CreateInstance, At, watch
<1>6. ASSUME Lookup(p) PROVE Restart \/ Settling(p)'
  BY <1>2, <1>3, <1>6 DEF Lookup, Panic, At, store, watch
<1> QED
  BY <1>2, <1>4, <1>5, <1>6 DEF RejectNetworkType

LEMMA PrepareStep ==
  ASSUME TypeOK, VersionInv, Undeleted, NEW p \in Pools, Settling(p),
         PrepareInstancePool(p)
  PROVE  Restart \/ Settling(p)'
<1> DEFINE o == [pass[p].ip EXCEPT !.needed = pass[p].ip.count,
                      !.status = "tokenReady", !.requested = pass[p].ip.count]
<1>1. ~Writing(p) /\ pass[p].ip.status = "" /\ config # "noToken"
  BY DEF PrepareInstancePool, Writing, At, Settling, Chosen, Undeleted
<1>2. o.status = "tokenReady"
  BY DEF TypeOK, Pass, InstancePoolObject
<1>3. \/ Assign(p, o, "write", {}) /\ UNCHANGED pool
      \/ ReturnNow(p, TRUE) \/ Restart
  BY <1>1 DEF PrepareInstancePool, Panic, store
<1>4. Current(p) => o.status # pool[p].status
  BY <1>1, <1>2, CurrentStatus
<1> HIDE DEF o
<1> QED
  BY <1>1, <1>3, <1>4, Assigns, Fails DEF ReturnNow, Return, store, watch

LEMMA FinishStep ==
  ASSUME TypeOK, VersionInv, NEW p \in Pools, Settling(p), FinishSubmit(p)
  PROVE  Settling(p)'
<1>1. ~Writing(p) /\ pass[p].ip.status = "tokenReady"
  BY DEF FinishSubmit, Writing, At, Settling, Chosen
<1>2. Submitted(pass[p].ip).status = "submitted"
  BY DEF Submitted, TypeOK, Pass, InstancePoolObject
<1>3. Current(p) => Submitted(pass[p].ip).status # pool[p].status
  BY <1>1, <1>2, CurrentStatus
<1> QED
  BY <1>1, <1>3, Assigns DEF FinishSubmit, store

LEMMA ReconcileStep ==
  ASSUME TypeOK, FieldsInv, VersionInv, NEW p \in Pools, Settling(p),
         ReconcileInstances(p)
  PROVE  Settling(p)'
<1> DEFINE o == Counted(p, pass[p].ip)
<1>1. ~Writing(p) /\ Reconciling(pass[p].ip)
  BY DEF ReconcileInstances, Writing, At, FieldsInv, HandlerSuits, Suits, Reconciling
<1>2. Assign(p, o, "write", {}) /\ UNCHANGED <<pool, inst>>
  BY DEF ReconcileInstances, Counted, store
<1>3. Current(p) => Reconciling(pool[p]) /\ pass[p].ip = pool[p]
  BY <1>1, CurrentStatus DEF Reconciling
<1>4. Counted(p, pool[p])' = Counted(p, pool[p])
  BY <1>2 DEF Counted, Members, Managed
<1>5. Current(p) => Reconciling(pool[p]) /\ o = Counted(p, pool[p])'
  BY <1>3, <1>4
<1> HIDE DEF o
<1> QED
  BY <1>1, <1>2, <1>5, Assigns

LEMMA RemovalSteps ==
  ASSUME TypeOK, FieldsInv, VersionInv, NEW p \in Pools, Settling(p),
         ListInstances(p) \/ RemoveInstance(p)
  PROVE  Restart \/ Settling(p)'
<1>1. ~Writing(p) /\ pass[p].ip.status = "cleanupNodes"
  BY DEF ListInstances, RemoveInstance, Writing, At, FieldsInv, HandlerSuits, Suits,
         Removing
<1>2. Current(p) => pool[p].status = "cleanupNodes"
  BY <1>1, CurrentStatus
<1>3. ASSUME NEW o, NEW items, Assign(p, o, "write", items), UNCHANGED pool,
             o.status = "submitted"
      PROVE  Settling(p)'
  BY <1>1, <1>2, <1>3, Assigns
<1>4. ASSUME NEW o, NEW items, Assign(p, o, "delete", items), UNCHANGED pool,
             o.status = "cleanupNodes"
      PROVE  Settling(p)'
  <2>1. /\ pass'[p].at = "delete" /\ pass'[p].ip = o
        /\ cache'[p] = (IF pass[p].shared THEN o ELSE cache[p])
        /\ pass'[p].shared = pass[p].shared /\ UNCHANGED <<pool, stale>>
    BY <1>4 DEF Assign, TypeOK, Pass
  <2>2. Faithful(p)'
    BY <1>1, <1>2, <1>4, <2>1
       DEF Settling, Faithful, Writing, At, Current, Reconciling
  <2> QED
    BY <2>1, <2>2 DEF Settling, Chosen, Outcome, Rests, Writing, At
<1>5. ASSUME ListInstances(p) PROVE Settling(p)'
  <2> DEFINE o == [pass[p].ip EXCEPT !.status = "submitted"]
  <2>1. o.status = "submitted"
    BY DEF TypeOK, Pass, InstancePoolObject
  <2>2. CASE Surplus(p)
    <3>1. /\ pass'[p].at = "delete" /\ UNCHANGED <<pool, cache, stale>>
      BY <1>5, <2>2 DEF ListInstances, TypeOK, Pass, store
    <3> QED
      BY <1>1, <3>1, Advances DEF Chosen, At
  <2>3. CASE ~Surplus(p)
    <3>1. Assign(p, o, "write", {}) /\ UNCHANGED pool
      BY <1>5, <2>3 DEF ListInstances, store
    <3> HIDE DEF o
    <3> QED
      BY <1>3, <2>1, <3>1
  <2> QED
    BY <2>2, <2>3
<1>6. ASSUME RemoveInstance(p) PROVE Restart \/ Settling(p)'
  <2> DEFINE ip == [pass[p].ip EXCEPT !.requested = @ - 1, !.needed = @ + 1]
             o == [ip EXCEPT !.status = "submitted"]
  <2>1. ip.status = "cleanupNodes" /\ o.status = "submitted"
    BY <1>1 DEF TypeOK, Pass, InstancePoolObject
  <2>2. \/ ReturnNow(p, TRUE) \/ Restart
        \/ UNCHANGED pool /\ \E items :
             Assign(p, o, "write", items) \/ Assign(p, ip, "delete", items)
    BY <1>6 DEF RemoveInstance, Panic
  <2> HIDE DEF o, ip
  <2> QED
    BY <1>1, <1>3, <1>4, <2>1, <2>2, Fails DEF ReturnNow, Return, store, watch
<1> QED
  BY <1>5, <1>6

LEMMA WatchSteps ==
  ASSUME Undisturbed, TypeOK, Undeleted, NEW p \in Pools, Settling(p),
         \/ Deliver(p) \/ ReconcileNodePool(p)
         \/ \E c \in Counts : EditCount(p, c) \/ CreatePool(p, c)
         \/ DeletePool(p) \/ RemovePool(p)
  PROVE  Settling(p)'
<1>1. CASE Deliver(p)
  <2>1. /\ cache'[p] = pool'[p] /\ ~(pass'[p].shared) /\ p \in queue'
        /\ pass'[p].at = pass[p].at /\ pass'[p].ip = pass[p].ip
    BY <1>1 DEF Deliver, TypeOK, Pass, store
  <2> QED
    BY <2>1 DEF Settling, Chosen, Faithful, Outcome, Rests, At, Current, Woken
<1>2. CASE ReconcileNodePool(p)
  <2>1. UNCHANGED <<pool, inst, cache, stale, pass>> /\ (Woken(p) => Woken(p)')
    BY <1>2 DEF ReconcileNodePool, Woken, store
  <2> QED
    BY <2>1, Calm, FrameKeeps
<1>3. CASE \E c \in Counts : EditCount(p, c)
  <2>1. stale'[p] = TRUE /\ UNCHANGED pass
    BY <1>3 DEF EditCount, ChangePool, TypeOK
  <2> QED
    BY <2>1 DEF Settling, Chosen, Faithful, Outcome, Rests, At, Current
<1>4. ~DeletePool(p) /\ ~RemovePool(p) /\ \A c \in Counts : ~CreatePool(p, c)
  BY DEF CreatePool, DeletePool, RemovePool, Disturb, Undeleted, First, Undisturbed
<1> QED
  BY <1>1, <1>2, <1>3, <1>4

LEMMA RestartSettles ==
  ASSUME Undeleted, Restart, NEW p \in Pools
  PROVE  Settling(p)'
<1>1. pass'[p] = Idle /\ cache'[p] = pool'[p] /\ p \in queue'
  BY DEF Restart, store, Undeleted, First
<1>2. Idle.at = "idle"
  BY DEF Idle
<1> QED
  BY <1>1, <1>2
     DEF Settling, Chosen, Faithful, Outcome, Rests, At, Writing, Woken

LEMMA WakeNext ==
  ASSUME Undisturbed, TypeOK, FieldsInv, VersionInv, WakeInv, [Next]_vars
  PROVE  WakeInv'
<1>1. Undeleted
  BY DEF WakeInv
<1> SUFFICES ASSUME NEW p \in Pools PROVE Settling(p)'
  BY <1>1, UndeletedNext DEF WakeInv
<1>2. Settling(p)
  BY DEF WakeInv
<1>3. Restart => Settling(p)'
  BY <1>1, RestartSettles
<1>4. PoolStep(p) => Settling(p)'
  <2>1. ~Fault(p)
    BY DEF Fault, Disturb, Undisturbed
  <2> QED
    BY <1>1, <1>2, <1>3, <2>1, StartStep, SubmitSteps, PrepareStep, FinishStep,
       ReconcileStep, RemovalSteps, WatchSteps, UpdateStep DEF PoolStep, Handle
<1>5. ASSUME NEW q \in Pools \ {p}, PoolStep(q) PROVE Settling(p)'
  <2>1. CASE UNCHANGED <<pool, cache, stale, pass>> \/ Kinds(q)
    <3>1. /\ pool'[p] = pool[p] /\ cache'[p] = cache[p]
          /\ stale'[p] = stale[p] /\ pass'[p] = pass[p]
      BY <2>1, KindsOthers DEF OthersKeepVersion
    <3> QED
      BY <1>1, <1>2, <1>3, <1>5, <3>1, OthersStep, Calm
  <2> QED
    BY <1>3, <1>5, <2>1, PoolStepKinds
<1>6. ASSUME NEW n \in Names, InstanceStep(n) PROVE Settling(p)'
  <2>1. UNCHANGED <<pool, cache, stale, pass>>
    BY <1>6
       DEF InstanceStep, Provision, Manage, Finalize, Heartbeat, Collect, Evict, Rest
  <2> QED
    BY <1>1, <1>2, <1>6, <2>1, InstancesStep, Calm
<1>7. ASSUME Repair \/ Resync \/ UNCHANGED vars PROVE Settling(p)'
  <2>1. UNCHANGED <<pool, inst, cache, stale, pass, notify>> /\ queue \subseteq queue'
    BY <1>7 DEF Repair, Resync, vars, store, watch
  <2> QED
    BY <1>2, <2>1, Calm, FrameKeeps DEF Woken
<1> QED
  BY <1>3, <1>4, <1>5, <1>6, <1>7 DEF Next, Crash

-----------------------------------------------------------------------------
(* A pool at rest all whose Instances are managed has as many as it wants. *)
LEMMA RestIsSettled ==
  ASSUME TypeOK, Undeleted, NEW p \in Pools, Rests(p), Quiet(p)
  PROVE  Settled(p)
<1>1. AtRest(p) /\ AllManaged(p)
  BY DEF Quiet, Rests, At, Woken, Idle
<1> DEFINE k == Cardinality(Members(p))
<1>2. Managed(p) = Members(p) /\ k \in Nat
  BY <1>1, MembersCount DEF AllManaged, Managed
<1>3. /\ pool[p] \in InstancePoolObject /\ Reconciling(pool[p])
      /\ Reconciled(pool[p], k, k) = pool[p]
  BY <1>1, <1>2 DEF AtRest, Counted, TypeOK
<1> HIDE DEF k
<1>4. pool[p].status = "ready" /\ pool[p].ready = pool[p].count /\ k = pool[p].count
  <2>1. CASE pool[p].requested = k /\ pool[p].requested = pool[p].count
    <3>1. Reconciled(pool[p], k, k).status = "ready" /\ Reconciled(pool[p], k, k).ready = k
      BY <1>3, <2>1 DEF Reconciled, InstancePoolObject
    <3> QED
      BY <1>3, <2>1, <3>1
  <2>2. CASE ~(pool[p].requested = k /\ pool[p].requested = pool[p].count)
    <3> DEFINE needed == pool[p].count - k
    <3>1. /\ Reconciled(pool[p], k, k).requested = pool[p].count
          /\ Reconciled(pool[p], k, k).status =
               IF needed < 0 THEN "cleanupNodes"
               ELSE IF needed > 0 THEN "tokenReady" ELSE pool[p].status
      BY <1>3, <2>2 DEF Reconciled, InstancePoolObject
    <3>2. needed = 0
      BY <1>2, <1>3, <3>1 DEF Reconciling, InstancePoolObject
    <3> QED
      BY <1>2, <1>3, <2>2, <3>1, <3>2 DEF InstancePoolObject
  <2> QED
    BY <2>1, <2>2
<1>5. \A n \in Members(p) : inst[n].uid = pool[p].uid
  BY AbsentOwner DEF Members, Undeleted, First
<1> QED
  BY <1>1, <1>4, <1>5 DEF Settled, Undeleted, First, k

(* A pool that no event, retry or change of an Instance is about to bring  *)
(* back to the controller is settled: with as many managed Instances as it *)
(* asks for, and a status that says so.  For any pools, counts, edits,     *)
(* evictions, failures in submitInstances, panics, crashes and resyncs.    *)
THEOREM NeverForgotten ==
  ASSUME Undisturbed
  PROVE  Spec => []NoLostWakeUp
<1>1. Init => WakeInv
  <2>1. ASSUME Init, NEW p \in Pools PROVE Settling(p)
    <3>1. pass[p].at = "idle" /\ cache = pool /\ p \in queue
      BY <2>1 DEF Init, Idle
    <3> QED
      BY <3>1 DEF Settling, Chosen, Faithful, Outcome, Rests, At, Writing, Woken
  <2> QED
    BY <2>1, UndeletedInit DEF WakeInv
<1>2. TypeOK /\ FieldsInv /\ VersionInv /\ WakeInv /\ [Next]_vars => WakeInv'
  BY WakeNext
<1>3. TypeOK /\ VersionInv /\ [Next]_vars => VersionInv'
  BY VersionNext
<1>4. TypeOK /\ WakeInv => NoLostWakeUp
  BY RestIsSettled DEF WakeInv, Settling, NoLostWakeUp
<1>5. Spec => []VersionInv
  BY <1>3, VersionInit, Typed, PTL DEF Spec
<1>6. Spec => []FieldsInv
  BY FieldsAlways
<1> QED
  BY <1>1, <1>2, <1>4, <1>5, <1>6, Typed, PTL DEF Spec
=============================================================================
