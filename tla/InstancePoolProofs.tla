------------------------- MODULE InstancePoolProofs -------------------------
(* Theorems about InstancePool, for every set of pools, names, counts and  *)
(* workers and whatever the disturbances.                                  *)
EXTENDS InstancePoolProperties, FiniteSetTheorems, TLAPS

(***************************************************************************)
(* Type correctness.                                                       *)
(***************************************************************************)

(* What List returns is a finite number of Instances.                      *)
LEMMA MembersCount ==
  ASSUME NEW p \in Pools
  PROVE  /\ Members(p) \subseteq Names /\ Managed(p) \subseteq Names
         /\ Cardinality(Members(p)) \in Nat /\ Cardinality(Managed(p)) \in Nat
<1>1. Members(p) \subseteq Names /\ Managed(p) \subseteq Names
  BY DEF Members, Managed
<1>2. IsFiniteSet(Members(p)) /\ IsFiniteSet(Managed(p))
  BY <1>1, FS_Subset, ConstantsAssumption DEF ConstantsAssumption
<1> QED
  BY <1>1, <1>2, FS_CardinalityType

(* The values handlers assign are of the types of the fields.              *)
LEMMA NewPoolType ==
  ASSUME NEW c \in Nat, NEW uid \in Nat
  PROVE  NewPool(c, uid) \in InstancePoolObject
BY DEF NewPool, InstancePoolObject, Statuses

LEMMA IdleType == Idle \in Pass
BY NewPoolType DEF Idle, Pass, Stages

LEMMA HandlerType == ASSUME NEW s \in Statuses PROVE Handler(s) \in Stages
BY DEF Handler, Statuses, Stages

LEMMA RelabelType ==
  ASSUME NEW ip \in InstancePoolObject, NEW s \in Statuses,
         NEW i \in Int, NEW j \in Int, NEW r \in Nat
  PROVE  /\ [ip EXCEPT !.status = s] \in InstancePoolObject
         /\ [ip EXCEPT !.status = s, !.needed = i] \in InstancePoolObject
         /\ [ip EXCEPT !.requested = i, !.needed = j] \in InstancePoolObject
         /\ [ip EXCEPT !.needed = i, !.status = s, !.requested = j]
               \in InstancePoolObject
         /\ [ip EXCEPT !.status = s, !.needed = i, !.ready = r]
               \in InstancePoolObject
<1>1. [ip EXCEPT !.status = s] \in InstancePoolObject
  BY DEF InstancePoolObject
<1>2. [ip EXCEPT !.status = s, !.needed = i] \in InstancePoolObject
  BY DEF InstancePoolObject
<1>3. [ip EXCEPT !.requested = i, !.needed = j] \in InstancePoolObject
  BY DEF InstancePoolObject
<1>4. [ip EXCEPT !.needed = i, !.status = s, !.requested = j]
        \in InstancePoolObject
  BY DEF InstancePoolObject
<1>5. [ip EXCEPT !.status = s, !.needed = i, !.ready = r] \in InstancePoolObject
  BY DEF InstancePoolObject
<1> QED
  BY <1>1, <1>2, <1>3, <1>4, <1>5

LEMMA SubmittedStatus ==
  /\ "submitted" \in Statuses /\ 0 \in Int
  /\ \A ip \in InstancePoolObject :
       /\ [ip EXCEPT !.status = "submitted"] \in InstancePoolObject
       /\ Submitted(ip) \in InstancePoolObject
<1>1. "submitted" \in Statuses /\ 0 \in Int
  BY DEF Statuses
<1>2. ASSUME NEW ip \in InstancePoolObject
      PROVE  [ip EXCEPT !.status = "submitted"] \in InstancePoolObject
  BY <1>1 DEF InstancePoolObject
<1>3. ASSUME NEW ip \in InstancePoolObject PROVE Submitted(ip) \in InstancePoolObject
  BY <1>1 DEF InstancePoolObject, Submitted
<1> QED
  BY <1>1, <1>2, <1>3

LEMMA ReconciledType ==
  ASSUME NEW ip \in InstancePoolObject, NEW ready \in Nat, NEW present \in Nat
  PROVE  Reconciled(ip, ready, present) \in InstancePoolObject
<1> DEFINE needed == ip.count - present
           status == IF needed < 0 THEN "cleanupNodes"
                     ELSE IF needed > 0 THEN "tokenReady" ELSE ip.status
<1>1. needed \in Int /\ ip.count \in Int
  BY DEF InstancePoolObject
<1>2. status \in Statuses
  BY DEF InstancePoolObject, Statuses
<1>3. "ready" \in Statuses /\ 0 \in Int
  BY DEF Statuses
<1>4. [ip EXCEPT !.status = "ready", !.needed = 0, !.ready = ready]
        \in InstancePoolObject
  BY <1>3 DEF InstancePoolObject
<1>5. [ip EXCEPT !.requested = ip.count, !.needed = needed, !.ready = ready,
                 !.status = status] \in InstancePoolObject
  BY <1>1, <1>2 DEF InstancePoolObject
<1> QED
  BY <1>4, <1>5 DEF Reconciled

(* The pieces handlers share keep the types of what they assign.           *)
LEMMA AssignType ==
  ASSUME TypeOK, NEW p \in Pools, NEW o \in InstancePoolObject,
         NEW stage \in Stages, NEW items \in SUBSET Names,
         Assign(p, o, stage, items)
  PROVE  /\ pass' \in [Pools -> Pass] /\ cache' \in [Pools -> InstancePoolObject]
         /\ UNCHANGED <<world, stale, queue, locked>>
<1>1. [pass[p] EXCEPT !.ip = o, !.at = stage, !.items = items] \in Pass
  BY DEF TypeOK, Pass
<1>2. pass' = [pass EXCEPT ![p] =
                 [pass[p] EXCEPT !.ip = o, !.at = stage, !.items = items]]
  BY DEF Assign, TypeOK
<1> QED
  BY <1>1, <1>2 DEF TypeOK, Assign

LEMMA ReturnType ==
  ASSUME TypeOK, NEW p \in Pools, NEW failed \in BOOLEAN, Return(p, failed)
  PROVE  pass' \in [Pools -> Pass] /\ queue' \subseteq Pools
BY IdleType DEF TypeOK, Return

LEMMA RestartType ==
  ASSUME TypeOK, Restart, disturbed' \in Nat
  PROVE  TypeOK'
BY IdleType DEF TypeOK, Restart, store

LEMMA DisturbType ==
  ASSUME TypeOK, NEW kind, Disturb(kind)
  PROVE  disturbed' \in Nat /\ UNCHANGED <<config, prereq>>
BY DEF TypeOK, Disturb

LEMMA DeleteType ==
  ASSUME TypeOK, NEW n \in Names, inst[n] # Absent, DeleteInstance(n)
  PROVE  /\ inst' \in [Names -> InstanceObject \cup {Absent}]
         /\ notify' \subseteq Pools
<1>1. inst[n] \in InstanceObject
  BY DEF TypeOK
<1>2. [inst[n] EXCEPT !.deleting = TRUE] \in InstanceObject /\ inst[n].owner \in Pools
  BY <1>1 DEF InstanceObject
<1> QED
  BY <1>2 DEF TypeOK, DeleteInstance

(* What UpdateStatus stores.                                               *)
Written(p) ==
  [pass[p].ip EXCEPT
     !.count = pool[p].count, !.life = pool[p].life, !.uid = pool[p].uid]

LEMMA StoreType ==
  ASSUME TypeOK, NEW p \in Pools, Store(p)
  PROVE  /\ pool' \in [Pools -> InstancePoolObject]
         /\ stale' \in [Pools -> BOOLEAN]
<1>1. /\ pass[p].ip \in InstancePoolObject /\ pool[p].count \in Nat
      /\ pool[p].life \in {"live", "deleting", "gone"} /\ pool[p].uid \in Nat
  BY DEF TypeOK, Pass, InstancePoolObject
<1>2. Written(p) \in InstancePoolObject
  BY <1>1 DEF Written, InstancePoolObject
<1> QED
  BY <1>2 DEF Written, TypeOK, Store

LEMMA AddType ==
  ASSUME TypeOK, NEW p \in Pools, AddInstance(p)
  PROVE  inst' \in [Names -> InstanceObject \cup {Absent}]
<1>1. pass[p].ip.uid \in Nat
  BY DEF TypeOK, Pass, InstancePoolObject
<1> QED
  BY <1>1 DEF TypeOK, AddInstance, Unused, InstanceObject

LEMMA TypeInit == Init => TypeOK
<1> SUFFICES ASSUME Init PROVE TypeOK
  OBVIOUS
<1>1. \A c \in Counts : NewPool(c, 1) \in InstancePoolObject
  BY NewPoolType, ConstantsAssumption DEF ConstantsAssumption
<1>2. pool \in [Pools -> InstancePoolObject]
  BY <1>1 DEF Init
<1> QED
  BY <1>2, IdleType, ConstantsAssumption DEF ConstantsAssumption, Init, TypeOK

LEMMA TypeNext == TypeOK /\ [Next]_vars => TypeOK'
<1> SUFFICES ASSUME TypeOK, [Next]_vars PROVE TypeOK'
  OBVIOUS
<1> USE ConstantsAssumption DEF ConstantsAssumption
<1>1. ASSUME NEW p \in Pools, Start(p) PROVE TypeOK'
  <2>1. [Idle EXCEPT !.at = Handler(cache[p].status), !.ip = cache[p],
                     !.shared = TRUE] \in Pass
    BY HandlerType, IdleType DEF TypeOK, Pass, InstancePoolObject
  <2>2. pass' \in [Pools -> Pass]
    BY <1>1, <2>1, IdleType DEF Start, TypeOK
  <2> QED
    BY <1>1, <2>2 DEF Start, TypeOK, store, world, watch
<1>2. ASSUME NEW p \in Pools, AcquireLock(p) PROVE TypeOK'
  BY <1>2 DEF AcquireLock, Lock, TypeOK, Pass, Stages, store, world, watch
<1>3. ASSUME NEW p \in Pools, UpdateStatus(p) PROVE TypeOK'
  <2>1. pool' \in [Pools -> InstancePoolObject] /\ stale' \in [Pools -> BOOLEAN]
    BY <1>3, StoreType DEF UpdateStatus, TypeOK
  <2>2. pass' \in [Pools -> Pass] /\ queue' \subseteq Pools
    BY <1>3, ReturnType DEF UpdateStatus, Current
  <2> QED
    BY <1>3, <2>1, <2>2 DEF UpdateStatus, TypeOK, world, Release
<1>4. ASSUME NEW p \in Pools, PrepareInstancePool(p) PROVE TypeOK'
  <2> DEFINE o == [pass[p].ip EXCEPT !.needed = pass[p].ip.count,
                     !.status = "tokenReady", !.requested = pass[p].ip.count]
  <2>1. CASE config = "ok"
    <3>1. o \in InstancePoolObject
      <4>1. pass[p].ip \in InstancePoolObject /\ pass[p].ip.count \in Int
        BY DEF TypeOK, Pass, InstancePoolObject
      <4>2. "tokenReady" \in Statuses
        BY DEF Statuses
      <4> QED
        BY <4>1, <4>2, RelabelType
    <3>2. Assign(p, o, "write", {}) /\ UNCHANGED <<store, notify>>
      BY <1>4, <2>1 DEF PrepareInstancePool
    <3> QED
      BY <3>1, <3>2, AssignType DEF TypeOK, store, world, Stages
  <2>2. CASE config \in {"unreadable", "noToken"}
    <3>1. ReturnNow(p, config = "unreadable")
      BY <1>4, <2>2 DEF PrepareInstancePool
    <3> QED
      BY <3>1, ReturnType DEF ReturnNow, TypeOK, store, world, watch
  <2>3. CASE config = "notString"
    <3>1. Panic
      BY <1>4, <2>3 DEF PrepareInstancePool
    <3> QED
      BY <3>1, RestartType DEF Panic, TypeOK
  <2> QED
    BY <2>1, <2>2, <2>3 DEF TypeOK, ConfigStates
<1>5. ASSUME NEW p \in Pools, Lookup(p) PROVE TypeOK'
  <2>1. CASE prereq = "ok"
    <3>1. pass[p].ip.needed \in Int
      BY DEF TypeOK, Pass, InstancePoolObject
    <3>2. [pass[p] EXCEPT !.at = "create", !.left = pass[p].ip.needed] \in Pass
      BY <3>1 DEF TypeOK, Pass, Stages
    <3>3. pass' = [pass EXCEPT ![p] =
                     [pass[p] EXCEPT !.at = "create", !.left = pass[p].ip.needed]]
      BY <1>5, <2>1 DEF Lookup, TypeOK
    <3> QED
      BY <1>5, <2>1, <3>2, <3>3 DEF Lookup, TypeOK, store, world, watch
  <2>2. CASE prereq = "missing"
    BY <1>5, <2>2, ReturnType DEF Lookup, ReturnNow, TypeOK, store, world, watch
  <2>3. CASE prereq = "noIngress"
    BY <1>5, <2>3, RestartType DEF Lookup, Panic, TypeOK
  <2> QED
    BY <2>1, <2>2, <2>3 DEF TypeOK, PrereqStates
<1>6. ASSUME NEW p \in Pools, CreateInstance(p) PROVE TypeOK'
  BY <1>6, AddType DEF CreateInstance, TypeOK, Pass, world, watch
<1>7. ASSUME NEW p \in Pools, RejectNetworkType(p) PROVE TypeOK'
  BY <1>7, ReturnType DEF RejectNetworkType, ReturnNow, TypeOK, store, world, watch
<1>8. ASSUME NEW p \in Pools, FinishSubmit(p) PROVE TypeOK'
  <2>1. Submitted(pass[p].ip) \in InstancePoolObject
    BY SubmittedStatus DEF TypeOK, Pass
  <2> QED
    BY <1>8, <2>1, AssignType DEF FinishSubmit, TypeOK, store, world, Stages
<1>9. ASSUME NEW p \in Pools, ReconcileInstances(p) PROVE TypeOK'
  <2>1. Reconciled(pass[p].ip, Cardinality(Managed(p)), Cardinality(Members(p)))
          \in InstancePoolObject
    BY MembersCount, ReconciledType DEF TypeOK, Pass
  <2> QED
    BY <1>9, <2>1, AssignType DEF ReconcileInstances, TypeOK, store, world, Stages
<1>10. ASSUME NEW p \in Pools, ListInstances(p) PROVE TypeOK'
  <2>1. CASE Surplus(p)
    BY <1>10, <2>1, MembersCount
       DEF ListInstances, TypeOK, Pass, Stages, store, world
  <2>2. CASE ~Surplus(p)
    <3>1. [pass[p].ip EXCEPT !.status = "submitted"] \in InstancePoolObject
      BY SubmittedStatus DEF TypeOK, Pass
    <3> QED
      BY <1>10, <2>2, <3>1, AssignType DEF ListInstances, TypeOK, store, world, Stages
  <2> QED
    BY <2>1, <2>2
<1>11. ASSUME NEW p \in Pools, RemoveInstance(p) PROVE TypeOK'
  <2> DEFINE ip == [pass[p].ip EXCEPT !.requested = @ - 1, !.needed = @ + 1]
             last == ip.needed >= 0
  <2>1. ASSUME NEW n \in Names, inst[n] # Absent, DeleteInstance(n),
               Assign(p, IF last THEN [ip EXCEPT !.status = "submitted"] ELSE ip,
                      IF last THEN "write" ELSE "delete", pass[p].items \ {n}),
               UNCHANGED pool
        PROVE  TypeOK'
    <3>1. (IF last THEN [ip EXCEPT !.status = "submitted"] ELSE ip)
            \in InstancePoolObject
      <4>1. /\ pass[p].ip \in InstancePoolObject
            /\ pass[p].ip.requested - 1 \in Int /\ pass[p].ip.needed + 1 \in Int
        BY DEF TypeOK, Pass, InstancePoolObject
      <4>2. ip \in InstancePoolObject
        BY <4>1, SubmittedStatus, RelabelType
      <4> HIDE DEF ip
      <4>3. [ip EXCEPT !.status = "submitted"] \in InstancePoolObject
        BY <4>2, SubmittedStatus
      <4> QED
        BY <4>2, <4>3
    <3>2. (IF last THEN "write" ELSE "delete") \in Stages
      BY DEF Stages
    <3>3. pass[p].items \ {n} \in SUBSET Names
      BY DEF TypeOK, Pass
    <3>4. /\ pass' \in [Pools -> Pass] /\ cache' \in [Pools -> InstancePoolObject]
          /\ UNCHANGED <<world, stale, queue, locked>>
      BY <2>1, <3>1, <3>2, <3>3, AssignType
    <3> QED
      BY <2>1, <3>4, DeleteType DEF TypeOK, world
  <2>2. ASSUME ReturnNow(p, TRUE) PROVE TypeOK'
    BY <2>2, ReturnType DEF ReturnNow, TypeOK, store, world, watch
  <2>3. ASSUME Panic PROVE TypeOK'
    BY <2>3, RestartType DEF Panic, TypeOK
  <2> QED
    BY <1>11, <2>1, <2>2, <2>3 DEF RemoveInstance
<1>12. ASSUME NEW p \in Pools, Fault(p) PROVE TypeOK'
  <2>1. /\ pool' \in [Pools -> InstancePoolObject]
        /\ inst' \in [Names -> InstanceObject \cup {Absent}]
        /\ stale' \in [Pools -> BOOLEAN] /\ notify' \subseteq Pools
    BY <1>12, StoreType, DeleteType DEF Fault, TypeOK, store
  <2>2. pass' \in [Pools -> Pass] /\ queue' \subseteq Pools
    BY <1>12, ReturnType DEF Fault
  <2>3. disturbed' \in Nat /\ UNCHANGED <<config, prereq>>
    BY <1>12, DisturbType DEF Fault
  <2> QED
    BY <1>12, <2>1, <2>2, <2>3 DEF Fault, TypeOK, Release
<1>13. ASSUME NEW p \in Pools, SubmitFault(p) PROVE TypeOK'
  <2>1. inst' \in [Names -> InstanceObject \cup {Absent}]
    BY <1>13, AddType DEF SubmitFault, TypeOK
  <2>2. pass' \in [Pools -> Pass] /\ queue' \subseteq Pools
    BY <1>13, ReturnType DEF SubmitFault
  <2>3. disturbed' \in Nat /\ UNCHANGED <<config, prereq>>
    BY <1>13, DisturbType DEF SubmitFault
  <2> QED
    BY <1>13, <2>1, <2>2, <2>3 DEF SubmitFault, TypeOK, watch
<1>14. ASSUME NEW p \in Pools, Deliver(p) PROVE TypeOK'
  BY <1>14 DEF Deliver, TypeOK, Pass, store, world
<1>15. ASSUME NEW p \in Pools, ReconcileNodePool(p) PROVE TypeOK'
  BY <1>15 DEF ReconcileNodePool, TypeOK, store, world
<1>16. ASSUME NEW p \in Pools, NEW o \in InstancePoolObject, ChangePool(p, o),
              disturbed' \in Nat, UNCHANGED <<config, prereq>>
       PROVE  TypeOK'
  BY <1>16 DEF ChangePool, TypeOK
<1>17. ASSUME NEW p \in Pools, NEW c \in Counts, EditCount(p, c) \/ CreatePool(p, c)
       PROVE  TypeOK'
  <2>1. [pool[p] EXCEPT !.count = c] \in InstancePoolObject
    BY DEF TypeOK, InstancePoolObject
  <2>2. pool[p].uid + 1 \in Nat /\ c \in Nat
    BY DEF TypeOK, InstancePoolObject
  <2>3. NewPool(c, pool[p].uid + 1) \in InstancePoolObject
    BY <2>2, NewPoolType
  <2>4. disturbed' \in Nat /\ UNCHANGED <<config, prereq>>
    BY <1>17, DisturbType DEF EditCount, CreatePool
  <2> QED
    BY <1>16, <1>17, <2>1, <2>3, <2>4 DEF EditCount, CreatePool
<1>18. ASSUME NEW p \in Pools, DeletePool(p) \/ RemovePool(p) PROVE TypeOK'
  <2>1. \A life \in {"deleting", "gone"} :
          [pool[p] EXCEPT !.life = life] \in InstancePoolObject
    BY DEF TypeOK, InstancePoolObject
  <2>2. disturbed' \in Nat /\ UNCHANGED <<config, prereq>>
    BY <1>18, DisturbType DEF DeletePool, RemovePool, world, TypeOK
  <2> QED
    BY <1>16, <1>18, <2>1, <2>2 DEF DeletePool, RemovePool
<1>19. ASSUME NEW n \in Names, Provision(n) \/ Manage(n) \/ Finalize(n) \/ Heartbeat(n)
       PROVE  TypeOK'
  <2>1. inst[n] # Absent /\ inst[n] \in InstanceObject
    BY <1>19 DEF TypeOK, Provision, Manage, Finalize, Heartbeat, Absent
  <2> QED
    BY <1>19, <2>1
       DEF Provision, Manage, Finalize, Heartbeat, Rest, TypeOK, InstanceObject, world
<1>20. ASSUME NEW n \in Names, Collect(n) \/ Evict(n) PROVE TypeOK'
  <2>1. inst[n] # Absent /\ DeleteInstance(n) /\ Rest
    BY <1>20 DEF Collect, Evict
  <2>2. disturbed' \in Nat /\ UNCHANGED <<config, prereq>>
    BY <1>20, DisturbType DEF Collect, Evict, world, TypeOK
  <2> QED
    BY <2>1, <2>2, DeleteType DEF Rest, TypeOK
<1>21. CASE Repair
  BY <1>21 DEF Repair, TypeOK, store, watch, ConfigStates, PrereqStates
<1>22. CASE Crash
  BY <1>22, RestartType, DisturbType DEF Crash
<1>23. CASE Resync
  BY <1>23, DisturbType DEF Resync, TypeOK, store, watch
<1>24. CASE UNCHANGED vars
  BY <1>24 DEF vars, store, world, watch, TypeOK
<1> QED
  BY <1>1, <1>2, <1>3, <1>4, <1>5, <1>6, <1>7, <1>8, <1>9, <1>10, <1>11, <1>12,
     <1>13, <1>14, <1>15, <1>17, <1>18, <1>19, <1>20, <1>21, <1>22, <1>23, <1>24
     DEF Next, PoolStep, InstanceStep, Handle

(* The types hold in every behaviour of the controller.                    *)
THEOREM Typed == Spec => []TypeOK
BY TypeInit, TypeNext, PTL DEF Spec

(***************************************************************************)
(* Mutual exclusion under instanceLock.  SubmitExclusive is inductive with *)
(* TypeOK: a pass only enters the section through AcquireLock, which finds *)
(* the lock free and so nobody inside; and when the lock is released, the  *)
(* pass that was inside, the only one, leaves.                             *)
(***************************************************************************)
OthersKeepStage(p) == \A q \in Pools \ {p} : pass'[q].at = pass[q].at

LEMMA AssignStage ==
  ASSUME TypeOK, NEW p \in Pools, NEW o, NEW stage, NEW items,
         Assign(p, o, stage, items)
  PROVE  pass'[p].at = stage /\ OthersKeepStage(p) /\ locked' = locked
BY DEF TypeOK, Pass, Assign, OthersKeepStage

LEMMA ReturnStage ==
  ASSUME TypeOK, NEW p \in Pools, NEW failed, Return(p, failed)
  PROVE  pass'[p].at = "idle" /\ OthersKeepStage(p)
BY DEF TypeOK, Return, Idle, OthersKeepStage

(* A step of p that does not enter the section.                            *)
LEMMA StepOutside ==
  ASSUME SubmitExclusive, NEW p \in Pools, OthersKeepStage(p),
         At(p, Section)' => At(p, Section),
         \/ locked' = locked
         \/ At(p, Section) /\ ~At(p, Section)'
  PROVE  SubmitExclusive'
BY DEF SubmitExclusive, OthersKeepStage, At

LEMMA RestartExclusive == Restart => SubmitExclusive'
BY DEF Restart, SubmitExclusive, At, Section, Idle

LEMMA ExclusiveNext == TypeOK /\ SubmitExclusive /\ [Next]_vars => SubmitExclusive'
<1> SUFFICES ASSUME TypeOK, SubmitExclusive, [Next]_vars PROVE SubmitExclusive'
  OBVIOUS
<1>1. ASSUME NEW p \in Pools, Start(p) PROVE SubmitExclusive'
  <2>1. Handler(cache[p].status) \in {"prepare", "lock", "list", "listRemove"}
    BY DEF Handler, TypeOK, InstancePoolObject, Statuses
  <2>2. pass'[p].at \in {"idle", Handler(cache[p].status)} /\ OthersKeepStage(p)
    BY <1>1 DEF Start, TypeOK, Idle, OthersKeepStage
  <2> QED
    BY <1>1, <2>1, <2>2, StepOutside DEF Start, At, Section
<1>2. ASSUME NEW p \in Pools, AcquireLock(p) PROVE SubmitExclusive'
  <2>1. \A q \in Pools : ~At(q, Section)
    BY <1>2 DEF AcquireLock, Lock, SubmitExclusive
  <2>2. OthersKeepStage(p) /\ locked' = TRUE
    BY <1>2 DEF AcquireLock, Lock, TypeOK, OthersKeepStage
  <2> QED
    BY <2>1, <2>2 DEF SubmitExclusive, At, OthersKeepStage
<1>3. ASSUME NEW p \in Pools, UpdateStatus(p) \/ Fault(p) PROVE SubmitExclusive'
  <2>1. pass'[p].at = "idle" /\ OthersKeepStage(p)
    BY <1>3, ReturnStage DEF UpdateStatus, Fault
  <2>2. locked' = (locked /\ ~At(p, {"publish"}))
    BY <1>3 DEF UpdateStatus, Fault, Release
  <2>3. CASE At(p, {"publish"})
    BY <2>1, <2>3, StepOutside DEF At, Section
  <2>4. CASE ~At(p, {"publish"})
    BY <2>1, <2>2, <2>4, StepOutside DEF At, Section, TypeOK
  <2> QED
    BY <2>3, <2>4
<1>4. ASSUME NEW p \in Pools, PrepareInstancePool(p) PROVE SubmitExclusive'
  <2>1. CASE Panic
    BY <2>1, RestartExclusive DEF Panic
  <2>2. CASE ~Panic
    <3>1. pass'[p].at \in {"write", "idle"} /\ OthersKeepStage(p) /\ locked' = locked
      BY <1>4, <2>2, AssignStage, ReturnStage DEF PrepareInstancePool, ReturnNow
    <3> QED
      BY <3>1, StepOutside DEF At, Section
  <2> QED
    BY <2>1, <2>2
<1>5. ASSUME NEW p \in Pools, Lookup(p) PROVE SubmitExclusive'
  <2>1. CASE prereq = "ok"
    <3>1. OthersKeepStage(p) /\ locked' = locked
      BY <1>5, <2>1 DEF Lookup, TypeOK, Pass, OthersKeepStage
    <3> QED
      BY <1>5, <3>1, StepOutside DEF Lookup, At, Section
  <2>2. CASE prereq = "missing"
    <3>1. pass'[p].at = "idle" /\ OthersKeepStage(p) /\ locked' = locked
      BY <1>5, <2>2, ReturnStage DEF Lookup, ReturnNow
    <3> QED
      BY <3>1, StepOutside DEF At, Section
  <2>3. CASE prereq = "noIngress"
    BY <1>5, <2>3, RestartExclusive DEF Lookup, Panic
  <2> QED
    BY <2>1, <2>2, <2>3 DEF TypeOK, PrereqStates
<1>6. ASSUME NEW p \in Pools, CreateInstance(p) PROVE SubmitExclusive'
  <2>1. OthersKeepStage(p) /\ locked' = locked
    BY <1>6 DEF CreateInstance, TypeOK, Pass, OthersKeepStage
  <2> QED
    BY <1>6, <2>1, StepOutside DEF CreateInstance, At, Section
<1>7. ASSUME NEW p \in Pools, RejectNetworkType(p) \/ SubmitFault(p)
      PROVE  SubmitExclusive'
  <2>1. pass'[p].at = "idle" /\ OthersKeepStage(p) /\ locked' = locked
    BY <1>7, ReturnStage DEF RejectNetworkType, ReturnNow, SubmitFault
  <2> QED
    BY <2>1, StepOutside DEF At, Section
<1>8. ASSUME NEW p \in Pools, FinishSubmit(p) PROVE SubmitExclusive'
  <2>1. OthersKeepStage(p) /\ locked' = locked
    BY <1>8, AssignStage DEF FinishSubmit
  <2> QED
    BY <1>8, <2>1, StepOutside DEF FinishSubmit, At, Section
<1>9. ASSUME NEW p \in Pools, ReconcileInstances(p) PROVE SubmitExclusive'
  <2>1. pass'[p].at = "write" /\ OthersKeepStage(p) /\ locked' = locked
    BY <1>9, AssignStage DEF ReconcileInstances
  <2> QED
    BY <2>1, StepOutside DEF At, Section
<1>10. ASSUME NEW p \in Pools, ListInstances(p) PROVE SubmitExclusive'
  <2>1. CASE Surplus(p)
    <3>1. pass'[p].at = "delete" /\ OthersKeepStage(p) /\ locked' = locked
      BY <1>10, <2>1 DEF ListInstances, TypeOK, Pass, OthersKeepStage
    <3> QED
      BY <3>1, StepOutside DEF At, Section
  <2>2. CASE ~Surplus(p)
    <3>1. pass'[p].at = "write" /\ OthersKeepStage(p) /\ locked' = locked
      BY <1>10, <2>2, AssignStage DEF ListInstances
    <3> QED
      BY <3>1, StepOutside DEF At, Section
  <2> QED
    BY <2>1, <2>2
<1>11. ASSUME NEW p \in Pools, RemoveInstance(p) PROVE SubmitExclusive'
  <2>1. CASE Panic
    BY <2>1, RestartExclusive DEF Panic
  <2>2. CASE ReturnNow(p, TRUE)
    <3>1. pass'[p].at = "idle" /\ OthersKeepStage(p) /\ locked' = locked
      BY <2>2, ReturnStage DEF ReturnNow
    <3> QED
      BY <3>1, StepOutside DEF At, Section
  <2>3. ASSUME NEW o, NEW stage \in {"write", "delete"}, NEW items,
               Assign(p, o, stage, items)
        PROVE  SubmitExclusive'
    <3>1. pass'[p].at = stage /\ OthersKeepStage(p) /\ locked' = locked
      BY <2>3, AssignStage
    <3> QED
      BY <3>1, StepOutside DEF At, Section
  <2> QED
    BY <1>11, <2>1, <2>2, <2>3 DEF RemoveInstance
<1>12. ASSUME NEW p \in Pools, Deliver(p) PROVE SubmitExclusive'
  <2>1. OthersKeepStage(p) /\ locked' = locked /\ pass'[p].at = pass[p].at
    BY <1>12 DEF Deliver, TypeOK, Pass, OthersKeepStage
  <2> QED
    BY <2>1, StepOutside DEF At
<1>13. CASE UNCHANGED <<pass, locked>>
  BY <1>13 DEF SubmitExclusive, At
<1>14. CASE Crash
  BY <1>14, RestartExclusive DEF Crash
<1>15. ASSUME NEW p \in Pools,
              \/ ReconcileNodePool(p) \/ DeletePool(p) \/ RemovePool(p)
              \/ \E c \in Counts : EditCount(p, c) \/ CreatePool(p, c)
       PROVE  UNCHANGED <<pass, locked>>
  BY <1>15 DEF ReconcileNodePool, DeletePool, RemovePool, EditCount, CreatePool, ChangePool
<1>16. ASSUME NEW n \in Names, InstanceStep(n) PROVE UNCHANGED <<pass, locked>>
  BY <1>16
     DEF InstanceStep, Provision, Manage, Finalize, Heartbeat, Collect, Evict, Rest
<1>17. Repair \/ Resync \/ UNCHANGED vars => UNCHANGED <<pass, locked>>
  BY DEF Repair, Resync, vars
<1> QED
  BY <1>1, <1>2, <1>3, <1>4, <1>5, <1>6, <1>7, <1>8, <1>9, <1>10, <1>11, <1>12,
     <1>13, <1>14, <1>15, <1>16, <1>17 DEF Next, PoolStep, Handle

(* At most one pass is between Lock and Unlock, and the lock is then held. *)
THEOREM Exclusive == Spec => []SubmitExclusive
<1>1. Init => SubmitExclusive
  BY DEF Init, SubmitExclusive, At, Section, Idle
<1> QED
  BY <1>1, ExclusiveNext, Typed, PTL DEF Spec

(***************************************************************************)
(* status.needed agrees with status.status.  The strengthening: a handler  *)
(* works on an object of a status it was picked for.  A pass that removes  *)
(* Instances has one that says "cleanupNodes", so that needed is negative  *)
(* until the last removal, the one that sets "submitted"; a pass that      *)
(* reconciles has one that does not, for it may leave the status alone.    *)
(***************************************************************************)
Removing == {"listRemove", "delete"}
Suits(stage, status) ==
  /\ stage \in Removing => status = "cleanupNodes"
  /\ stage = "list" => status \in {"submitted", "ready"}
HandlerSuits == \A p \in Pools : Suits(pass[p].at, pass[p].ip.status)
FieldsInv == NeededAgreesWithStatus /\ HandlerSuits

OthersSame(p) ==
  \A q \in Pools \ {p} :
    pool'[q] = pool[q] /\ cache'[q] = cache[q] /\ pass'[q] = pass[q]

LEMMA FieldsStep ==
  ASSUME FieldsInv, NEW p \in Pools, OthersSame(p),
         Agrees(pool'[p]), Agrees(cache'[p]), Agrees(pass'[p].ip),
         Suits(pass'[p].at, pass'[p].ip.status)
  PROVE  FieldsInv'
BY DEF FieldsInv, NeededAgreesWithStatus, HandlerSuits, OthersSame, At

LEMMA NewPoolAgrees == ASSUME NEW c, NEW uid PROVE Agrees(NewPool(c, uid))
BY DEF NewPool, Agrees

LEMMA IdleAgrees == Idle.at = "idle" /\ Agrees(Idle.ip)
BY NewPoolAgrees DEF Idle

LEMMA ReconciledAgrees ==
  ASSUME NEW ip \in InstancePoolObject, NEW ready \in Nat, NEW present \in Nat,
         ip.status \in {"submitted", "ready"}
  PROVE  Agrees(Reconciled(ip, ready, present))
<1> DEFINE needed == ip.count - present
           o == Reconciled(ip, ready, present)
<1>1. CASE ip.requested = ready /\ ip.requested = ip.count
  <2>1. o.status = "ready" /\ o.needed = 0
    BY <1>1 DEF Reconciled, InstancePoolObject
  <2> QED
    BY <2>1 DEF Agrees
<1>2. CASE ~(ip.requested = ready /\ ip.requested = ip.count)
  <2>1. /\ o.needed = needed /\ needed \in Int
        /\ o.status = IF needed < 0 THEN "cleanupNodes"
                      ELSE IF needed > 0 THEN "tokenReady" ELSE ip.status
    BY <1>2 DEF Reconciled, InstancePoolObject
  <2>2. CASE needed < 0
    BY <2>1, <2>2 DEF Agrees
  <2>3. CASE needed > 0
    BY <2>1, <2>3 DEF Agrees
  <2>4. CASE needed = 0
    BY <2>1, <2>4 DEF Agrees
  <2> QED
    BY <2>1, <2>2, <2>3, <2>4
<1> QED
  BY <1>1, <1>2

(* Assigning an object that agrees, when the step leaves pool alone.       *)
LEMMA AssignFields ==
  ASSUME TypeOK, FieldsInv, NEW p \in Pools, NEW o, NEW stage, NEW items,
         Assign(p, o, stage, items), UNCHANGED pool, Agrees(o),
         Suits(stage, o.status)
  PROVE  FieldsInv'
<1>1. pass'[p].ip = o /\ pass'[p].at = stage /\ OthersSame(p)
  BY DEF TypeOK, Pass, Assign, OthersSame
<1>2. cache'[p] = o \/ cache'[p] = cache[p]
  BY DEF TypeOK, Assign
<1>3. Agrees(pool'[p]) /\ Agrees(cache'[p])
  BY <1>2 DEF FieldsInv, NeededAgreesWithStatus
<1> QED
  BY <1>1, <1>3, FieldsStep DEF At

(* Ending the pass, with or without having stored its object.              *)
LEMMA ReturnFields ==
  ASSUME TypeOK, FieldsInv, NEW p \in Pools, NEW failed, Return(p, failed),
         UNCHANGED cache, UNCHANGED pool \/ Store(p)
  PROVE  FieldsInv'
<1>1. pass'[p] = Idle
  BY DEF Return, TypeOK
<1>2. OthersSame(p)
  BY DEF Return, TypeOK, Store, OthersSame
<1>3. pool'[p] = pool[p] \/ pool'[p] = Written(p)
  BY DEF Written, Store, TypeOK
<1>4. Agrees(Written(p))
  BY DEF Written, Agrees, FieldsInv, NeededAgreesWithStatus, TypeOK, Pass, InstancePoolObject
<1>5. Agrees(pool'[p]) /\ Agrees(cache'[p])
  BY <1>3, <1>4 DEF FieldsInv, NeededAgreesWithStatus
<1> QED
  BY <1>1, <1>2, <1>5, IdleAgrees, FieldsStep DEF At, Removing, Suits

LEMMA RestartFields == FieldsInv /\ Restart => FieldsInv'
BY IdleAgrees
   DEF Restart, store, FieldsInv, NeededAgreesWithStatus, HandlerSuits, At, Removing, Suits

LEMMA FieldsNext == TypeOK /\ FieldsInv /\ [Next]_vars => FieldsInv'
<1> SUFFICES ASSUME TypeOK, FieldsInv, [Next]_vars PROVE FieldsInv'
  OBVIOUS
<1>1. ASSUME NEW p \in Pools, Start(p) PROVE FieldsInv'
  <2>1. /\ \/ pass'[p] = Idle
           \/ pass'[p].at = Handler(cache[p].status) /\ pass'[p].ip = cache[p]
        /\ OthersSame(p) /\ UNCHANGED <<pool, cache>>
    BY <1>1 DEF Start, TypeOK, Idle, OthersSame, store, watch
  <2>2. Suits(Handler(cache[p].status), cache[p].status)
    BY DEF Handler, TypeOK, InstancePoolObject, Statuses, Removing, Suits
  <2>3. Suits(Idle.at, Idle.ip.status)
    BY IdleAgrees DEF Removing, Suits
  <2>4. Agrees(pass'[p].ip) /\ Suits(pass'[p].at, pass'[p].ip.status)
    BY <2>1, <2>2, <2>3, IdleAgrees DEF FieldsInv, NeededAgreesWithStatus
  <2> QED
    BY <2>1, <2>4, FieldsStep DEF FieldsInv, NeededAgreesWithStatus
<1>2. ASSUME NEW p \in Pools, AcquireLock(p) \/ CreateInstance(p) \/ Deliver(p)
      PROVE  FieldsInv'
  <2>1. /\ pass'[p].ip = pass[p].ip /\ OthersSame(p) /\ UNCHANGED pool
        /\ cache'[p] \in {cache[p], pool[p]}
    BY <1>2 DEF AcquireLock, Lock, CreateInstance, Deliver, TypeOK, Pass, OthersSame, store, watch
  <2>2. pass'[p].at \in {"lookup", pass[p].at}
    BY <1>2 DEF AcquireLock, Lock, CreateInstance, Deliver, TypeOK, Pass
  <2>3. Suits(pass'[p].at, pass'[p].ip.status)
    BY <2>1, <2>2 DEF FieldsInv, HandlerSuits, Suits, Removing
  <2> QED
    BY <2>1, <2>3, FieldsStep DEF FieldsInv, NeededAgreesWithStatus
<1>3. ASSUME NEW p \in Pools,
             \/ UpdateStatus(p) \/ Fault(p) \/ SubmitFault(p)
             \/ RejectNetworkType(p) \/ ReturnNow(p, TRUE) \/ ReturnNow(p, FALSE)
      PROVE  FieldsInv'
  <2>1. UNCHANGED cache /\ (UNCHANGED pool \/ Store(p))
    BY <1>3
       DEF UpdateStatus, Fault, SubmitFault, RejectNetworkType, ReturnNow, store, watch
  <2>2. \E failed : Return(p, failed)
    BY <1>3 DEF UpdateStatus, Fault, SubmitFault, RejectNetworkType, ReturnNow
  <2> QED
    BY <2>1, <2>2, ReturnFields
<1>4. CASE Panic \/ Crash
  BY <1>4, RestartFields DEF Panic, Crash
<1>5. ASSUME NEW p \in Pools, PrepareInstancePool(p) PROVE FieldsInv'
  <2> DEFINE o == [pass[p].ip EXCEPT !.needed = pass[p].ip.count,
                     !.status = "tokenReady", !.requested = pass[p].ip.count]
  <2>1. CASE config = "ok"
    <3>1. Agrees(o)
      BY DEF Agrees, TypeOK, Pass, InstancePoolObject
    <3>2. Assign(p, o, "write", {}) /\ UNCHANGED pool
      BY <1>5, <2>1 DEF PrepareInstancePool, store
    <3> HIDE DEF o
    <3> QED
      BY <3>1, <3>2, AssignFields DEF Removing, Suits
  <2>2. CASE config # "ok"
    <3>1. Panic \/ ReturnNow(p, TRUE) \/ ReturnNow(p, FALSE)
      BY <1>5, <2>2 DEF PrepareInstancePool
    <3> QED
      BY <3>1, <1>3, <1>4
  <2> QED
    BY <2>1, <2>2
<1>6. ASSUME NEW p \in Pools, Lookup(p) PROVE FieldsInv'
  <2>1. CASE prereq = "ok"
    <3>1. /\ pass'[p].ip = pass[p].ip /\ pass'[p].at = "create" /\ OthersSame(p)
          /\ UNCHANGED <<pool, cache>>
      BY <1>6, <2>1 DEF Lookup, TypeOK, Pass, OthersSame, store, watch
    <3> QED
      BY <3>1, FieldsStep DEF FieldsInv, NeededAgreesWithStatus, At, Removing, Suits
  <2>2. CASE prereq # "ok"
    BY <1>3, <1>4, <1>6, <2>2 DEF Lookup
  <2> QED
    BY <2>1, <2>2
<1>7. ASSUME NEW p \in Pools, FinishSubmit(p) PROVE FieldsInv'
  <2>1. Agrees(Submitted(pass[p].ip))
    BY DEF Agrees, Submitted, TypeOK, Pass, InstancePoolObject
  <2>2. Assign(p, Submitted(pass[p].ip), "publish", {}) /\ UNCHANGED pool
    BY <1>7 DEF FinishSubmit, store
  <2> QED
    BY <2>1, <2>2, AssignFields DEF Removing, Suits
<1>8. ASSUME NEW p \in Pools, ReconcileInstances(p) PROVE FieldsInv'
  <2> DEFINE o == Reconciled(pass[p].ip, Cardinality(Managed(p)),
                             Cardinality(Members(p)))
  <2>1. Agrees(o)
    <3>1. pass[p].ip.status \in {"submitted", "ready"}
      BY <1>8 DEF ReconcileInstances, FieldsInv, HandlerSuits, Suits, At
    <3> QED
      BY <3>1, MembersCount, ReconciledAgrees DEF TypeOK, Pass
  <2>2. Assign(p, o, "write", {}) /\ UNCHANGED pool
    BY <1>8 DEF ReconcileInstances, store
  <2> HIDE DEF o
  <2> QED
    BY <2>1, <2>2, AssignFields DEF Removing, Suits
<1>9. ASSUME NEW p \in Pools, ListInstances(p) PROVE FieldsInv'
  <2>1. pass[p].ip.status = "cleanupNodes" /\ pass[p].ip.needed < 0
    BY <1>9 DEF ListInstances, FieldsInv, HandlerSuits, At, Removing, Suits,
                NeededAgreesWithStatus, Agrees
  <2>2. CASE Surplus(p)
    <3>1. /\ pass'[p].ip = pass[p].ip /\ pass'[p].at = "delete"
          /\ OthersSame(p) /\ UNCHANGED <<pool, cache>>
      BY <1>9, <2>2 DEF ListInstances, TypeOK, Pass, OthersSame, store
    <3> QED
      BY <2>1, <3>1, FieldsStep DEF FieldsInv, NeededAgreesWithStatus, Suits
  <2>3. CASE ~Surplus(p)
    <3> DEFINE o == [pass[p].ip EXCEPT !.status = "submitted"]
    <3>1. Agrees(o)
      BY <2>1 DEF Agrees, TypeOK, Pass, InstancePoolObject
    <3>2. Assign(p, o, "write", {}) /\ UNCHANGED pool
      BY <1>9, <2>3 DEF ListInstances, store
    <3> HIDE DEF o
    <3> QED
      BY <3>1, <3>2, AssignFields DEF Removing, Suits
  <2> QED
    BY <2>2, <2>3
<1>10. ASSUME NEW p \in Pools, RemoveInstance(p) PROVE FieldsInv'
  <2> DEFINE ip == [pass[p].ip EXCEPT !.requested = @ - 1, !.needed = @ + 1]
             last == ip.needed >= 0
             o == IF last THEN [ip EXCEPT !.status = "submitted"] ELSE ip
             stage == IF last THEN "write" ELSE "delete"
  <2>1. /\ pass[p].ip.status = "cleanupNodes" /\ pass[p].ip.needed < 0
        /\ pass[p].ip.needed \in Int
    BY <1>10 DEF RemoveInstance, FieldsInv, HandlerSuits, At, Removing, Suits,
                 NeededAgreesWithStatus, Agrees, TypeOK, Pass, InstancePoolObject
  <2>2. ip.needed = pass[p].ip.needed + 1 /\ ip.status = "cleanupNodes"
    BY <2>1 DEF TypeOK, Pass, InstancePoolObject
  <2>3. Agrees(o) /\ Suits(stage, o.status)
    <3>1. CASE last
      <4>1. o.needed = ip.needed /\ o.status = "submitted" /\ ip.needed = 0
        BY <2>1, <2>2, <3>1 DEF TypeOK, Pass, InstancePoolObject
      <4> QED
        BY <3>1, <4>1 DEF Agrees, Suits, Removing
    <3>2. CASE ~last
      BY <2>1, <2>2, <3>2 DEF Agrees, Suits
    <3> QED
      BY <3>1, <3>2
  <2>4. \/ Panic \/ ReturnNow(p, TRUE)
        \/ \E n \in Names : Assign(p, o, stage, pass[p].items \ {n}) /\ UNCHANGED pool
    BY <1>10 DEF RemoveInstance
  <2> HIDE DEF o, stage
  <2> QED
    BY <1>3, <1>4, <2>3, <2>4, AssignFields
<1>11. ASSUME NEW p \in Pools,
              \/ \E c \in Counts : EditCount(p, c) \/ CreatePool(p, c)
              \/ DeletePool(p) \/ RemovePool(p)
       PROVE  FieldsInv'
  <2>1. PICK o : ChangePool(p, o) /\ Agrees(o)
    <3>1. ASSUME NEW c PROVE Agrees([pool[p] EXCEPT !.count = c])
      BY DEF Agrees, FieldsInv, NeededAgreesWithStatus, TypeOK, InstancePoolObject
    <3>2. ASSUME NEW life PROVE Agrees([pool[p] EXCEPT !.life = life])
      BY DEF Agrees, FieldsInv, NeededAgreesWithStatus, TypeOK, InstancePoolObject
    <3> QED
      BY <1>11, <3>1, <3>2, NewPoolAgrees
         DEF EditCount, CreatePool, DeletePool, RemovePool
  <2>2. pool'[p] = o /\ OthersSame(p) /\ UNCHANGED <<cache, pass>>
    BY <2>1 DEF ChangePool, TypeOK, OthersSame
  <2> QED
    BY <2>1, <2>2, FieldsStep
       DEF FieldsInv, NeededAgreesWithStatus, HandlerSuits, At
<1>12. CASE UNCHANGED <<pool, cache, pass>>
  BY <1>12 DEF FieldsInv, NeededAgreesWithStatus, HandlerSuits, At
<1>13. ASSUME NEW p \in Pools, ReconcileNodePool(p) PROVE UNCHANGED <<pool, cache, pass>>
  BY <1>13 DEF ReconcileNodePool, store
<1>14. ASSUME NEW n \in Names, InstanceStep(n) PROVE UNCHANGED <<pool, cache, pass>>
  BY <1>14
     DEF InstanceStep, Provision, Manage, Finalize, Heartbeat, Collect, Evict, Rest
<1>15. Repair \/ Resync \/ UNCHANGED vars => UNCHANGED <<pool, cache, pass>>
  BY DEF Repair, Resync, vars, store, watch
<1> QED
  BY <1>1, <1>2, <1>3, <1>4, <1>5, <1>6, <1>7, <1>8, <1>9, <1>10, <1>11, <1>12,
     <1>13, <1>14, <1>15 DEF Next, PoolStep, Handle

LEMMA FieldsAlways == Spec => []FieldsInv
<1>1. Init => FieldsInv
  BY NewPoolAgrees, IdleAgrees, ConstantsAssumption
     DEF Init, FieldsInv, NeededAgreesWithStatus, HandlerSuits, At, Removing, Suits
<1> QED
  BY <1>1, FieldsNext, Typed, PTL DEF Spec

(* Whatever object a handler is handed, stored, cached or in its hands,    *)
(* its needed is of the sign its status stands for.                        *)
THEOREM FieldsAgree == Spec => []NeededAgreesWithStatus
<1>1. FieldsInv => NeededAgreesWithStatus
  BY DEF FieldsInv
<1> QED
  BY <1>1, FieldsAlways, PTL

(***************************************************************************)
(* instanceLock is released, provided submitInstances takes none of its    *)
(* early returns: the two theorems about the lock say together that those  *)
(* returns are all that is wrong with it.                                  *)
(***************************************************************************)
NoEarlyReturn ==
  InvalidPools = {} /\ "missing" \notin InitPrereq /\ "submitFault" \notin Disturbances

ReleasedInv == LockReleased /\ prereq \in {"ok", "noIngress"}

(* A step of p that keeps the lock only while p is inside.                 *)
LEMMA StepReleases ==
  ASSUME LockReleased, NEW p \in Pools, OthersKeepStage(p), locked' => locked,
         At(p, Section) /\ locked' => At(p, Section)'
  PROVE  LockReleased'
BY DEF LockReleased, OthersKeepStage, At

LEMMA ReleasedNext ==
  ASSUME NoEarlyReturn, TypeOK, ReleasedInv, [Next]_vars
  PROVE  ReleasedInv'
<1>1. prereq' \in {"ok", "noIngress"}
  <2>1. Repair => prereq' = "ok"
    BY DEF Repair
  <2>2. Crash \/ Resync \/ UNCHANGED vars => UNCHANGED prereq
    BY DEF Crash, Resync, Disturb, vars, world
  <2>3. ASSUME NEW n \in Names, InstanceStep(n) PROVE UNCHANGED prereq
    BY <2>3 DEF InstanceStep, Provision, Manage, Finalize, Heartbeat, Collect, Evict,
                Disturb, world
  <2>4. ASSUME NEW p \in Pools, RemoveInstance(p) PROVE UNCHANGED prereq
    <3>1. \/ Panic \/ ReturnNow(p, TRUE)
          \/ \E o, stage, items : Assign(p, o, stage, items)
      BY <2>4 DEF RemoveInstance
    <3> QED
      BY <3>1 DEF Panic, Restart, ReturnNow, Assign, world
  <2>5. ASSUME NEW p \in Pools,
               \/ PrepareInstancePool(p) \/ Lookup(p) \/ RejectNetworkType(p)
               \/ CreateInstance(p)
        PROVE  UNCHANGED prereq
    BY <2>5 DEF PrepareInstancePool, Lookup, RejectNetworkType, CreateInstance,
                Panic, Restart, ReturnNow, Assign, world
  <2>6. ASSUME NEW p \in Pools,
               FinishSubmit(p) \/ ReconcileInstances(p) \/ ListInstances(p)
        PROVE  UNCHANGED prereq
    BY <2>6 DEF FinishSubmit, ReconcileInstances, ListInstances, Assign, world
  <2>7. ASSUME NEW p \in Pools,
               \/ Start(p) \/ AcquireLock(p) \/ UpdateStatus(p) \/ Fault(p)
               \/ SubmitFault(p) \/ Deliver(p) \/ ReconcileNodePool(p)
               \/ \E c \in Counts : EditCount(p, c) \/ CreatePool(p, c)
               \/ DeletePool(p) \/ RemovePool(p)
        PROVE  UNCHANGED prereq
    BY <2>7 DEF Start, AcquireLock, UpdateStatus, Fault, SubmitFault, Deliver,
                ReconcileNodePool, EditCount, CreatePool, DeletePool, RemovePool,
                Disturb, world
  <2>8. UNCHANGED prereq \/ prereq' = "ok"
    BY <2>1, <2>2, <2>3, <2>4, <2>5, <2>6, <2>7 DEF Next, PoolStep, Handle
  <2> QED
    BY <2>8 DEF ReleasedInv
<1>2. LockReleased
  BY DEF ReleasedInv
<1>3. Restart => LockReleased'
  BY DEF Restart, LockReleased
<1>4. ASSUME NEW p \in Pools, ReturnNow(p, TRUE) \/ ReturnNow(p, FALSE), ~At(p, Section)
      PROVE  LockReleased'
  <2>1. OthersKeepStage(p) /\ locked' = locked
    BY <1>4, ReturnStage DEF ReturnNow
  <2> QED
    BY <1>2, <1>4, <2>1, StepReleases
<1>5. ASSUME NEW p \in Pools, NEW o, NEW stage, NEW items, Assign(p, o, stage, items),
             At(p, Section) => stage \in Section
      PROVE  LockReleased'
  <2>1. pass'[p].at = stage /\ OthersKeepStage(p) /\ locked' = locked
    BY <1>5, AssignStage
  <2> QED
    BY <1>2, <1>5, <2>1, StepReleases DEF At
<1>6. ASSUME NEW p \in Pools, Start(p) PROVE LockReleased'
  <2>1. OthersKeepStage(p) /\ locked' = locked /\ pass[p].at = "idle"
    BY <1>6 DEF Start, Busy, TypeOK, OthersKeepStage
  <2> QED
    BY <1>2, <2>1, StepReleases DEF At, Section
<1>7. ASSUME NEW p \in Pools, AcquireLock(p) PROVE LockReleased'
  <2>1. pass'[p].at = "lookup"
    BY <1>7 DEF AcquireLock, TypeOK, Pass
  <2> QED
    BY <2>1 DEF LockReleased, At, Section
<1>8. ASSUME NEW p \in Pools, UpdateStatus(p) \/ Fault(p) PROVE LockReleased'
  <2>1. OthersKeepStage(p) /\ locked' = (locked /\ ~At(p, {"publish"}))
    BY <1>8, ReturnStage DEF UpdateStatus, Fault, Release
  <2>2. At(p, Section) => At(p, {"publish"})
    BY <1>8 DEF UpdateStatus, Fault, At, Section
  <2> QED
    BY <1>2, <2>1, <2>2, StepReleases
<1>9. ASSUME NEW p \in Pools, PrepareInstancePool(p) PROVE LockReleased'
  BY <1>3, <1>4, <1>5, <1>9 DEF PrepareInstancePool, Panic, At, Section
<1>10. ASSUME NEW p \in Pools, Lookup(p) PROVE LockReleased'
  <2>1. CASE prereq = "ok"
    <3>1. OthersKeepStage(p) /\ locked' = locked /\ pass'[p].at = "create"
      BY <1>10, <2>1 DEF Lookup, TypeOK, Pass, OthersKeepStage
    <3> QED
      BY <1>2, <3>1, StepReleases DEF At, Section
  <2>2. CASE prereq = "noIngress"
    BY <1>3, <1>10, <2>2 DEF Lookup, Panic
  <2> QED
    BY <2>1, <2>2 DEF ReleasedInv
<1>11. ASSUME NEW p \in Pools, CreateInstance(p) \/ Deliver(p) PROVE LockReleased'
  <2>1. OthersKeepStage(p) /\ locked' = locked /\ pass'[p].at = pass[p].at
    BY <1>11 DEF CreateInstance, Deliver, TypeOK, Pass, OthersKeepStage
  <2> QED
    BY <1>2, <2>1, StepReleases DEF At
<1>12. ASSUME NEW p \in Pools, RejectNetworkType(p) \/ SubmitFault(p)
       PROVE  LockReleased'
  BY <1>12 DEF RejectNetworkType, SubmitFault, Disturb, NoEarlyReturn
<1>13. ASSUME NEW p \in Pools, FinishSubmit(p) PROVE LockReleased'
  BY <1>5, <1>13 DEF FinishSubmit, Section
<1>14. ASSUME NEW p \in Pools, ReconcileInstances(p) PROVE LockReleased'
  BY <1>5, <1>14 DEF ReconcileInstances, At, Section
<1>15. ASSUME NEW p \in Pools, ListInstances(p) PROVE LockReleased'
  <2>1. CASE Surplus(p)
    <3>1. OthersKeepStage(p) /\ locked' = locked /\ ~At(p, Section)
      BY <1>15, <2>1
         DEF ListInstances, TypeOK, Pass, OthersKeepStage, At, Section
    <3> QED
      BY <1>2, <3>1, StepReleases
  <2>2. CASE ~Surplus(p)
    BY <1>5, <1>15, <2>2 DEF ListInstances, At, Section
  <2> QED
    BY <2>1, <2>2
<1>16. ASSUME NEW p \in Pools, RemoveInstance(p) PROVE LockReleased'
  <2>1. ~At(p, Section)
    BY <1>16 DEF RemoveInstance, At, Section
  <2>2. \/ Panic \/ ReturnNow(p, TRUE)
        \/ \E o, stage, items : Assign(p, o, stage, items)
    BY <1>16 DEF RemoveInstance
  <2> QED
    BY <1>3, <1>4, <1>5, <2>1, <2>2 DEF Panic
<1>17. ASSUME UNCHANGED <<pass, locked>> PROVE LockReleased'
  <2>1. pass' = pass /\ locked' = locked
    BY <1>17
  <2> QED
    BY <1>2, <2>1 DEF LockReleased, At, Section
<1>18. ASSUME NEW p \in Pools,
              \/ ReconcileNodePool(p) \/ DeletePool(p) \/ RemovePool(p)
              \/ \E c \in Counts : EditCount(p, c) \/ CreatePool(p, c)
       PROVE  UNCHANGED <<pass, locked>>
  BY <1>18 DEF ReconcileNodePool, DeletePool, RemovePool, EditCount, CreatePool, ChangePool
<1>19. ASSUME NEW n \in Names, InstanceStep(n) PROVE UNCHANGED <<pass, locked>>
  BY <1>19
     DEF InstanceStep, Provision, Manage, Finalize, Heartbeat, Collect, Evict, Rest
<1>20. Repair \/ Resync \/ UNCHANGED vars => UNCHANGED <<pass, locked>>
  BY DEF Repair, Resync, vars
<1>21. Panic \/ Crash => LockReleased'
  BY <1>3 DEF Panic, Crash
<1>22. ASSUME NEW p \in Pools, PoolStep(p) PROVE LockReleased'
  BY <1>6, <1>7, <1>8, <1>9, <1>10, <1>11, <1>12, <1>13, <1>14, <1>15, <1>16, <1>17,
     <1>18, <1>22 DEF PoolStep, Handle
<1>23. LockReleased'
  BY <1>17, <1>19, <1>20, <1>21, <1>22 DEF Next
<1> QED
  BY <1>1, <1>23 DEF ReleasedInv

(* With the lookups and creations of submitInstances succeeding and no     *)
(* pool invalid, a taken lock always has a pass inside that will release   *)
(* it, whatever else fails, crashes or panics.                             *)
THEOREM Released ==
  ASSUME NoEarlyReturn
  PROVE  Spec => []LockReleased
<1>1. Init => ReleasedInv
  BY ConstantsAssumption
     DEF ConstantsAssumption, PrereqStates, NoEarlyReturn, Init, ReleasedInv, LockReleased
<1>2. TypeOK /\ ReleasedInv /\ [Next]_vars => ReleasedInv'
  BY ReleasedNext
<1>3. ReleasedInv => LockReleased
  BY DEF ReleasedInv
<1> QED
  BY <1>1, <1>2, <1>3, Typed, PTL DEF Spec
(***************************************************************************)
(* What a handler writes.  The steps are of six kinds, as far as the pools,*)
(* their cached copies and the objects of the passes go.                   *)
(***************************************************************************)
Writing(p) == At(p, {"write", "publish"})

(* Nobody has decided on a status yet, and nobody does in this step.       *)
Proceeds(p) ==
  /\ pass'[p].ip = pass[p].ip /\ pass'[p].shared = pass[p].shared
  /\ ~Writing(p) /\ pass'[p].at \notin {"write", "publish"}
  /\ \A q \in Pools \ {p} : pass'[q] = pass[q]
  /\ UNCHANGED <<pool, cache, stale>>

(* The handler computes what it will write; "ready" is right or was there. *)
Justified(o) == o.ready = o.count /\ o.requested = o.count

Decides(p, o, stage) ==
  /\ o.uid = pass[p].ip.uid /\ o.count = pass[p].ip.count
  /\ ~Writing(p)
  /\ stage \notin {"write", "publish"} => o.status = pass[p].ip.status
  /\ o.status = "ready" => pass[p].ip.status = "ready" \/ Justified(o)

(* The handler ends, with its write or without.                            *)
Ends(p) ==
  /\ pass' = [pass EXCEPT ![p] = Idle] /\ UNCHANGED cache
  /\ \/ /\ UNCHANGED <<pool, stale>>
        /\ Writing(p) /\ Current(p) => "fault" \in Disturbances
     \/ Writing(p) /\ Current(p) /\ Store(p)

(* Others change the pool: its status goes only where its uid goes.        *)
Changes(p, o) ==
  /\ ChangePool(p, o)
  /\ IF o.uid = pool[p].uid THEN o.status = pool[p].status ELSE o.status = ""

Kinds(p) ==
  \/ Start(p) \/ Deliver(p) \/ Proceeds(p) \/ Ends(p)
  \/ \E o, stage, items :
       Assign(p, o, stage, items) /\ UNCHANGED pool /\ Decides(p, o, stage)
  \/ \E o : Changes(p, o)

LEMMA ReconciledDecides ==
  ASSUME NEW ip \in InstancePoolObject, NEW ready \in Nat, NEW present \in Nat
  PROVE  LET o == Reconciled(ip, ready, present)
         IN /\ o.uid = ip.uid /\ o.count = ip.count
            /\ o.status = "ready" => ip.status = "ready" \/ Justified(o)
<1> DEFINE o == Reconciled(ip, ready, present)
<1>1. CASE ip.requested = ready /\ ip.requested = ip.count
  BY <1>1 DEF Reconciled, InstancePoolObject, Justified
<1>2. CASE ~(ip.requested = ready /\ ip.requested = ip.count)
  <2>1. /\ o.uid = ip.uid /\ o.count = ip.count
        /\ o.status \in {"cleanupNodes", "tokenReady", ip.status}
    BY <1>2 DEF Reconciled, InstancePoolObject
  <2> QED
    BY <2>1
<1> QED
  BY <1>1, <1>2

LEMMA PoolStepKinds ==
  ASSUME TypeOK
  PROVE  \A p \in Pools :
           PoolStep(p) => Restart \/ UNCHANGED <<pool, cache, stale, pass>> \/ Kinds(p)
<1>1. ASSUME NEW p \in Pools, UpdateStatus(p) \/ Fault(p) PROVE Kinds(p)
  BY <1>1 DEF UpdateStatus, Fault, Disturb, Return, Kinds, Ends, Writing, At, store
<1>2. ASSUME NEW p \in Pools, ReturnNow(p, TRUE) \/ ReturnNow(p, FALSE), ~Writing(p)
      PROVE  Kinds(p)
  BY <1>2 DEF ReturnNow, Return, Kinds, Ends, store, watch
<1>3. ASSUME NEW p \in Pools, SubmitFault(p) \/ RejectNetworkType(p)
      PROVE  Kinds(p)
  <2>1. ~Writing(p)
    BY <1>3 DEF SubmitFault, RejectNetworkType, Writing, At
  <2>2. pass' = [pass EXCEPT ![p] = Idle] /\ UNCHANGED <<pool, cache, stale>>
    BY <1>3 DEF SubmitFault, RejectNetworkType, ReturnNow, Return, store, watch
  <2> QED
    BY <2>1, <2>2 DEF Kinds, Ends
<1>4. ASSUME NEW p \in Pools, AcquireLock(p) \/ CreateInstance(p) PROVE Proceeds(p)
  BY <1>4 DEF AcquireLock, CreateInstance, TypeOK, Pass, Proceeds, Writing, At, store, watch
<1>5. ASSUME NEW p \in Pools, Lookup(p) PROVE Restart \/ Kinds(p)
  <2>1. CASE prereq = "ok"
    <3>1. Proceeds(p)
      BY <1>5, <2>1 DEF Lookup, TypeOK, Pass, Proceeds, Writing, At, store, watch
    <3> QED
      BY <3>1 DEF Kinds
  <2>2. CASE prereq # "ok"
    <3>1. ~Writing(p)
      BY <1>5 DEF Lookup, Writing, At
    <3> QED
      BY <1>2, <1>5, <2>2, <3>1 DEF Lookup, Panic
  <2> QED
    BY <2>1, <2>2
<1>6. ASSUME NEW p \in Pools, PrepareInstancePool(p) PROVE Restart \/ Kinds(p)
  <2> DEFINE ip == pass[p].ip
             o == [ip EXCEPT !.needed = ip.count, !.status = "tokenReady",
                             !.requested = ip.count]
  <2>1. ~Writing(p)
    BY <1>6 DEF PrepareInstancePool, Writing, At
  <2>2. CASE config = "ok"
    <3>1. Assign(p, o, "write", {}) /\ UNCHANGED pool
      BY <1>6, <2>2 DEF PrepareInstancePool, store
    <3>2. o.uid = ip.uid /\ o.count = ip.count /\ o.status = "tokenReady"
      BY DEF TypeOK, Pass, InstancePoolObject
    <3> HIDE DEF o
    <3> QED
      BY <2>1, <3>1, <3>2 DEF Kinds, Decides
  <2>3. CASE config # "ok"
    <3>1. Panic \/ ReturnNow(p, TRUE) \/ ReturnNow(p, FALSE)
      BY <1>6, <2>3 DEF PrepareInstancePool
    <3> QED
      BY <1>2, <2>1, <3>1 DEF Panic
  <2> QED
    BY <2>2, <2>3
<1>7. ASSUME NEW p \in Pools, FinishSubmit(p) PROVE Kinds(p)
  <2> DEFINE o == Submitted(pass[p].ip)
  <2>1. Assign(p, o, "publish", {}) /\ UNCHANGED pool /\ ~Writing(p)
    BY <1>7 DEF FinishSubmit, Writing, At, store
  <2>2. o.uid = pass[p].ip.uid /\ o.count = pass[p].ip.count /\ o.status = "submitted"
    BY DEF TypeOK, Pass, InstancePoolObject, Submitted
  <2> HIDE DEF o
  <2> QED
    BY <2>1, <2>2 DEF Kinds, Decides
<1>8. ASSUME NEW p \in Pools, ReconcileInstances(p) PROVE Kinds(p)
  <2> DEFINE o == Reconciled(pass[p].ip, Cardinality(Managed(p)),
                             Cardinality(Members(p)))
  <2>1. Assign(p, o, "write", {}) /\ UNCHANGED pool /\ ~Writing(p)
    BY <1>8 DEF ReconcileInstances, Writing, At, store
  <2>2. Decides(p, o, "write")
    BY <2>1, MembersCount, ReconciledDecides DEF TypeOK, Pass, Decides
  <2> HIDE DEF o
  <2> QED
    BY <2>1, <2>2 DEF Kinds
<1>9. ASSUME NEW p \in Pools, ListInstances(p) PROVE Kinds(p)
  <2> DEFINE o == [pass[p].ip EXCEPT !.status = "submitted"]
  <2>1. ~Writing(p) /\ UNCHANGED pool
    BY <1>9 DEF ListInstances, Writing, At, store
  <2>2. CASE Surplus(p)
    <3>1. Proceeds(p)
      BY <1>9, <2>1, <2>2 DEF ListInstances, TypeOK, Pass, Proceeds
    <3> QED
      BY <3>1 DEF Kinds
  <2>3. CASE ~Surplus(p)
    <3>1. Assign(p, o, "write", {})
      BY <1>9, <2>3 DEF ListInstances
    <3>2. o.uid = pass[p].ip.uid /\ o.count = pass[p].ip.count /\ o.status = "submitted"
      BY DEF TypeOK, Pass, InstancePoolObject
    <3> HIDE DEF o
    <3> QED
      BY <2>1, <3>1, <3>2 DEF Kinds, Decides
  <2> QED
    BY <2>2, <2>3
<1>10. ASSUME NEW p \in Pools, RemoveInstance(p) PROVE Restart \/ Kinds(p)
  <2> DEFINE ip == [pass[p].ip EXCEPT !.requested = @ - 1, !.needed = @ + 1]
             last == ip.needed >= 0
             o == IF last THEN [ip EXCEPT !.status = "submitted"] ELSE ip
             stage == IF last THEN "write" ELSE "delete"
  <2>1. ~Writing(p)
    BY <1>10 DEF RemoveInstance, Writing, At
  <2>2. /\ o.uid = pass[p].ip.uid /\ o.count = pass[p].ip.count
        /\ o.status = IF last THEN "submitted" ELSE pass[p].ip.status
    <3>1. /\ ip.uid = pass[p].ip.uid /\ ip.count = pass[p].ip.count
          /\ ip.status = pass[p].ip.status /\ ip \in [DOMAIN ip -> {ip[f] : f \in DOMAIN ip}]
          /\ {"uid", "count", "status"} \subseteq DOMAIN ip
      BY DEF TypeOK, Pass, InstancePoolObject
    <3> HIDE DEF ip
    <3> QED
      BY <3>1
  <2>3. Decides(p, o, stage)
    BY <2>1, <2>2 DEF Decides
  <2>4. \/ Panic \/ ReturnNow(p, TRUE)
        \/ \E items : Assign(p, o, stage, items) /\ UNCHANGED pool
    BY <1>10 DEF RemoveInstance
  <2> HIDE DEF o, stage
  <2> QED
    BY <1>2, <2>1, <2>3, <2>4 DEF Panic, Kinds
<1>11. ASSUME NEW p \in Pools, NEW c \in Counts, EditCount(p, c) \/ CreatePool(p, c)
       PROVE  Kinds(p)
  <2>1. CASE EditCount(p, c)
    <3> DEFINE o == [pool[p] EXCEPT !.count = c]
    <3>1. ChangePool(p, o)
      BY <2>1 DEF EditCount
    <3>2. o.uid = pool[p].uid /\ o.status = pool[p].status
      BY DEF TypeOK, InstancePoolObject
    <3> HIDE DEF o
    <3> QED
      BY <3>1, <3>2 DEF Kinds, Changes
  <2>2. CASE CreatePool(p, c)
    <3> DEFINE o == NewPool(c, pool[p].uid + 1)
    <3>1. ChangePool(p, o)
      BY <2>2 DEF CreatePool
    <3>2. o.uid # pool[p].uid /\ o.status = ""
      BY DEF NewPool, TypeOK, InstancePoolObject
    <3> HIDE DEF o
    <3> QED
      BY <3>1, <3>2 DEF Kinds, Changes
  <2> QED
    BY <1>11, <2>1, <2>2
<1>12. ASSUME NEW p \in Pools, DeletePool(p) \/ RemovePool(p) PROVE Kinds(p)
  <2>1. PICK life : ChangePool(p, [pool[p] EXCEPT !.life = life])
    BY <1>12 DEF DeletePool, RemovePool
  <2> DEFINE o == [pool[p] EXCEPT !.life = life]
  <2>2. o.uid = pool[p].uid /\ o.status = pool[p].status
    BY DEF TypeOK, InstancePoolObject
  <2>3. ChangePool(p, o)
    BY <2>1
  <2> HIDE DEF o
  <2> QED
    BY <2>2, <2>3 DEF Kinds, Changes
<1>13. ASSUME NEW p \in Pools, ReconcileNodePool(p)
       PROVE  UNCHANGED <<pool, cache, stale, pass>>
  BY <1>13 DEF ReconcileNodePool, store
<1>14. ASSUME NEW p \in Pools, Start(p) \/ Deliver(p) PROVE Kinds(p)
  BY <1>14 DEF Kinds
<1>15. ASSUME NEW p \in Pools, PoolStep(p)
       PROVE  Restart \/ UNCHANGED <<pool, cache, stale, pass>> \/ Kinds(p)
  BY <1>1, <1>3, <1>4, <1>5, <1>6, <1>7, <1>8, <1>9, <1>10, <1>11, <1>12, <1>13,
     <1>14, <1>15 DEF PoolStep, Handle, Kinds
<1> QED
  BY <1>15

LEMMA StepKinds ==
  ASSUME TypeOK, [Next]_vars
  PROVE  \/ Restart \/ UNCHANGED <<pool, cache, stale, pass>>
         \/ \E p \in Pools : Kinds(p)
<1>1. ASSUME NEW n \in Names, InstanceStep(n)
      PROVE  UNCHANGED <<pool, cache, stale, pass>>
  BY <1>1
     DEF InstanceStep, Provision, Manage, Finalize, Heartbeat, Collect, Evict, Rest
<1>2. Repair \/ Resync \/ UNCHANGED vars => UNCHANGED <<pool, cache, stale, pass>>
  BY DEF Repair, Resync, vars, store, watch
<1>3. Crash => Restart
  BY DEF Crash
<1> QED
  BY <1>1, <1>2, <1>3, PoolStepKinds DEF Next

(***************************************************************************)
(* Writes reach only the pool they were made for.  The invariant says what *)
(* optimistic concurrency relies on: a handler's shared object is the      *)
(* cached one, and the cached one, while it is the stored version, has the *)
(* fields handlers do not assign to.                                       *)
(***************************************************************************)
FromVersion(p) ==
  /\ pass[p].shared => pass[p].ip = cache[p]
  /\ ~stale[p] => cache[p].uid = pool[p].uid /\ cache[p].count = pool[p].count
VersionInv == \A p \in Pools : FromVersion(p)

OthersKeepVersion(p) ==
  \A q \in Pools \ {p} : /\ pool'[q] = pool[q] /\ cache'[q] = cache[q]
                         /\ stale'[q] = stale[q] /\ pass'[q] = pass[q]

LEMMA KindsOthers ==
  ASSUME TypeOK, NEW p \in Pools, Kinds(p)
  PROVE  OthersKeepVersion(p)
<1>1. CASE Start(p) \/ Deliver(p) \/ Proceeds(p)
  BY <1>1 DEF Start, Deliver, Proceeds, TypeOK, OthersKeepVersion, store, watch
<1>2. CASE Ends(p)
  BY <1>2 DEF Ends, Store, TypeOK, OthersKeepVersion
<1>3. CASE \E o, stage, items :
             Assign(p, o, stage, items) /\ UNCHANGED pool /\ Decides(p, o, stage)
  BY <1>3 DEF Assign, TypeOK, OthersKeepVersion
<1>4. CASE \E o : Changes(p, o)
  BY <1>4 DEF Changes, ChangePool, TypeOK, OthersKeepVersion
<1> QED
  BY <1>1, <1>2, <1>3, <1>4 DEF Kinds

LEMMA VersionNext ==
  ASSUME TypeOK, VersionInv, [Next]_vars
  PROVE  VersionInv'
<1>1. CASE Restart
  BY <1>1 DEF Restart, store, VersionInv, FromVersion, Idle
<1>2. CASE UNCHANGED <<pool, cache, stale, pass>>
  BY <1>2 DEF VersionInv, FromVersion
<1>3. ASSUME NEW p \in Pools, Kinds(p) PROVE VersionInv'
  <2>1. FromVersion(p)
    BY DEF VersionInv
  <2>2. OthersKeepVersion(p)
    BY <1>3, KindsOthers
  <2>3. ASSUME Start(p) PROVE FromVersion(p)'
    BY <2>1, <2>3 DEF Start, TypeOK, FromVersion, Idle, store, watch
  <2>4. ASSUME Deliver(p) PROVE FromVersion(p)'
    BY <2>1, <2>4 DEF Deliver, TypeOK, Pass, FromVersion, store
  <2>5. ASSUME Proceeds(p) PROVE FromVersion(p)'
    BY <2>1, <2>5 DEF Proceeds, FromVersion
  <2>6. ASSUME Ends(p) PROVE FromVersion(p)'
    <3>1. ~(pass'[p].shared) /\ UNCHANGED cache
      BY <2>6 DEF Ends, TypeOK, Idle
    <3>2. (UNCHANGED <<pool, stale>>) \/ (stale'[p] = (pool'[p] # pool[p]) /\ ~stale[p])
      BY <2>6 DEF Ends, Store, TypeOK, Current
    <3> QED
      BY <2>1, <3>1, <3>2 DEF FromVersion
  <2>7. ASSUME NEW o, NEW stage, NEW items,
               Assign(p, o, stage, items), UNCHANGED pool, Decides(p, o, stage)
        PROVE  FromVersion(p)'
    <3>1. /\ pass'[p].ip = o /\ pass'[p].shared = pass[p].shared /\ UNCHANGED stale
          /\ cache'[p] = IF pass[p].shared THEN o ELSE cache[p]
      BY <2>7 DEF Assign, TypeOK, Pass
    <3> QED
      BY <2>1, <2>7, <3>1 DEF FromVersion, Decides
  <2>8. ASSUME NEW o, Changes(p, o) PROVE FromVersion(p)'
    BY <2>1, <2>8 DEF Changes, ChangePool, TypeOK, FromVersion
  <2>9. FromVersion(p)'
    BY <1>3, <2>3, <2>4, <2>5, <2>6, <2>7, <2>8 DEF Kinds
  <2> QED
    BY <2>2, <2>9 DEF VersionInv, FromVersion, OthersKeepVersion
<1> QED
  BY <1>1, <1>2, <1>3, StepKinds

LEMMA VersionInit == Init => VersionInv
BY DEF Init, VersionInv, FromVersion, Idle

UntouchedStep ==
  \A p \in Pools :
    pool'[p].uid = pool[p].uid /\ pool'[p].status # pool[p].status =>
      pass[p].ip.uid = pool[p].uid

LEMMA UntouchedNext ==
  ASSUME TypeOK, VersionInv, [Next]_vars
  PROVE  UntouchedStep
<1>1. CASE Restart
  BY <1>1 DEF Restart, store, UntouchedStep
<1>2. CASE UNCHANGED <<pool, cache, stale, pass>>
  BY <1>2 DEF UntouchedStep
<1>3. ASSUME NEW p \in Pools, Kinds(p) PROVE UntouchedStep
  <2>1. OthersKeepVersion(p)
    BY <1>3, KindsOthers
  <2>2. CASE UNCHANGED pool
    BY <2>2 DEF UntouchedStep
  <2>3. CASE Current(p)
    <3>1. pass[p].ip.uid = pool[p].uid
      BY <2>3 DEF VersionInv, FromVersion, Current
    <3> QED
      BY <2>1, <3>1 DEF UntouchedStep, OthersKeepVersion
  <2>4. CASE \E o : Changes(p, o)
    <3>1. PICK o : Changes(p, o)
      BY <2>4
    <3>2. pool'[p] = o
      BY <3>1 DEF Changes, ChangePool, TypeOK
    <3> QED
      BY <2>1, <3>1, <3>2 DEF Changes, UntouchedStep, OthersKeepVersion
  <2> QED
    BY <1>3, <2>2, <2>3, <2>4 DEF Kinds, Start, Deliver, Proceeds, Ends, store
<1> QED
  BY <1>1, <1>2, <1>3, StepKinds

(* No pass writes into a pool other than the one it was started for, even  *)
(* if that one is deleted and another created under its name meanwhile.    *)
THEOREM Untouched == Spec => SuccessorUntouched
<1>1. TypeOK /\ VersionInv /\ [Next]_vars => VersionInv'
  BY VersionNext
<1>2. TypeOK /\ VersionInv /\ [Next]_vars => UntouchedStep
  BY UntouchedNext
<1>3. Spec => []VersionInv
  BY <1>1, VersionInit, Typed, PTL DEF Spec
<1>4. Spec => [][UntouchedStep]_vars
  BY <1>2, <1>3, Typed, PTL DEF Spec
<1> QED
  BY <1>4 DEF SuccessorUntouched, UntouchedStep
(***************************************************************************)
(* "ready" is published for the count the server has, provided no write    *)
(* fails in transit: such a failure leaves the assigned status behind in   *)
(* the cached object, where the next pass takes it for the published one.  *)
(***************************************************************************)
Remembers(p) ==
  ~stale[p] /\ ~(Writing(p) /\ pass[p].shared) => cache[p].status = pool[p].status
Deserves(p) ==
  /\ Writing(p) /\ Current(p)
  /\ pass[p].ip.status = "ready" /\ pool[p].status # "ready"
  => Justified(pass[p].ip)
StatusInv == \A p \in Pools : Remembers(p) /\ Deserves(p)

ReadyStep ==
  \A p \in Pools :
    pool'[p].status = "ready" /\ pool[p].status # "ready" =>
      /\ pool'[p].ready = pool'[p].count
      /\ pool'[p].requested = pool'[p].count

LEMMA StatusNext ==
  ASSUME "fault" \notin Disturbances, TypeOK, VersionInv, StatusInv, [Next]_vars
  PROVE  StatusInv'
<1>1. CASE Restart
  BY <1>1 DEF Restart, store, StatusInv, Remembers, Deserves, Writing, At, Idle
<1>2. CASE UNCHANGED <<pool, cache, stale, pass>>
  BY <1>2 DEF StatusInv, Remembers, Deserves, Writing, At, Current
<1>3. ASSUME NEW p \in Pools, Kinds(p) PROVE StatusInv'
  <2>1. FromVersion(p) /\ Remembers(p) /\ Deserves(p)
    BY DEF VersionInv, StatusInv
  <2>2. OthersKeepVersion(p)
    BY <1>3, KindsOthers
  <2> DEFINE Good == Remembers(p)' /\ Deserves(p)'
  <2>3. ASSUME Start(p) PROVE Good
    <3>1. ~Writing(p) /\ UNCHANGED <<pool, cache, stale>>
      BY <2>3 DEF Start, Busy, Writing, At, store, watch
    <3>2. pass'[p].at \notin {"write", "publish"}
      BY <2>3 DEF Start, Handler, TypeOK, InstancePoolObject, Statuses, Pass, Idle
    <3> QED
      BY <2>1, <3>1, <3>2 DEF Remembers, Deserves, Writing, At
  <2>4. ASSUME Deliver(p) PROVE Good
    <3>1. cache'[p] = pool'[p] /\ ~(pass'[p].shared)
      BY <2>4 DEF Deliver, TypeOK, Pass, store
    <3> QED
      BY <3>1 DEF Remembers, Deserves, Current
  <2>5. ASSUME Proceeds(p) PROVE Good
    BY <2>1, <2>5 DEF Proceeds, Remembers, Deserves, Writing, At
  <2>6. ASSUME Ends(p) PROVE Good
    <3>1. /\ pass'[p].at = "idle" /\ ~(pass'[p].shared) /\ UNCHANGED cache
      BY <2>6 DEF Ends, TypeOK, Idle
    <3>2. CASE UNCHANGED <<pool, stale>> /\ ~(Writing(p) /\ Current(p))
      BY <2>1, <3>1, <3>2 DEF Remembers, Deserves, Writing, At, Current
    <3>3. CASE Writing(p) /\ Current(p) /\ Store(p)
      <4>1. pool'[p] = Written(p)
        BY <3>3 DEF Written, Store, TypeOK
      <4>2. pool'[p].status = cache[p].status
        BY <2>1, <3>3, <4>1 DEF Written, FromVersion, Current, TypeOK, Pass, InstancePoolObject
      <4> QED
        BY <3>1, <4>2 DEF Remembers, Deserves, Writing, At
    <3> QED
      BY <2>6, <3>2, <3>3 DEF Ends
  <2>7. ASSUME NEW o, NEW stage, NEW items,
               Assign(p, o, stage, items), UNCHANGED pool, Decides(p, o, stage)
        PROVE  Good
    <3>1. /\ pass'[p].ip = o /\ pass'[p].at = stage
          /\ pass'[p].shared = pass[p].shared /\ UNCHANGED <<pool, stale>>
          /\ cache'[p] = IF pass[p].shared THEN o ELSE cache[p]
      BY <2>7 DEF Assign, TypeOK, Pass
    <3>2. ~Writing(p)
      BY <2>7 DEF Decides
    <3>3. Remembers(p)'
      BY <2>1, <2>7, <3>1, <3>2 DEF Remembers, Decides, FromVersion, Writing, At
    <3>4. Deserves(p)'
      BY <2>1, <2>7, <3>1, <3>2
         DEF Remembers, Deserves, Decides, FromVersion, Current
    <3> QED
      BY <3>3, <3>4
  <2>8. ASSUME NEW o, Changes(p, o) PROVE Good
    <3>1. stale'[p] = TRUE
      BY <2>8 DEF Changes, ChangePool, TypeOK
    <3> QED
      BY <3>1 DEF Remembers, Deserves, Current
  <2>9. Good
    BY <1>3, <2>3, <2>4, <2>5, <2>6, <2>7, <2>8 DEF Kinds
  <2> QED
    BY <2>2, <2>9
       DEF StatusInv, Remembers, Deserves, Writing, At, Current, OthersKeepVersion
<1> QED
  BY <1>1, <1>2, <1>3, StepKinds

LEMMA ReadyNext ==
  ASSUME TypeOK, VersionInv, StatusInv, [Next]_vars
  PROVE  ReadyStep
<1>1. CASE UNCHANGED pool
  BY <1>1 DEF ReadyStep
<1>2. ASSUME NEW p \in Pools, Kinds(p), ~UNCHANGED pool PROVE ReadyStep
  <2>1. OthersKeepVersion(p)
    BY <1>2, KindsOthers
  <2>2. CASE Ends(p)
    <3>1. Writing(p) /\ Current(p) /\ Store(p)
      BY <1>2, <2>2 DEF Ends
    <3>2. pool'[p] = Written(p)
      BY <3>1 DEF Written, Store, TypeOK
    <3>3. pass[p].ip.count = pool[p].count /\ Deserves(p)
      BY <3>1 DEF VersionInv, FromVersion, StatusInv, Current
    <3>4. pool'[p].status = "ready" /\ pool[p].status # "ready" =>
            /\ pool'[p].ready = pool'[p].count
            /\ pool'[p].requested = pool'[p].count
      BY <3>1, <3>2, <3>3 DEF Written, Deserves, Justified, TypeOK, Pass, InstancePoolObject
    <3> QED
      BY <2>1, <3>4 DEF ReadyStep, OthersKeepVersion
  <2>3. CASE \E o : Changes(p, o)
    <3>1. PICK o : Changes(p, o)
      BY <2>3
    <3>2. pool'[p] = o
      BY <3>1 DEF Changes, ChangePool, TypeOK
    <3> QED
      BY <2>1, <3>1, <3>2 DEF Changes, ReadyStep, OthersKeepVersion
  <2> QED
    BY <1>2, <2>2, <2>3 DEF Kinds, Start, Deliver, Proceeds, store
<1>3. Restart => UNCHANGED pool
  BY DEF Restart, store
<1> QED
  BY <1>1, <1>2, <1>3, StepKinds

(* "ready" is only ever published for the spec.count the server has, for   *)
(* any pools, edits, deletions, crashes and failures in submitInstances.   *)
THEOREM ReadyMatches ==
  ASSUME "fault" \notin Disturbances
  PROVE  Spec => PublishedReadyMatchesSpec
<1>1. TypeOK /\ VersionInv /\ [Next]_vars => VersionInv'
  BY VersionNext
<1>2. TypeOK /\ VersionInv /\ StatusInv /\ [Next]_vars => StatusInv'
  BY StatusNext
<1>3. TypeOK /\ VersionInv /\ StatusInv /\ [Next]_vars => ReadyStep
  BY ReadyNext
<1>4. Init => StatusInv
  BY DEF Init, StatusInv, Remembers, Deserves, Writing, At, Idle
<1>5. Spec => []VersionInv
  BY <1>1, VersionInit, Typed, PTL DEF Spec
<1>6. Spec => []StatusInv
  BY <1>2, <1>4, <1>5, Typed, PTL DEF Spec
<1>7. Spec => [][ReadyStep]_vars
  BY <1>3, <1>5, <1>6, Typed, PTL DEF Spec
<1> QED
  BY <1>7 DEF PublishedReadyMatchesSpec, ReadyStep
=============================================================================
