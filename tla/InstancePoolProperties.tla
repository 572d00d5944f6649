----------------------- MODULE InstancePoolProperties -----------------------
(* What the InstancePool controller is held to.                            *)
EXTENDS InstancePool

(* The variables keep their types; a watch never names a pool that is not. *)
TypeOK ==
  /\ pool \in [Pools -> InstancePoolObject]
  /\ inst \in [Names -> InstanceObject \cup {Absent}]
  /\ config \in ConfigStates /\ prereq \in PrereqStates /\ disturbed \in Nat
  /\ cache \in [Pools -> InstancePoolObject] /\ stale \in [Pools -> BOOLEAN]
  /\ notify \subseteq Pools /\ queue \subseteq Pools
  /\ locked \in BOOLEAN
  /\ pass \in [Pools -> Pass]

(* wrapper picks a handler by status.status alone, and the handler trusts  *)
(* status.needed: submitInstances would silently create nothing for a      *)
(* negative number, removeInstances remove nothing for a positive one.     *)
Agrees(o) ==
  /\ o.status = "tokenReady" => o.needed >= 0
  /\ o.status = "submitted" => o.needed <= 0
  /\ o.status = "cleanupNodes" => o.needed < 0
  /\ o.status = "ready" => o.needed = 0

(* The two fields agree wherever a handler may read them, the cached       *)
(* object included, which handlers modify in place before they write.      *)
NeededAgreesWithStatus ==
  \A p \in Pools : Agrees(pool[p]) /\ Agrees(cache[p]) /\ Agrees(pass[p].ip)

Section == {"lookup", "create", "publish"}

(* instanceLock: only one pool's Instances are being created at a time.    *)
SubmitExclusive ==
  \A p, q \in Pools : At(p, Section) => locked /\ (At(q, Section) => p = q)

(* While nothing fails between Lock and UpdateStatus, nobody has left      *)
(* submitInstances with the lock taken, whatever the write returned.       *)
LockReleased == locked => \E p \in Pools : At(p, Section)

(* A pass over a stale cache creates Instances that are there already; one *)
(* disturbance makes that happen at most once, for at most spec.count of   *)
(* them, since the conflict of its write ends it and the pool's status     *)
(* leaves "tokenReady" with the first write that succeeds.                 *)
(* This is of pools whose creations no other pool's panic interrupts: a    *)
(* panic in removeInstances kills the whole process, and repeats itself    *)
(* after the restart without anything further going wrong.                 *)
OvershootBounded ==
  \A p \in Pools :
    Cardinality(Members(p)) <= pool[p].count * (1 + disturbed)

(* "ready" is published only for the spec.count the server has: a pass     *)
(* that compared the Instances with an older count fails on its write.     *)
PublishedReadyMatchesSpec ==
  [][\A p \in Pools :
       pool'[p].status = "ready" /\ pool[p].status # "ready" =>
         /\ pool'[p].ready = pool'[p].count
         /\ pool'[p].requested = pool'[p].count]_vars

AllManaged(p) ==
  \A n \in Members(p) : inst[n].phase = "managed" /\ ~inst[n].deleting

(* What a pool was created for: spec.count managed nodes of its own, and   *)
(* status says so; a deleted pool has left nothing behind.                 *)
Settled(p) ==
  IF pool[p].life = "live"
  THEN /\ AllManaged(p) /\ Cardinality(Members(p)) = pool[p].count
       /\ \A n \in Members(p) : inst[n].uid = pool[p].uid
       /\ pool[p].status = "ready" /\ pool[p].ready = pool[p].count
  ELSE Members(p) = {}

(* No event, retry or change of an Instance that would start a pass over p *)
(* is under way.                                                           *)
Quiet(p) ==
  /\ p \notin queue \cup notify /\ ~stale[p] /\ pass[p] = Idle
  /\ AllManaged(p) /\ \A n \in Members(p) : Owned(n)

(* The controller never lets go of a pool that is not settled: it needs no *)
(* resync and no unrelated event to pick it up again.                      *)
NoLostWakeUp ==
  \A p \in Pools \ InvalidPools : Quiet(p) => Settled(p)

(* The operator ends up with the pool it was asked for, and stays there.   *)
(* Each pass that starts before the watch has caught up with the pool's    *)
(* last write can undo what was reached (it creates Instances twice), so   *)
(* this is claimed of the runs in which that stops happening.              *)
Converges ==
  \A p \in Pools \ InvalidPools :
    <>[][Start(p) => ~stale[p]]_vars => <>[]Settled(p)

(* A pool deleted for good leaves no Instances behind, not even those that *)
(* a pass creates for it afterwards, whatever fails, panics or crashes.    *)
LeavesNothing ==
  \A p \in Pools :
    <>[](pool[p].life = "gone") => <>[](Members(p) = {})

(* A pass that outlives its pool writes nothing into the pool that was     *)
(* created under the same name in the meantime.                            *)
SuccessorUntouched ==
  [][\A p \in Pools :
       pool'[p].uid = pool[p].uid /\ pool'[p].status # pool[p].status =>
         pass[p].ip.uid = pool[p].uid]_vars

(* The guard of removeInstances' loop: there is an Instance to delete.     *)
DeleteHasTarget == \A p \in Pools : At(p, {"delete"}) => pass[p].items # {}
=============================================================================
