----------------------- MODULE InstancePoolCountProofs -----------------------
(***************************************************************************)
(* OvershootBounded: how many Instances a pool can have.  Creations repeat *)
(* because a pass starts from a status that another pass has already dealt *)
(* with: the cached one while it is stale, the stored one after a restart. *)
(* The argument is an amortised one.  The Instances there are and the ones *)
(* still to come from the statuses now in sight, together, are at most     *)
(* spec.count for each disturbance and spec.count more; no step adds to    *)
(* them but a disturbance, and that at most spec.count.                    *)
(***************************************************************************)
EXTENDS InstancePoolProofs

(* No disturbance changes spec.count or deletes a pool.                    *)
Steady == Disturbances \cap {"edit", "deletePool"} = {}

(* The status of a pool that no handler has written to.                    *)
Unset == ""

(* The Instances a pass that starts from o is going to create.             *)
Modest(o) == o.status = "tokenReady" => o.needed >= 0 /\ o.needed <= o.count
Shown(o) ==
  IF o.status = Unset THEN o.count
  ELSE IF o.status = "tokenReady" THEN o.needed ELSE 0

Larger(i, j) == IF i >= j THEN i ELSE j

(* The pass g has begun to create from the object that is in the cache.    *)
Making(g) == g.at \in {"create", "publish"} /\ g.shared

(* S: the stored pool, C: the cached one, st: whether it is stale, g: the  *)
(* pass.  What g still creates; what the passes after it create from what  *)
(* the cache shows or will show; what a write still to come may add.       *)
InHand(g) ==
  IF g.at = "create" THEN g.left
  ELSE IF g.at \in {"lock", "lookup"} /\ ~g.shared THEN g.ip.needed ELSE 0
InSight(S, C, st, g) ==
  IF st THEN (IF Making(g) THEN 0 ELSE Shown(C)) + Shown(S)
  ELSE IF Making(g) THEN 0 ELSE Larger(Shown(C), Shown(S))
ToWrite(S, C, st, g) ==
  IF S.status = Unset THEN S.count
  ELSE IF g.at = "write" /\ g.shared /\ ~st THEN Shown(C) ELSE 0
Debt(S, C, st, g) == InHand(g) + InSight(S, C, st, g) + ToWrite(S, C, st, g)

Total(p) == Cardinality(Members(p)) + Debt(pool[p], cache[p], stale[p], pass[p])

(* The status a handler was picked for, or has assigned.                   *)
Reconciling == {"submitted", "ready"}
Fits(g) ==
  /\ g.at = "prepare" => g.ip.status = Unset /\ g.shared
  /\ g.at \in {"lock", "lookup", "create"} => g.ip.status = "tokenReady"
  /\ g.at = "create" => g.left >= 0
  /\ g.at = "publish" => g.ip.status = "submitted"
  /\ g.at = "list" => g.ip.status \in Reconciling
  /\ g.at \in {"listRemove", "delete"} => g.ip.status = "cleanupNodes"
  /\ g.at = "write" => g.ip.status # Unset

(* How the four copies of a pool's state belong together.                  *)
Coherent(S, C, st, g) ==
  /\ S.uid = 1 /\ S.life = "live" /\ C.uid = 1 /\ C.count = S.count
  /\ Modest(S) /\ Modest(C)
  /\ C.status = Unset => S.status = Unset
  /\ S.status = Unset => ~st
  /\ g.at # "idle" =>
       /\ g.ip.uid = 1 /\ g.ip.count = S.count /\ Modest(g.ip) /\ Fits(g)
       /\ IF g.shared THEN g.ip = C ELSE ~st /\ C = S

(* Before the first disturbance: nothing was asked for yet, spec.count     *)
(* Instances are asked for and being created, or they have been.  M: the   *)
(* Instances; q, w: whether the pool is in queue, in notify.               *)
Asking(C, g, M, q, w) ==
  /\ M = {} /\ ~w
  /\ g.at # "idle" => ~q
  /\ \/ g.at \in {"idle", "prepare"} /\ C.status = Unset
     \/ g.at = "write" /\ g.shared /\ C.status = "tokenReady" /\ C.needed = C.count
Filling(S, C, st, g, M, q, w) ==
  /\ S.needed = S.count
  /\ st => M = {} /\ ~q /\ ~w /\ g.at = "idle"
  /\ ~st =>
       \/ /\ g.at \in {"idle", "lock", "lookup"} /\ M = {} /\ ~w /\ C = S
          /\ g.at # "idle" => g.shared
       \/ g.at = "create" /\ g.shared /\ C = S /\ Cardinality(M) + g.left = S.count
       \/ g.at = "publish" /\ g.shared /\ Cardinality(M) = S.count
Filled(S, C, g, M) ==
  /\ C.status \in Reconciling /\ Cardinality(M) = S.count
  /\ g.at \in {"idle", "list", "write"}
  /\ g.at # "idle" => g.ip.status \in Reconciling
Calm(S, C, st, g, M, q, w) ==
  /\ S.status = Unset => Asking(C, g, M, q, w)
  /\ S.status = "tokenReady" => Filling(S, C, st, g, M, q, w)
  /\ S.status \in Reconciling => Filled(S, C, g, M)
  /\ S.status # "cleanupNodes"
Untroubled(p) ==
  /\ \A n \in Members(p) : inst[n].uid = 1 /\ ~inst[n].deleting
  /\ Calm(pool[p], cache[p], stale[p], pass[p], Members(p), p \in queue, p \in notify)

Matched(p) == Coherent(pool[p], cache[p], stale[p], pass[p])
Budget(p) ==
  IF disturbed = 0 THEN Untroubled(p)
  ELSE Total(p) <= pool[p].count * (1 + disturbed)

(* While config or prereq is not in order nobody creates anything.         *)
Creating(p) == At(p, {"create", "publish"})
Waits(p) ==
  /\ pool[p].status = Unset /\ cache[p].status = Unset
  /\ At(p, {"idle", "prepare"})
Unready ==
  /\ config # "ok" => \A p \in Pools : Waits(p)
  /\ prereq # "ok" => \A p \in Pools : ~Creating(p)

(* A pool whose networking type is invalid never has an Instance, and so   *)
(* never gets into the loop of removeInstances.                            *)
Empty(p) == Members(p) = {} /\ ~At(p, {"delete"})
Barren == \A p \in InvalidPools : Empty(p)

Valid == Pools \ InvalidPools

(* removeInstances does not run out of Instances, and panic, while another *)
(* pool is between its first Create and its UpdateStatus.                  *)
PanicsAlone ==
  \A p \in Pools : \A q \in Valid :
    At(p, {"delete"}) /\ pass[p].items = {} => ~Creating(q)

OvershootInv ==
  Unready /\ Barren /\ \A p \in Valid : Matched(p) /\ Budget(p)

-----------------------------------------------------------------------------
(***************************************************************************)
(* How the debt changes, operation by operation.                           *)
(***************************************************************************)
LEMMA UnsetDiffers == Unset \notin {"tokenReady", "submitted", "ready", "cleanupNodes"}
BY DEF Unset

LEMMA Handlers ==
  /\ Handler(Unset) = "prepare" /\ Handler("tokenReady") = "lock"
  /\ Handler("submitted") = "list" /\ Handler("ready") = "list"
  /\ Handler("cleanupNodes") = "listRemove"
BY DEF Handler, Unset

LEMMA FieldTypes ==
  /\ \A o \in InstancePoolObject :
       /\ o.count \in Nat /\ o.needed \in Int /\ o.status \in Statuses
       /\ o.uid \in Nat
  /\ \A g \in Pass :
       /\ g.ip \in InstancePoolObject /\ g.left \in Int /\ g.at \in Stages
       /\ g.shared \in BOOLEAN /\ g.items \subseteq Names
BY DEF InstancePoolObject, Pass

LEMMA ShownType ==
  ASSUME NEW o \in InstancePoolObject, Modest(o)
  PROVE  Shown(o) \in Nat /\ Shown(o) <= o.count /\ o.count \in Nat
<1>1. o.count \in Nat /\ o.needed \in Int
  BY FieldTypes
<1> QED
  BY <1>1 DEF Modest, Shown

LEMMA IdlePass ==
  /\ Idle \in Pass /\ Idle.at = "idle" /\ ~Idle.shared /\ ~Making(Idle)
  /\ InHand(Idle) = 0
BY IdleType DEF Idle, Making, InHand

(* The debt, its definitions expanded.                                     *)
LEMMA DebtIs ==
  ASSUME NEW S, NEW C, NEW st, NEW g
  PROVE  Debt(S, C, st, g) =
           InHand(g)
           + (IF st THEN (IF Making(g) THEN 0 ELSE Shown(C)) + Shown(S)
              ELSE IF Making(g) THEN 0
              ELSE IF Shown(C) >= Shown(S) THEN Shown(C) ELSE Shown(S))
           + (IF S.status = Unset THEN S.count
              ELSE IF g.at = "write" /\ g.shared /\ ~st THEN Shown(C) ELSE 0)
BY DEF Debt, InSight, ToWrite, Larger

LEMMA Bounds ==
  ASSUME NEW S \in InstancePoolObject, NEW C \in InstancePoolObject,
         NEW st, NEW g \in Pass, Coherent(S, C, st, g)
  PROVE  /\ S.count \in Nat /\ C.count = S.count
         /\ Shown(S) \in Nat /\ Shown(S) <= S.count
         /\ Shown(C) \in Nat /\ Shown(C) <= S.count
         /\ InHand(g) \in Nat
         /\ S.status = Unset => ~st /\ Shown(S) = S.count
<1>1. /\ S.count \in Nat /\ C.count = S.count
      /\ Shown(S) \in Nat /\ Shown(S) <= S.count
      /\ Shown(C) \in Nat /\ Shown(C) <= S.count
  BY ShownType DEF Coherent
<1>2. InHand(g) \in Nat
  BY FieldTypes DEF Coherent, Fits, Modest, InHand
<1>3. S.status = Unset => ~st /\ Shown(S) = S.count
  BY DEF Coherent, Shown
<1> QED
  BY <1>1, <1>2, <1>3

LEMMA DebtType ==
  ASSUME NEW S \in InstancePoolObject, NEW C \in InstancePoolObject,
         NEW st \in BOOLEAN, NEW g \in Pass, Coherent(S, C, st, g)
  PROVE  Debt(S, C, st, g) \in Nat
BY Bounds, DebtIs

(* The pass ends without having stored its object.                         *)
LEMMA DropDebt ==
  ASSUME NEW S \in InstancePoolObject, NEW C \in InstancePoolObject,
         NEW st \in BOOLEAN, NEW g \in Pass, Coherent(S, C, st, g)
  PROVE  /\ Coherent(S, C, st, Idle)
         /\ Debt(S, C, st, Idle)
              <= Debt(S, C, st, g) + (IF Making(g) THEN S.count ELSE 0)
         /\ g.at \in {"write", "publish"} /\ ~(g.shared /\ ~st) =>
              Debt(S, C, st, Idle) <= Debt(S, C, st, g)
         /\ g.at = "create" /\ g.left > 0 =>
              Debt(S, C, st, Idle) + 1
                <= Debt(S, C, st, g) + (IF Making(g) THEN S.count ELSE 0)
<1> DEFINE s == Shown(S)
           k == Shown(C)
           h == InHand(g)
           c == S.count
           d == Debt(S, C, st, g)
           i == Debt(S, C, st, Idle)
           u == S.status = Unset
<1>1. /\ s \in Nat /\ k \in Nat /\ h \in Nat /\ c \in Nat /\ s <= c /\ k <= c
      /\ u => ~st
  BY Bounds
<1>2. g.at = "create" => h = g.left
  BY DEF InHand
<1>3. g.at = "publish" /\ g.shared => k = 0
  BY UnsetDiffers DEF Coherent, Fits, Shown
<1>4. ~g.shared /\ g.at # "idle" => ~st /\ k = s
  BY DEF Coherent
<1>5. g.left \in Int /\ g.shared \in BOOLEAN
  BY FieldTypes
<1>6. i = (IF st THEN k + s ELSE IF k >= s THEN k ELSE s) + (IF u THEN c ELSE 0)
  BY <1>1, DebtIs, IdlePass
<1>7. d = h + (IF st THEN (IF Making(g) THEN 0 ELSE k) + s
               ELSE IF Making(g) THEN 0 ELSE IF k >= s THEN k ELSE s)
            + (IF u THEN c
               ELSE IF g.at = "write" /\ g.shared /\ ~st THEN k ELSE 0)
  BY DebtIs
<1>8. Making(g) <=> g.at \in {"create", "publish"} /\ g.shared
  BY DEF Making
<1>9. Coherent(S, C, st, Idle)
  BY IdlePass DEF Coherent
<1> HIDE DEF s, k, h, c, d, i, u
<1>10. i <= d + (IF Making(g) THEN c ELSE 0)
  BY <1>1, <1>6, <1>7
<1>11. g.at \in {"write", "publish"} /\ ~(g.shared /\ ~st) => i <= d
  <2>1. CASE Making(g)
    BY <1>1, <1>3, <1>6, <1>7, <1>8, <2>1
  <2>2. CASE ~Making(g)
    BY <1>1, <1>6, <1>7, <2>2
  <2> QED
    BY <2>1, <2>2
<1>12. g.at = "create" /\ g.left > 0 => i + 1 <= d + (IF Making(g) THEN c ELSE 0)
  BY <1>1, <1>2, <1>4, <1>5, <1>6, <1>7, <1>8
<1> QED
  BY <1>9, <1>10, <1>11, <1>12 DEF c, d, i

(* The pass ends with its object stored.                                   *)
LEMMA StoreDebt ==
  ASSUME NEW S \in InstancePoolObject, NEW C \in InstancePoolObject,
         NEW g \in Pass, Coherent(S, C, FALSE, g),
         g.at \in {"write", "publish"}, g.shared,
         NEW T \in InstancePoolObject, T.status = g.ip.status,
         T.needed = g.ip.needed, T.count = S.count, T.uid = S.uid, T.life = S.life
  PROVE  \A st \in BOOLEAN : /\ Coherent(T, C, st, Idle)
                             /\ Debt(T, C, st, Idle) <= Debt(S, C, FALSE, g)
<1>1. g.ip = C /\ C.status # Unset /\ T.status = C.status
  BY UnsetDiffers DEF Coherent, Fits
<1>2. ASSUME NEW st \in BOOLEAN PROVE Coherent(T, C, st, Idle)
  BY <1>1, IdlePass DEF Coherent, Modest
<1>3. Shown(T) = Shown(C)
  BY <1>1 DEF Coherent, Shown
<1>4. g.at = "publish" => Shown(C) = 0
  BY <1>1, UnsetDiffers DEF Coherent, Fits, Shown
<1> DEFINE s == Shown(S)
           k == Shown(C)
           h == InHand(g)
           c == S.count
           d == Debt(S, C, FALSE, g)
<1>5. /\ s \in Nat /\ k \in Nat /\ h \in Nat /\ c \in Nat /\ k <= c
  BY Bounds
<1>6. d = h + (IF Making(g) THEN 0 ELSE IF k >= s THEN k ELSE s)
            + (IF S.status = Unset THEN c ELSE IF g.at = "write" THEN k ELSE 0)
  BY DebtIs
<1>7. g.at = "write" => ~Making(g)
  BY DEF Making
<1>8. d \in Nat /\ d >= 2 * k
  <2>1. CASE g.at = "write"
    <3> HIDE DEF s, k, h, c, d
    <3> QED
      BY <1>5, <1>6, <1>7, <2>1
  <2>2. CASE g.at = "publish"
    <3>1. k = 0
      BY <1>4, <2>2
    <3> HIDE DEF s, k, h, c, d
    <3> QED
      BY <1>5, <1>6, <2>2, <3>1
  <2> QED
    BY <2>1, <2>2
<1>9. ASSUME NEW st \in BOOLEAN PROVE  Debt(T, C, st, Idle) \in Nat /\ Debt(T, C, st, Idle) <= 2 * k
  <2>1. Debt(T, C, st, Idle) = (IF st THEN k + k ELSE k) + 0
    BY <1>1, <1>3, <1>5, DebtIs, IdlePass
  <2> HIDE DEF k
  <2> QED
    BY <1>5, <2>1
<1>10. ASSUME NEW st \in BOOLEAN PROVE Debt(T, C, st, Idle) <= d
  <2> HIDE DEF d, k
  <2> QED
    BY <1>5, <1>8, <1>9
<1> QED
  BY <1>2, <1>10

(* A pass starts, or turns the pool away.                                  *)
LEMMA StartDebt ==
  ASSUME NEW S \in InstancePoolObject, NEW C \in InstancePoolObject,
         NEW st \in BOOLEAN, NEW g \in Pass, Coherent(S, C, st, g),
         g.at = "idle", NEW h \in Pass,
         \/ h = Idle
         \/ h.at = Handler(C.status) /\ h.ip = C /\ h.shared
  PROVE  Coherent(S, C, st, h) /\ Debt(S, C, st, h) = Debt(S, C, st, g)
<1>1. InHand(g) = 0 /\ ~Making(g)
  BY DEF InHand, Making
<1>2. CASE h = Idle
  <2>1. Coherent(S, C, st, h)
    BY <1>2, IdlePass DEF Coherent
  <2> QED
    BY <1>1, <1>2, <2>1, DebtIs, IdlePass
<1>3. CASE h.at = Handler(C.status) /\ h.ip = C /\ h.shared
  <2>1. C.status \in {Unset, "tokenReady", "submitted", "ready", "cleanupNodes"}
    BY FieldTypes DEF Statuses, Unset
  <2>2. /\ h.at \in {"prepare", "lock", "list", "listRemove"}
        /\ h.at = "prepare" => C.status = Unset
        /\ h.at = "lock" => C.status = "tokenReady"
        /\ h.at = "list" => C.status \in {"submitted", "ready"}
        /\ h.at = "listRemove" => C.status = "cleanupNodes"
    BY <1>3, <2>1, Handlers
  <2>3. Fits(h)
    BY <1>3, <2>2 DEF Fits, Reconciling
  <2>4. Coherent(S, C, st, h)
    BY <1>3, <2>3 DEF Coherent
  <2>5. InHand(h) = 0 /\ ~Making(h) /\ h.at # "write"
    BY <1>3, <2>2 DEF InHand, Making
  <2> QED
    BY <1>1, <2>4, <2>5, DebtIs
<1> QED
  BY <1>2, <1>3

(* submitInstances takes the lock, looks up what it needs, creates.        *)
LEMMA LockDebt ==
  ASSUME NEW S \in InstancePoolObject, NEW C \in InstancePoolObject,
         NEW st \in BOOLEAN, NEW g \in Pass, Coherent(S, C, st, g),
         g.at = "lock", NEW h \in Pass,
         h.at = "lookup", h.ip = g.ip, h.shared = g.shared
  PROVE  Coherent(S, C, st, h) /\ Debt(S, C, st, h) = Debt(S, C, st, g)
<1>1. Fits(h)
  BY DEF Coherent, Fits
<1>2. Coherent(S, C, st, h)
  BY <1>1 DEF Coherent
<1>3. InHand(h) = InHand(g) /\ ~Making(h) /\ ~Making(g)
  BY DEF InHand, Making
<1> QED
  BY <1>2, <1>3, DebtIs

LEMMA LookupDebt ==
  ASSUME NEW S \in InstancePoolObject, NEW C \in InstancePoolObject,
         NEW st \in BOOLEAN, NEW g \in Pass, Coherent(S, C, st, g),
         g.at = "lookup", NEW h \in Pass, h.left = g.ip.needed,
         h.at = "create", h.ip = g.ip, h.shared = g.shared
  PROVE  Coherent(S, C, st, h) /\ Debt(S, C, st, h) <= Debt(S, C, st, g)
<1>1. Fits(h)
  BY DEF Coherent, Fits, Modest
<1>2. Coherent(S, C, st, h)
  BY <1>1 DEF Coherent
<1> DEFINE s == Shown(S)
           k == Shown(C)
           c == S.count
           x == g.ip.needed
           t == IF S.status = Unset THEN c ELSE 0
<1>3. /\ s \in Nat /\ k \in Nat /\ c \in Nat /\ t \in Nat
  BY Bounds
<1>4. x \in Nat /\ (g.shared => x = k)
  <2>1. x \in Int /\ x >= 0
    BY FieldTypes DEF Coherent, Fits, Modest
  <2>2. g.shared => x = k
    BY UnsetDiffers DEF Coherent, Fits, Shown
  <2> QED
    BY <2>1, <2>2
<1>5. Debt(S, C, st, g) = (IF g.shared THEN 0 ELSE x)
        + (IF st THEN k + s ELSE IF k >= s THEN k ELSE s) + t
  BY <1>3, <1>4, DebtIs DEF InHand, Making
<1>6. Debt(S, C, st, h) = x
        + (IF st THEN (IF g.shared THEN 0 ELSE k) + s
           ELSE IF g.shared THEN 0 ELSE IF k >= s THEN k ELSE s) + t
  BY <1>3, <1>4, DebtIs DEF InHand, Making
<1> HIDE DEF s, k, c, x, t
<1>7. g.shared \in BOOLEAN
  BY FieldTypes
<1> QED
  BY <1>2, <1>3, <1>4, <1>5, <1>6, <1>7

LEMMA CreateDebt ==
  ASSUME NEW S \in InstancePoolObject, NEW C \in InstancePoolObject,
         NEW st \in BOOLEAN, NEW g \in Pass, Coherent(S, C, st, g),
         g.at = "create", g.left > 0, NEW h \in Pass, h.left = g.left - 1,
         h.at = "create", h.ip = g.ip, h.shared = g.shared
  PROVE  Coherent(S, C, st, h) /\ Debt(S, C, st, h) + 1 = Debt(S, C, st, g)
<1>1. g.left \in Int
  BY FieldTypes
<1>2. Fits(h)
  BY <1>1 DEF Coherent, Fits
<1>3. Coherent(S, C, st, h)
  BY <1>2 DEF Coherent
<1> DEFINE r == (IF st THEN (IF Making(g) THEN 0 ELSE Shown(C)) + Shown(S)
                 ELSE IF Making(g) THEN 0
                 ELSE IF Shown(C) >= Shown(S) THEN Shown(C) ELSE Shown(S))
                + (IF S.status = Unset THEN S.count ELSE 0)
<1>4. r \in Nat
  BY Bounds
<1>5. Debt(S, C, st, g) = g.left + r
  BY <1>1, Bounds, DebtIs DEF InHand
<1>6. Making(h) = Making(g)
  BY DEF Making
<1>7. Debt(S, C, st, h) = (g.left - 1) + r
  BY <1>1, <1>6, Bounds, DebtIs DEF InHand
<1> HIDE DEF r
<1> QED
  BY <1>1, <1>3, <1>4, <1>5, <1>7

(* The watch delivers the stored pool.                                     *)
LEMMA DeliverDebt ==
  ASSUME NEW S \in InstancePoolObject, NEW C \in InstancePoolObject,
         NEW g \in Pass, Coherent(S, C, TRUE, g), NEW h \in Pass,
         h.at = g.at, h.ip = g.ip, h.left = g.left, ~h.shared
  PROVE  Coherent(S, S, FALSE, h) /\ Debt(S, S, FALSE, h) <= Debt(S, C, TRUE, g)
<1>1. S.status # Unset /\ (g.at # "idle" => g.shared /\ g.ip = C)
  BY DEF Coherent
<1>2. g.at # "prepare"
  BY <1>1 DEF Coherent, Fits
<1>3. g.at # "idle" => Fits(h)
  BY <1>2 DEF Coherent, Fits
<1>4. Coherent(S, S, FALSE, h)
  BY <1>1, <1>3 DEF Coherent
<1> DEFINE s == Shown(S)
           k == Shown(C)
           x == g.ip.needed
<1>5. s \in Nat /\ k \in Nat /\ g.left \in Int
  BY Bounds, FieldTypes
<1>6. g.at \in {"lock", "lookup"} => x = k
  BY <1>1, UnsetDiffers DEF Coherent, Fits, Shown
<1>7. g.at = "publish" => k = 0
  BY <1>1, UnsetDiffers DEF Coherent, Fits, Shown
<1>8. Debt(S, S, FALSE, h) = (IF g.at = "create" THEN g.left
                              ELSE IF g.at \in {"lock", "lookup"} THEN x ELSE 0)
                             + s + 0
  BY <1>1, <1>5, DebtIs DEF InHand, Making
<1>9. Debt(S, C, TRUE, g) = (IF g.at = "create" THEN g.left ELSE 0)
        + ((IF g.at \in {"create", "publish"} THEN 0 ELSE k) + s) + 0
  BY <1>1, <1>5, DebtIs DEF InHand, Making
<1> DEFINE d == Debt(S, C, TRUE, g)
           e == Debt(S, S, FALSE, h)
           mid == g.at \in {"lock", "lookup"}
           end == g.at \in {"create", "publish"}
<1>10. CASE g.at = "create"
  <2>1. e = g.left + s + 0 /\ d = g.left + (0 + s) + 0
    BY <1>8, <1>9, <1>10
  <2> HIDE DEF s, d, e
  <2>2. e <= d
    BY <1>5, <2>1
  <2> QED
    BY <1>4, <2>2 DEF d, e
<1>11. CASE g.at # "create"
  <2>1. e = (IF mid THEN x ELSE 0) + s + 0 /\ d = 0 + ((IF end THEN 0 ELSE k) + s) + 0
    BY <1>8, <1>9, <1>11
  <2>2. mid => x = k /\ ~end
    BY <1>6
  <2> HIDE DEF s, k, x, d, e, mid, end
  <2>3. e <= d
    BY <1>5, <2>1, <2>2
  <2> QED
    BY <1>4, <2>3 DEF d, e
<1> QED
  BY <1>10, <1>11

(* The process starts again and reads the stored pool.                     *)
LEMMA RestartDebt ==
  ASSUME NEW S \in InstancePoolObject, NEW C \in InstancePoolObject,
         NEW st \in BOOLEAN, NEW g \in Pass, Coherent(S, C, st, g)
  PROVE  /\ Coherent(S, S, FALSE, Idle)
         /\ Debt(S, S, FALSE, Idle)
              <= Debt(S, C, st, g) + (IF Making(g) THEN S.count ELSE 0)
<1>1. Coherent(S, S, FALSE, Idle)
  BY IdlePass DEF Coherent
<1> DEFINE s == Shown(S)
           k == Shown(C)
           h == InHand(g)
           c == S.count
           u == S.status = Unset
<1>2. /\ s \in Nat /\ k \in Nat /\ h \in Nat /\ c \in Nat /\ s <= c
      /\ u => ~st
  BY Bounds
<1>3. Debt(S, S, FALSE, Idle) = s + (IF u THEN c ELSE 0)
  <2>1. Debt(S, S, FALSE, Idle) = 0 + (IF s >= s THEN s ELSE s) + (IF u THEN c ELSE 0)
    BY DebtIs, IdlePass
  <2>2. (IF s >= s THEN s ELSE s) = s /\ (IF u THEN c ELSE 0) \in Nat
    BY <1>2
  <2> HIDE DEF s, c, u
  <2>3. ASSUME NEW x \in Nat PROVE 0 + s + x = s + x
    BY <1>2
  <2> QED
    BY <2>1, <2>2, <2>3
<1>4. Debt(S, C, st, g) = h
        + (IF st THEN (IF Making(g) THEN 0 ELSE k) + s
           ELSE IF Making(g) THEN 0 ELSE IF k >= s THEN k ELSE s)
        + (IF u THEN c ELSE IF g.at = "write" /\ g.shared /\ ~st THEN k ELSE 0)
  BY DebtIs
<1> HIDE DEF s, k, h, c, u
<1>5. s + (IF u THEN c ELSE 0) <= Debt(S, C, st, g) + (IF Making(g) THEN c ELSE 0)
  BY <1>2, <1>4
<1> QED
  BY <1>1, <1>3, <1>5 DEF c

(* A handler assigns o to the object it works on; K: the cached one then.  *)
LEMMA AssignCoherent ==
  ASSUME NEW S \in InstancePoolObject, NEW C \in InstancePoolObject,
         NEW st \in BOOLEAN, NEW g \in Pass, Coherent(S, C, st, g),
         g.at # "idle", NEW o \in InstancePoolObject, NEW h \in Pass,
         o.uid = g.ip.uid, o.count = g.ip.count, o.status # Unset, Modest(o),
         h.ip = o, h.shared = g.shared, Fits(h)
  PROVE  Coherent(S, IF g.shared THEN o ELSE C, st, h)
<1>1. CASE g.shared
  BY <1>1 DEF Coherent
<1>2. CASE ~g.shared
  BY <1>2 DEF Coherent
<1> QED
  BY <1>1, <1>2

LEMMA PrepareDebt ==
  ASSUME NEW S \in InstancePoolObject, NEW C \in InstancePoolObject,
         NEW st \in BOOLEAN, NEW g \in Pass, Coherent(S, C, st, g),
         g.at = "prepare", NEW o \in InstancePoolObject, NEW h \in Pass,
         o.uid = g.ip.uid, o.count = g.ip.count, o.status = "tokenReady",
         o.needed = o.count, h.ip = o, h.shared = g.shared, h.at = "write"
  PROVE  Coherent(S, o, st, h) /\ Debt(S, o, st, h) = Debt(S, C, st, g)
<1>1. g.shared /\ g.ip = C /\ C.status = Unset /\ S.status = Unset /\ ~st
  BY DEF Coherent, Fits
<1>2. Modest(o) /\ Fits(h) /\ o.status # Unset
  BY FieldTypes, UnsetDiffers DEF Modest, Fits
<1>3. Coherent(S, o, st, h)
  BY <1>1, <1>2, AssignCoherent
<1>4. Shown(o) = o.count /\ Shown(C) = C.count /\ Shown(S) = S.count
  BY <1>1, UnsetDiffers DEF Shown
<1>5. o.count = S.count /\ C.count = S.count
  BY <1>1 DEF Coherent
<1>6. InHand(g) = 0 /\ InHand(h) = 0 /\ ~Making(g) /\ ~Making(h)
  BY DEF InHand, Making
<1> QED
  BY <1>1, <1>3, <1>4, <1>5, <1>6, DebtIs

LEMMA FinishDebt ==
  ASSUME NEW S \in InstancePoolObject, NEW C \in InstancePoolObject,
         NEW st \in BOOLEAN, NEW g \in Pass, Coherent(S, C, st, g),
         g.at = "create", g.left <= 0, NEW o \in InstancePoolObject, NEW h \in Pass,
         o.uid = g.ip.uid, o.count = g.ip.count, o.status = "submitted",
         h.ip = o, h.shared = g.shared, h.at = "publish"
  PROVE  LET K == IF g.shared THEN o ELSE C
         IN  Coherent(S, K, st, h) /\ Debt(S, K, st, h) = Debt(S, C, st, g)
<1> DEFINE K == IF g.shared THEN o ELSE C
<1>1. Modest(o) /\ Fits(h) /\ o.status # Unset
  BY UnsetDiffers DEF Modest, Fits
<1>2. Coherent(S, K, st, h)
  BY <1>1, AssignCoherent
<1>3. InHand(g) = 0 /\ InHand(h) = 0
  BY FieldTypes DEF Coherent, Fits, InHand
<1>4. Making(g) = g.shared /\ Making(h) = g.shared
  BY FieldTypes DEF Making
<1>5. Debt(S, K, st, h) = Debt(S, C, st, g)
  <2>1. CASE g.shared
    BY <1>3, <1>4, <2>1, DebtIs
  <2>2. CASE ~g.shared
    BY <1>3, <1>4, <2>2, DebtIs
  <2> QED
    BY <2>1, <2>2
<1> QED
  BY <1>2, <1>5

(* A handler that has nothing to do with creations asks for none.          *)
LEMMA SettleDebt ==
  ASSUME NEW S \in InstancePoolObject, NEW C \in InstancePoolObject,
         NEW st \in BOOLEAN, NEW g \in Pass, Coherent(S, C, st, g),
         g.at \in {"list", "listRemove", "delete"},
         NEW o \in InstancePoolObject, NEW h \in Pass,
         o.uid = g.ip.uid, o.count = g.ip.count, o.status # Unset, Shown(o) = 0,
         Modest(o), h.ip = o, h.shared = g.shared,
         \/ h.at = "write"
         \/ h.at = "delete" /\ o.status = "cleanupNodes"
  PROVE  LET K == IF g.shared THEN o ELSE C
         IN  Coherent(S, K, st, h) /\ Debt(S, K, st, h) <= Debt(S, C, st, g)
<1> DEFINE K == IF g.shared THEN o ELSE C
<1>1. Fits(h)
  BY DEF Fits
<1>2. Coherent(S, K, st, h)
  BY <1>1, AssignCoherent
<1>3. Shown(g.ip) = 0
  BY UnsetDiffers DEF Coherent, Fits, Reconciling, Shown
<1>4. InHand(g) = 0 /\ InHand(h) = 0 /\ ~Making(g) /\ ~Making(h) /\ g.at # "write"
  BY DEF InHand, Making
<1>5. Debt(S, K, st, h) = Debt(S, C, st, g)
  <2>1. CASE g.shared
    <3>1. Shown(C) = 0 /\ Shown(K) = 0
      BY <1>3, <2>1 DEF Coherent
    <3> HIDE DEF K
    <3> QED
      BY <1>4, <3>1, DebtIs
  <2>2. CASE ~g.shared
    BY <1>4, <2>2, DebtIs
  <2> QED
    BY <2>1, <2>2
<1>6. Debt(S, C, st, g) \in Nat
  BY DebtType
<1> QED
  BY <1>2, <1>5, <1>6

(* reconcileInstances asks for the Instances that are missing.             *)
LEMMA RefillDebt ==
  ASSUME NEW S \in InstancePoolObject, NEW C \in InstancePoolObject,
         NEW st \in BOOLEAN, NEW g \in Pass, Coherent(S, C, st, g),
         g.at = "list", NEW m \in Nat,
         NEW o \in InstancePoolObject, NEW h \in Pass,
         o.uid = g.ip.uid, o.count = g.ip.count, o.status = "tokenReady",
         o.needed = o.count - m, o.needed > 0,
         h.ip = o, h.shared = g.shared, h.at = "write"
  PROVE  LET K == IF g.shared THEN o ELSE C
         IN  /\ Coherent(S, K, st, h)
             /\ \/ m + Debt(S, K, st, h) <= m + Debt(S, C, st, g)
                \/ m + Debt(S, K, st, h) <= 2 * S.count
<1> DEFINE K == IF g.shared THEN o ELSE C
           s == Shown(S)
           c == S.count
           u == S.status = Unset
           x == Shown(o)
           d == Debt(S, C, st, g)
           e == Debt(S, K, st, h)
<1>1. o.count \in Nat /\ o.needed \in Int /\ o.count = c
  BY FieldTypes DEF Coherent
<1>2. Modest(o) /\ Fits(h) /\ o.status # Unset /\ x = o.needed
  BY <1>1, UnsetDiffers DEF Modest, Fits, Shown
<1>3. Coherent(S, K, st, h)
  BY <1>2, AssignCoherent
<1>4. /\ s \in Nat /\ c \in Nat /\ s <= c /\ (u => ~st /\ s = c)
  BY Bounds
<1>5. x = c - m /\ x > 0
  BY <1>1, <1>2
<1>6. Shown(g.ip) = 0
  BY UnsetDiffers DEF Coherent, Fits, Reconciling, Shown
<1>7. InHand(g) = 0 /\ InHand(h) = 0 /\ ~Making(g) /\ ~Making(h) /\ g.at # "write"
  BY DEF InHand, Making
<1>8. CASE g.shared
  <2>1. Shown(C) = 0 /\ K = o
    BY <1>6, <1>8 DEF Coherent
  <2>2. d = 0 + (IF st THEN 0 + s ELSE IF 0 >= s THEN 0 ELSE s) + (IF u THEN c ELSE 0)
    BY <1>7, <2>1, DebtIs
  <2>3. e = 0 + (IF st THEN x + s ELSE IF x >= s THEN x ELSE s)
              + (IF u THEN c ELSE IF ~st THEN x ELSE 0)
    BY <1>7, <1>8, <2>1, DebtIs
  <2> HIDE DEF s, c, u, x, d, e, K
  <2>4. m + e <= m + d \/ m + e <= 2 * c
    BY <1>4, <1>5, <2>2, <2>3
  <2> QED
    BY <1>3, <2>4 DEF d, e, c, K
<1>9. CASE ~g.shared
  <2>1. d = e
    BY <1>7, <1>9, DebtIs
  <2>2. d \in Nat
    BY DebtType
  <2> QED
    BY <1>3, <2>1, <2>2
<1> QED
  BY <1>8, <1>9

-----------------------------------------------------------------------------
(***************************************************************************)
(* Before the first disturbance.                                           *)
(***************************************************************************)
LEMMA StatusCases ==
  ASSUME NEW o \in InstancePoolObject
  PROVE  /\ o.status \in {Unset, "tokenReady", "cleanupNodes"} \cup Reconciling
         /\ o.status = Unset => Shown(o) = o.count
         /\ o.status = "tokenReady" => Shown(o) = o.needed
         /\ o.status \in Reconciling => Shown(o) = 0
<1>1. o.status \in {Unset, "tokenReady", "cleanupNodes"} \cup Reconciling
  BY FieldTypes DEF Statuses, Unset, Reconciling
<1> QED
  BY <1>1, UnsetDiffers DEF Shown, Reconciling

(* There are then few enough Instances for the first disturbance.          *)
LEMMA CalmTotal ==
  ASSUME NEW S \in InstancePoolObject, NEW C \in InstancePoolObject,
         NEW st \in BOOLEAN, NEW g \in Pass, Coherent(S, C, st, g),
         NEW M, M = {} => Cardinality(M) = 0, NEW q, NEW w,
         Calm(S, C, st, g, M, q, w)
  PROVE  /\ Cardinality(M) + Debt(S, C, st, g) <= 2 * S.count
         /\ Making(g) => Cardinality(M) + Debt(S, C, st, g) <= S.count
<1> DEFINE s == Shown(S)
           k == Shown(C)
           h == InHand(g)
           c == S.count
           d == Debt(S, C, st, g)
           m == Cardinality(M)
<1>1. /\ s \in Nat /\ k \in Nat /\ c \in Nat /\ k <= c
      /\ C.count = c
  BY Bounds
<1>2. CASE S.status = Unset
  <2>1. m = 0 /\ s = c /\ k = c /\ h = 0 /\ ~Making(g) /\ ~st
    BY <1>2, StatusCases, UnsetDiffers DEF Calm, Asking, Coherent, InHand, Making
  <2>2. d = 0 + (IF c >= c THEN c ELSE c) + c
    BY <1>2, <2>1, DebtIs
  <2> HIDE DEF s, k, h, c, d, m
  <2>3. m + d <= 2 * c
    BY <1>1, <2>1, <2>2
  <2> QED
    BY <2>1, <2>3 DEF m, d, c
<1>3. CASE S.status = "tokenReady"
  <2>1. s = c /\ S.status # Unset
    BY <1>3, StatusCases, UnsetDiffers DEF Calm, Filling
  <2>2. CASE st
    <3>1. m = 0 /\ h = 0 /\ ~Making(g)
      BY <1>3, <2>2 DEF Calm, Filling, InHand, Making
    <3>2. d = 0 + (k + c) + 0
      BY <2>1, <2>2, <3>1, DebtIs
    <3> HIDE DEF s, k, h, c, d, m
    <3>3. m + d <= 2 * c
      BY <1>1, <3>1, <3>2
    <3> QED
      BY <3>1, <3>3 DEF m, d, c
  <2>3. CASE ~st /\ g.at \in {"idle", "lock", "lookup"}
    <3>1. m = 0 /\ h = 0 /\ ~Making(g) /\ k = c /\ g.at # "write"
      BY <1>3, <2>1, <2>3 DEF Calm, Filling, InHand, Making
    <3>2. d = 0 + (IF c >= c THEN c ELSE c) + 0
      BY <2>1, <2>3, <3>1, DebtIs
    <3> HIDE DEF s, k, h, c, d, m
    <3>3. m + d <= 2 * c
      BY <1>1, <3>1, <3>2
    <3> QED
      BY <3>1, <3>3 DEF m, d, c
  <2>4. CASE ~st /\ g.at \in {"create", "publish"}
    <3>1. m + h = c /\ Making(g) /\ g.at # "write"
      <4>1. CASE g.at = "create"
        BY <1>3, <2>4, <4>1 DEF Calm, Filling, InHand, Making
      <4>2. CASE g.at = "publish"
        <5>1. h = 0 /\ m = c /\ Making(g)
          BY <1>3, <2>4, <4>2 DEF Calm, Filling, InHand, Making
        <5> HIDE DEF m, h, c
        <5> QED
          BY <1>1, <4>2, <5>1
      <4> QED
        BY <2>4, <4>1, <4>2
    <3>2. d = h + 0 + 0
      BY <2>1, <2>4, <3>1, DebtIs
    <3>3. h \in Nat
      BY Bounds
    <3> HIDE DEF s, k, h, c, d, m
    <3>4. d = h
      BY <3>2, <3>3
    <3>5. m + d <= 2 * c /\ m + d <= c
      BY <1>1, <3>1, <3>4
    <3> QED
      BY <3>5 DEF m, d, c
  <2> QED
    BY <1>3, <2>2, <2>3, <2>4 DEF Calm, Filling
<1>4. CASE S.status \in Reconciling
  <2>1. s = 0 /\ k = 0 /\ h = 0 /\ m = c /\ ~Making(g) /\ S.status # Unset
    BY <1>4, StatusCases, UnsetDiffers DEF Calm, Filled, InHand, Making, Reconciling
  <2>2. d = 0 + (IF st THEN 0 + 0 ELSE IF 0 >= 0 THEN 0 ELSE 0) + 0
    BY <2>1, DebtIs
  <2> HIDE DEF s, k, h, c, d, m
  <2>3. m + d <= 2 * c
    BY <1>1, <2>1, <2>2
  <2> QED
    BY <2>1, <2>3 DEF m, d, c
<1> QED
  BY <1>2, <1>3, <1>4, StatusCases DEF Calm

(* A calm pool stays calm when it is enqueued, if it is still waiting for   *)
(* its Instances' word or has none to wait for.                             *)
LEMMA CalmNotify ==
  ASSUME NEW S, NEW C, NEW st, NEW g, NEW M, NEW q, NEW w,
         Calm(S, C, st, g, M, q, w), w, NEW q2, NEW w2, ~w2,
         S.status \in {Unset, "tokenReady", "cleanupNodes"} \cup Reconciling
  PROVE  Calm(S, C, st, g, M, q2, w2)
BY UnsetDiffers DEF Calm, Asking, Filling, Filled, Reconciling

LEMMA CalmStart ==
  ASSUME NEW S \in InstancePoolObject, NEW C \in InstancePoolObject,
         NEW st \in BOOLEAN, NEW g \in Pass, Coherent(S, C, st, g),
         g.at = "idle", NEW h \in Pass,
         \/ h = Idle
         \/ h.at = Handler(C.status) /\ h.ip = C /\ h.shared,
         NEW M, NEW q, NEW q2, q, ~q2, NEW w, Calm(S, C, st, g, M, q, w)
  PROVE  Calm(S, C, st, h, M, q2, w)
<1>1. CASE S.status = Unset
  BY <1>1, IdlePass, Handlers, UnsetDiffers DEF Calm, Asking, Reconciling
<1>2. CASE S.status = "tokenReady"
  BY <1>2, IdlePass, Handlers, UnsetDiffers DEF Calm, Filling, Reconciling
<1>3. CASE S.status \in Reconciling
  BY <1>3, IdlePass, Handlers, UnsetDiffers DEF Calm, Filled, Reconciling
<1> QED
  BY <1>1, <1>2, <1>3, StatusCases DEF Calm

LEMMA CalmLock ==
  ASSUME NEW S \in InstancePoolObject, NEW C, NEW st, NEW g,
         g.at = "lock", NEW h, h.at = "lookup", h.shared = g.shared,
         NEW M, NEW q, NEW w, Calm(S, C, st, g, M, q, w)
  PROVE  Calm(S, C, st, h, M, q, w)
BY StatusCases, UnsetDiffers DEF Calm, Asking, Filling, Filled, Reconciling

LEMMA CalmLookup ==
  ASSUME NEW S \in InstancePoolObject, NEW C \in InstancePoolObject,
         NEW st \in BOOLEAN, NEW g \in Pass, Coherent(S, C, st, g),
         g.at = "lookup", NEW h, h.at = "create", h.shared = g.shared,
         h.left = g.ip.needed, NEW M, M = {} => Cardinality(M) = 0, NEW q, NEW w,
         Calm(S, C, st, g, M, q, w)
  PROVE  Calm(S, C, st, h, M, q, w)
<1>1. S.status = "tokenReady" /\ Filling(S, C, st, g, M, q, w)
  BY StatusCases, UnsetDiffers DEF Calm, Asking, Filled
<1>2. /\ ~st /\ g.shared /\ C = S /\ M = {} /\ S.needed = S.count
  BY <1>1 DEF Filling
<1>3. h.left = S.count /\ S.count \in Nat
  BY <1>2, FieldTypes DEF Coherent
<1>4. Cardinality(M) + h.left = S.count
  BY <1>2, <1>3
<1>5. Filling(S, C, st, h, M, q, w)
  BY <1>2, <1>4 DEF Filling
<1> QED
  BY <1>1, <1>5, UnsetDiffers DEF Calm, Reconciling

LEMMA CalmCreate ==
  ASSUME NEW S \in InstancePoolObject, NEW C, NEW st, NEW g \in Pass,
         g.at = "create", NEW h, h.at = "create", h.shared = g.shared,
         h.left = g.left - 1, NEW M, Cardinality(M) \in Nat, NEW N,
         Cardinality(N) = Cardinality(M) + 1, NEW q, NEW w,
         Calm(S, C, st, g, M, q, w)
  PROVE  Calm(S, C, st, h, N, q, w)
<1>1. S.status = "tokenReady" /\ Filling(S, C, st, g, M, q, w)
  BY StatusCases, UnsetDiffers DEF Calm, Asking, Filled
<1>2. /\ ~st /\ g.shared /\ C = S /\ Cardinality(M) + g.left = S.count
      /\ S.needed = S.count
  BY <1>1 DEF Filling
<1>3. Cardinality(N) + h.left = S.count
  BY <1>2, FieldTypes
<1>4. Filling(S, C, st, h, N, q, w)
  BY <1>2, <1>3 DEF Filling
<1> QED
  BY <1>1, <1>4, UnsetDiffers DEF Calm, Reconciling

(* A pass ends early, or goes on to the end of submitInstances.            *)
LEMMA CalmReturn ==
  ASSUME NEW S \in InstancePoolObject, NEW C \in InstancePoolObject,
         NEW st \in BOOLEAN, NEW g \in Pass, Coherent(S, C, st, g),
         \/ g.at \in {"prepare", "lookup"}
         \/ g.at = "write" /\ ~(g.shared /\ ~st),
         NEW M, NEW q, NEW q2, NEW w, Calm(S, C, st, g, M, q, w)
  PROVE  Calm(S, C, st, Idle, M, q2, w)
<1>1. CASE S.status = Unset
  BY <1>1, IdlePass, UnsetDiffers
     DEF Calm, Asking, Reconciling, Coherent, Fits
<1>2. CASE S.status = "tokenReady"
  BY <1>2, IdlePass, UnsetDiffers DEF Calm, Filling, Reconciling
<1>3. CASE S.status \in Reconciling
  BY <1>3, IdlePass, UnsetDiffers DEF Calm, Filled, Reconciling
<1> QED
  BY <1>1, <1>2, <1>3, StatusCases DEF Calm

LEMMA CalmFinish ==
  ASSUME NEW S \in InstancePoolObject, NEW C \in InstancePoolObject,
         NEW st \in BOOLEAN, NEW g \in Pass, Coherent(S, C, st, g),
         g.at = "create", g.left <= 0, NEW o,
         NEW h, h.at = "publish", h.shared = g.shared,
         NEW M, Cardinality(M) \in Nat, NEW q, NEW w, Calm(S, C, st, g, M, q, w)
  PROVE  Calm(S, IF g.shared THEN o ELSE C, st, h, M, q, w)
<1>1. S.status = "tokenReady" /\ Filling(S, C, st, g, M, q, w)
  BY StatusCases, UnsetDiffers DEF Calm, Asking, Filled
<1>2. /\ ~st /\ g.shared /\ Cardinality(M) + g.left = S.count /\ S.needed = S.count
  BY <1>1 DEF Filling
<1>3. g.left = 0
  BY FieldTypes DEF Coherent, Fits
<1>4. Cardinality(M) = S.count
  BY <1>2, <1>3
<1>5. Filling(S, o, st, h, M, q, w)
  BY <1>2, <1>4 DEF Filling
<1> QED
  BY <1>1, <1>2, <1>5, UnsetDiffers DEF Calm, Reconciling

LEMMA CalmPrepare ==
  ASSUME NEW S \in InstancePoolObject, NEW C \in InstancePoolObject,
         NEW st \in BOOLEAN, NEW g \in Pass, Coherent(S, C, st, g),
         g.at = "prepare", NEW o, o.status = "tokenReady", o.needed = o.count,
         NEW h, h.at = "write", h.shared = g.shared,
         NEW M, NEW q, NEW w, Calm(S, C, st, g, M, q, w)
  PROVE  Calm(S, o, st, h, M, q, w)
<1>1. S.status = Unset /\ g.shared
  BY DEF Coherent, Fits
<1>2. Asking(C, g, M, q, w)
  BY <1>1 DEF Calm
<1>3. Asking(o, h, M, q, w)
  BY <1>1, <1>2 DEF Asking
<1> QED
  BY <1>1, <1>3, UnsetDiffers DEF Calm, Reconciling

LEMMA CalmReconcile ==
  ASSUME NEW S \in InstancePoolObject, NEW C \in InstancePoolObject,
         NEW st \in BOOLEAN, NEW g \in Pass, Coherent(S, C, st, g),
         g.at = "list", NEW o,
         NEW M, g.ip.status \in Reconciling /\ Cardinality(M) = g.ip.count =>
                  o.status \in Reconciling,
         NEW h, h.at = "write", h.shared = g.shared, h.ip = o,
         NEW q, NEW w, Calm(S, C, st, g, M, q, w)
  PROVE  Calm(S, IF g.shared THEN o ELSE C, st, h, M, q, w)
<1>1. S.status \in Reconciling /\ Filled(S, C, g, M)
  BY StatusCases, UnsetDiffers DEF Calm, Asking, Filling
<1>2. o.status \in Reconciling
  BY <1>1 DEF Filled, Coherent
<1>3. Filled(S, IF g.shared THEN o ELSE C, h, M)
  BY <1>1, <1>2 DEF Filled
<1> QED
  BY <1>1, <1>3, UnsetDiffers DEF Calm, Reconciling

LEMMA CalmStore ==
  ASSUME NEW S \in InstancePoolObject, NEW C \in InstancePoolObject,
         NEW g \in Pass, Coherent(S, C, FALSE, g),
         g.at \in {"write", "publish"}, g.shared,
         NEW T \in InstancePoolObject, T.status = g.ip.status,
         T.needed = g.ip.needed, T.count = S.count,
         NEW M, NEW q, NEW w, Calm(S, C, FALSE, g, M, q, w),
         NEW st \in BOOLEAN, T # S => st
  PROVE  Calm(T, C, st, Idle, M, q, w)
<1>0. g.ip = C
  BY DEF Coherent
<1>1. CASE S.status = Unset
  <2>1. Asking(C, g, M, q, w)
    BY <1>1 DEF Calm
  <2>2. /\ M = {} /\ ~w /\ ~q /\ C.status = "tokenReady" /\ C.needed = C.count
    BY <1>0, <2>1, UnsetDiffers DEF Asking, Coherent, Fits
  <2>3. /\ T.status = "tokenReady" /\ T.needed = T.count /\ st = TRUE
    BY <1>0, <1>1, <2>2, UnsetDiffers DEF Coherent
  <2>4. Filling(T, C, st, Idle, M, q, w)
    BY <2>2, <2>3, IdlePass DEF Filling
  <2> QED
    BY <2>3, <2>4, UnsetDiffers DEF Calm, Reconciling
<1>2. CASE S.status = "tokenReady"
  <2>1. Filling(S, C, FALSE, g, M, q, w)
    BY <1>2 DEF Calm
  <2>2. g.at = "publish" /\ Cardinality(M) = S.count
    BY <2>1 DEF Filling
  <2>3. T.status \in Reconciling /\ C.status \in Reconciling
    BY <1>0, <2>2 DEF Coherent, Fits, Reconciling
  <2>4. Filled(T, C, Idle, M)
    BY <2>2, <2>3, IdlePass DEF Filled
  <2> QED
    BY <2>3, <2>4, UnsetDiffers DEF Calm, Reconciling
<1>3. CASE S.status \in Reconciling
  <2>1. Filled(S, C, g, M)
    BY <1>3 DEF Calm
  <2>2. Filled(T, C, Idle, M) /\ T.status \in Reconciling
    BY <1>0, <2>1, IdlePass DEF Filled
  <2> QED
    BY <2>2, UnsetDiffers DEF Calm, Reconciling
<1> QED
  BY <1>1, <1>2, <1>3, StatusCases DEF Calm

LEMMA CalmDeliver ==
  ASSUME NEW S \in InstancePoolObject, NEW C \in InstancePoolObject,
         NEW g \in Pass, Coherent(S, C, TRUE, g), NEW h,
         h.at = g.at, h.ip = g.ip,
         NEW M, NEW q, NEW q2, NEW w, Calm(S, C, TRUE, g, M, q, w)
  PROVE  Calm(S, S, FALSE, h, M, q2, w)
<1>1. S.status # Unset
  BY DEF Coherent
<1>2. CASE S.status = "tokenReady"
  BY <1>2, UnsetDiffers DEF Calm, Filling, Reconciling
<1>3. CASE S.status \in Reconciling
  BY <1>3, UnsetDiffers DEF Calm, Filled, Reconciling
<1> QED
  BY <1>1, <1>2, <1>3, StatusCases DEF Calm

LEMMA CalmRestart ==
  ASSUME NEW S \in InstancePoolObject, NEW C \in InstancePoolObject,
         NEW st \in BOOLEAN, NEW g \in Pass, Coherent(S, C, st, g),
         g.at \notin {"create", "publish"},
         NEW M, NEW q, NEW q2, NEW w, NEW w2, ~w2, Calm(S, C, st, g, M, q, w)
  PROVE  Calm(S, S, FALSE, Idle, M, q2, w2)
<1>1. CASE S.status = Unset
  BY <1>1, IdlePass, UnsetDiffers DEF Calm, Asking, Reconciling
<1>2. CASE S.status = "tokenReady"
  BY <1>2, IdlePass, UnsetDiffers DEF Calm, Filling, Reconciling
<1>3. CASE S.status \in Reconciling
  BY <1>3, IdlePass, UnsetDiffers DEF Calm, Filled, Reconciling
<1> QED
  BY <1>1, <1>2, <1>3, StatusCases DEF Calm

(* submitInstances is never refused its write.                             *)
LEMMA CalmPublishes ==
  ASSUME NEW S \in InstancePoolObject, NEW C, NEW st, NEW g, NEW M, NEW q, NEW w,
         Calm(S, C, st, g, M, q, w), g.at = "publish"
  PROVE  g.shared /\ ~st
BY StatusCases DEF Calm, Asking, Filling, Filled

(* Nobody removes anything.                                                *)
LEMMA CalmKeeps ==
  ASSUME NEW S \in InstancePoolObject, NEW C, NEW st, NEW g, NEW M, NEW q, NEW w,
         Calm(S, C, st, g, M, q, w)
  PROVE  g.at \notin {"listRemove", "delete"}
BY StatusCases DEF Calm, Asking, Filling, Filled

-----------------------------------------------------------------------------
(***************************************************************************)
(* The steps of a pool.  All but the disturbances keep what it adds up to. *)
(***************************************************************************)
Gentle == \A r \in Pools : ~At(r, {"delete"})

Keeps(p) ==
  /\ Matched(p)'
  /\ pool'[p].count = pool[p].count
  /\ Total(p)' <= Total(p) \/ Total(p)' <= 2 * pool[p].count
  /\ Gentle /\ Untroubled(p) => Untroubled(p)'

(* A step of others.                                                       *)
Spares(p) ==
  /\ Matched(p)'
  /\ pool'[p].count = pool[p].count
  /\ Total(p)' <= Total(p)
  /\ Gentle /\ Untroubled(p) => Untroubled(p)'

Adds(p) ==
  /\ Matched(p)'
  /\ pool'[p].count = pool[p].count
  /\ Total(p)' <= Total(p) + (IF Making(pass[p]) THEN pool[p].count ELSE 0)

LEMMA Pieces ==
  ASSUME TypeOK, NEW p \in Pools
  PROVE  /\ pool[p] \in InstancePoolObject /\ cache[p] \in InstancePoolObject
         /\ stale[p] \in BOOLEAN /\ pass[p] \in Pass
         /\ IsFiniteSet(Members(p)) /\ Cardinality(Members(p)) \in Nat
         /\ Members(p) = {} => Cardinality(Members(p)) = 0
         /\ Members(p) \subseteq Names
<1>1. Members(p) \subseteq Names /\ IsFiniteSet(Members(p))
  BY MembersCount, FS_Subset, ConstantsAssumption DEF ConstantsAssumption
<1> QED
  BY <1>1, MembersCount, FS_EmptySet DEF TypeOK

LEMMA TotalType ==
  ASSUME TypeOK, NEW p \in Pools, Matched(p)
  PROVE  /\ Total(p) \in Nat /\ pool[p].count \in Nat
         /\ Cardinality(Members(p)) <= Total(p)
<1> DEFINE d == Debt(pool[p], cache[p], stale[p], pass[p])
           m == Cardinality(Members(p))
<1>1. d \in Nat /\ m \in Nat /\ Total(p) = m + d
  BY Pieces, DebtType DEF Matched, Total
<1>2. pool[p].count \in Nat
  BY Pieces, FieldTypes
<1> HIDE DEF d, m
<1>3. m + d \in Nat /\ m <= m + d
  BY <1>1
<1> QED
  BY <1>1, <1>2, <1>3 DEF m

(* A step that leaves the Instances and the stored pool alone.             *)
LEMMA QuietKeeps ==
  ASSUME NEW p \in Pools, UNCHANGED inst, pool'[p] = pool[p],
         NEW K, NEW s, NEW h, cache'[p] = K, stale'[p] = s, pass'[p] = h,
         Coherent(pool[p], K, s, h),
         LET d == Debt(pool[p], cache[p], stale[p], pass[p])
             e == Debt(pool[p], K, s, h)
             m == Cardinality(Members(p))
         IN  m + e <= m + d \/ m + e <= 2 * pool[p].count,
         Calm(pool[p], cache[p], stale[p], pass[p], Members(p), p \in queue, p \in notify)
           => Calm(pool[p], K, s, h, Members(p), p \in queue', p \in notify')
  PROVE  Keeps(p)
<1>1. Members(p)' = Members(p)
  BY DEF Members
<1>2. Matched(p)'
  BY DEF Matched
<1>3. Total(p)' <= Total(p) \/ Total(p)' <= 2 * pool[p].count
  BY <1>1 DEF Total
<1>4. Untroubled(p) => Untroubled(p)'
  BY <1>1 DEF Untroubled
<1> QED
  BY <1>2, <1>3, <1>4 DEF Keeps

(* The same, where the debt grows no larger.                               *)
LEMMA SteadyKeeps ==
  ASSUME TypeOK, NEW p \in Pools, Matched(p), UNCHANGED inst, pool'[p] = pool[p],
         NEW K, NEW s, NEW h, cache'[p] = K, stale'[p] = s, pass'[p] = h,
         K \in InstancePoolObject, s \in BOOLEAN, h \in Pass,
         Coherent(pool[p], K, s, h),
         Debt(pool[p], K, s, h) <= Debt(pool[p], cache[p], stale[p], pass[p]),
         Calm(pool[p], cache[p], stale[p], pass[p], Members(p), p \in queue, p \in notify)
           => Calm(pool[p], K, s, h, Members(p), p \in queue', p \in notify')
  PROVE  Keeps(p)
<1> DEFINE d == Debt(pool[p], cache[p], stale[p], pass[p])
           e == Debt(pool[p], K, s, h)
           m == Cardinality(Members(p))
<1>1. m \in Nat /\ d \in Nat /\ e \in Nat /\ e <= d
  BY Pieces, DebtType DEF Matched
<1> HIDE DEF d, e, m
<1>2. m + e <= m + d
  BY <1>1
<1> QED
  BY <1>2, QuietKeeps DEF d, e, m

LEMMA StartKeeps ==
  ASSUME TypeOK, TypeOK', NEW p \in Pools, Matched(p), Start(p)
  PROVE  Keeps(p)
<1>1. /\ UNCHANGED <<inst, pool, cache, stale, notify>>
      /\ p \in queue /\ p \notin queue' /\ pass[p].at = "idle"
  BY DEF Start, Busy, store, watch
<1>2. \/ pass'[p] = Idle
      \/ /\ pass'[p].at = Handler(cache[p].status)
         /\ pass'[p].ip = cache[p] /\ pass'[p].shared
  BY DEF Start, TypeOK, Idle
<1>3. pass'[p] \in Pass
  BY DEF TypeOK
<1>4. /\ Coherent(pool[p], cache[p], stale[p], pass'[p])
      /\ Debt(pool[p], cache[p], stale[p], pass'[p])
           = Debt(pool[p], cache[p], stale[p], pass[p])
  BY <1>1, <1>2, <1>3, Pieces, StartDebt DEF Matched
<1>5. Debt(pool[p], cache[p], stale[p], pass[p]) \in Nat
  BY Pieces, DebtType DEF Matched
<1>6. Calm(pool[p], cache[p], stale[p], pass[p], Members(p), p \in queue, p \in notify)
        => Calm(pool[p], cache[p], stale[p], pass'[p], Members(p), p \in queue', p \in notify)
  BY <1>1, <1>2, <1>3, Pieces, CalmStart DEF Matched
<1>7. Debt(pool[p], cache[p], stale[p], pass'[p])
        <= Debt(pool[p], cache[p], stale[p], pass[p])
  BY <1>4, <1>5
<1> QED
  BY <1>1, <1>3, <1>4, <1>6, <1>7, Pieces, SteadyKeeps

(* A pass that is over without a write.                                    *)
LEMMA ReturnKeeps ==
  ASSUME TypeOK, TypeOK', NEW p \in Pools, Matched(p),
         At(p, {"prepare", "lookup", "delete"}), ReturnNow(p, TRUE) \/ ReturnNow(p, FALSE)
  PROVE  Keeps(p)
<1>1. /\ UNCHANGED <<inst, pool, cache, stale, notify>> /\ pass'[p] = Idle
  BY DEF ReturnNow, Return, store, watch, TypeOK
<1>2. pass[p].at \in {"prepare", "lookup", "delete"} /\ ~Making(pass[p])
  BY DEF At, Making
<1>3. /\ Coherent(pool[p], cache[p], stale[p], Idle)
      /\ Debt(pool[p], cache[p], stale[p], Idle)
           <= Debt(pool[p], cache[p], stale[p], pass[p]) + 0
  BY <1>2, Pieces, DropDebt DEF Matched
<1>4. Debt(pool[p], cache[p], stale[p], pass[p]) \in Nat
  BY Pieces, DebtType DEF Matched
<1>5. Debt(pool[p], cache[p], stale[p], Idle)
        <= Debt(pool[p], cache[p], stale[p], pass[p])
  BY <1>3, <1>4
<1>6. Calm(pool[p], cache[p], stale[p], pass[p], Members(p), p \in queue, p \in notify)
        => Calm(pool[p], cache[p], stale[p], Idle, Members(p), p \in queue', p \in notify)
  BY <1>2, Pieces, CalmReturn, CalmKeeps DEF Matched
<1> QED
  BY <1>1, <1>3, <1>5, <1>6, Pieces, IdlePass, SteadyKeeps

LEMMA LockKeeps ==
  ASSUME TypeOK, TypeOK', NEW p \in Pools, Matched(p), AcquireLock(p)
  PROVE  Keeps(p)
<1>1. UNCHANGED <<inst, pool, cache, stale, notify, queue>>
  BY DEF AcquireLock, store, watch
<1>2. /\ pass[p].at = "lock" /\ pass'[p].at = "lookup" /\ pass'[p].ip = pass[p].ip
      /\ pass'[p].shared = pass[p].shared
  BY DEF AcquireLock, At, TypeOK, Pass
<1>3. pass'[p] \in Pass
  BY DEF TypeOK
<1>4. /\ Coherent(pool[p], cache[p], stale[p], pass'[p])
      /\ Debt(pool[p], cache[p], stale[p], pass'[p])
           = Debt(pool[p], cache[p], stale[p], pass[p])
  BY <1>2, <1>3, Pieces, LockDebt DEF Matched
<1>5. Debt(pool[p], cache[p], stale[p], pass[p]) \in Nat
  BY Pieces, DebtType DEF Matched
<1>6. Calm(pool[p], cache[p], stale[p], pass[p], Members(p), p \in queue, p \in notify)
        => Calm(pool[p], cache[p], stale[p], pass'[p], Members(p), p \in queue, p \in notify)
  BY <1>2, Pieces, CalmLock
<1>7. Debt(pool[p], cache[p], stale[p], pass'[p])
        <= Debt(pool[p], cache[p], stale[p], pass[p])
  BY <1>4, <1>5
<1> QED
  BY <1>1, <1>3, <1>4, <1>6, <1>7, Pieces, SteadyKeeps

LEMMA LookupKeeps ==
  ASSUME TypeOK, TypeOK', NEW p \in Pools, Matched(p), Lookup(p),
         prereq # "noIngress"
  PROVE  Keeps(p)
<1>1. CASE prereq # "ok"
  BY <1>1, ReturnKeeps DEF Lookup, At
<1>2. CASE prereq = "ok"
  <2>1. UNCHANGED <<inst, pool, cache, stale, notify, queue>>
    BY <1>2 DEF Lookup, store, watch
  <2>2. /\ pass[p].at = "lookup" /\ pass'[p].at = "create" /\ pass'[p].ip = pass[p].ip
        /\ pass'[p].shared = pass[p].shared /\ pass'[p].left = pass[p].ip.needed
    BY <1>2 DEF Lookup, At, TypeOK, Pass
  <2>3. pass'[p] \in Pass
    BY DEF TypeOK
  <2>4. /\ Coherent(pool[p], cache[p], stale[p], pass'[p])
        /\ Debt(pool[p], cache[p], stale[p], pass'[p])
             <= Debt(pool[p], cache[p], stale[p], pass[p])
    BY <2>2, <2>3, Pieces, LookupDebt DEF Matched
  <2>5. Calm(pool[p], cache[p], stale[p], pass[p], Members(p), p \in queue, p \in notify)
          => Calm(pool[p], cache[p], stale[p], pass'[p], Members(p), p \in queue, p \in notify)
    BY <2>2, Pieces, CalmLookup DEF Matched
  <2> QED
    BY <2>1, <2>3, <2>4, <2>5, Pieces, SteadyKeeps
<1> QED
  BY <1>1, <1>2

LEMMA PrepareKeeps ==
  ASSUME TypeOK, TypeOK', NEW p \in Pools, Matched(p), PrepareInstancePool(p),
         config # "notString"
  PROVE  Keeps(p)
<1>1. CASE config # "ok"
  BY <1>1, ReturnKeeps DEF PrepareInstancePool, At
<1>2. CASE config = "ok"
  <2> DEFINE ip == pass[p].ip
             o == [ip EXCEPT !.needed = ip.count, !.status = "tokenReady",
                             !.requested = ip.count]
  <2>1. pass[p].at = "prepare" /\ pass[p].shared /\ ip \in InstancePoolObject
    BY Pieces, FieldTypes DEF PrepareInstancePool, At, Matched, Coherent, Fits
  <2>2. /\ o.uid = ip.uid /\ o.count = ip.count /\ o.status = "tokenReady"
        /\ o.needed = o.count /\ o \in InstancePoolObject
    <3>1. /\ o.uid = ip.uid /\ o.count = ip.count /\ o.status = "tokenReady"
          /\ o.needed = o.count
      BY <2>1 DEF InstancePoolObject
    <3>2. ip.count \in Int /\ "tokenReady" \in Statuses
      <4>1. ip.count \in Int
        BY <2>1, FieldTypes
      <4>2. "tokenReady" \in Statuses
        BY DEF Statuses
      <4> QED
        BY <4>1, <4>2
    <3> QED
      BY <2>1, <3>1, <3>2, RelabelType
  <2> HIDE DEF o
  <2>3. Assign(p, o, "write", {}) /\ UNCHANGED <<inst, pool, notify>>
    BY <1>2 DEF PrepareInstancePool, store, o
  <2>4. /\ cache'[p] = o /\ UNCHANGED <<stale, queue>>
        /\ pass'[p].at = "write" /\ pass'[p].ip = o /\ pass'[p].shared = pass[p].shared
    BY <2>1, <2>3 DEF Assign, TypeOK, Pass
  <2>5. pass'[p] \in Pass
    BY DEF TypeOK
  <2>6. /\ Coherent(pool[p], o, stale[p], pass'[p])
        /\ Debt(pool[p], o, stale[p], pass'[p])
             = Debt(pool[p], cache[p], stale[p], pass[p])
    <3>1. pool[p] \in InstancePoolObject /\ cache[p] \in InstancePoolObject
      BY Pieces
    <3>2. stale[p] \in BOOLEAN /\ pass[p] \in Pass
      BY Pieces
    <3>3. Coherent(pool[p], cache[p], stale[p], pass[p])
      BY DEF Matched
    <3>4. o \in InstancePoolObject /\ o.uid = pass[p].ip.uid /\ o.count = pass[p].ip.count
          /\ o.status = "tokenReady" /\ o.needed = o.count
      BY <2>2
    <3>5. pass[p].at = "prepare" /\ pass'[p].at = "write" /\ pass'[p].ip = o
          /\ pass'[p].shared = pass[p].shared
      BY <2>1, <2>4
    <3> QED
      BY <2>5, <3>1, <3>2, <3>3, <3>4, <3>5, PrepareDebt
  <2>7. Debt(pool[p], cache[p], stale[p], pass[p]) \in Nat
    BY Pieces, DebtType DEF Matched
  <2>8. Debt(pool[p], o, stale[p], pass'[p])
          <= Debt(pool[p], cache[p], stale[p], pass[p])
    BY <2>6, <2>7
  <2>9. Calm(pool[p], cache[p], stale[p], pass[p], Members(p), p \in queue, p \in notify)
          => Calm(pool[p], o, stale[p], pass'[p], Members(p), p \in queue, p \in notify)
    <3>1. /\ pool[p] \in InstancePoolObject /\ cache[p] \in InstancePoolObject
          /\ stale[p] \in BOOLEAN /\ pass[p] \in Pass
      BY Pieces
    <3>2. Coherent(pool[p], cache[p], stale[p], pass[p])
      BY DEF Matched
    <3>3. /\ pass[p].at = "prepare" /\ o.status = "tokenReady" /\ o.needed = o.count
          /\ pass'[p].at = "write" /\ pass'[p].shared = pass[p].shared
      BY <2>1, <2>2, <2>4
    <3> QED
      BY <3>1, <3>2, <3>3, CalmPrepare
  <2> QED
    BY <2>2, <2>3, <2>4, <2>5, <2>6, <2>8, <2>9, Pieces, SteadyKeeps
<1> QED
  BY <1>1, <1>2

LEMMA FinishKeeps ==
  ASSUME TypeOK, TypeOK', NEW p \in Pools, Matched(p), FinishSubmit(p)
  PROVE  Keeps(p)
<1> DEFINE ip == pass[p].ip
           o == Submitted(ip)
           K == IF pass[p].shared THEN o ELSE cache[p]
<1>1. pass[p].at = "create" /\ pass[p].left <= 0 /\ ip \in InstancePoolObject
  BY Pieces, FieldTypes DEF FinishSubmit, At
<1>2. o.uid = ip.uid /\ o.count = ip.count /\ o.status = "submitted"
  BY <1>1 DEF InstancePoolObject, Submitted
<1>3. o \in InstancePoolObject
  BY <1>1, SubmittedStatus
<1> HIDE DEF o
<1>4. Assign(p, o, "publish", {}) /\ UNCHANGED <<inst, pool, notify>>
  BY DEF FinishSubmit, store, o
<1>5. /\ cache'[p] = K /\ UNCHANGED <<stale, queue>>
      /\ pass'[p].at = "publish" /\ pass'[p].ip = o /\ pass'[p].shared = pass[p].shared
  BY <1>4 DEF Assign, TypeOK, Pass
<1>6. pass'[p] \in Pass /\ K \in InstancePoolObject
  BY <1>3, Pieces DEF TypeOK
<1>7. /\ Coherent(pool[p], K, stale[p], pass'[p])
      /\ Debt(pool[p], K, stale[p], pass'[p])
           = Debt(pool[p], cache[p], stale[p], pass[p])
  BY <1>1, <1>2, <1>3, <1>5, <1>6, Pieces, FinishDebt DEF Matched
<1>8. Debt(pool[p], cache[p], stale[p], pass[p]) \in Nat
  BY Pieces, DebtType DEF Matched
<1>9. Calm(pool[p], cache[p], stale[p], pass[p], Members(p), p \in queue, p \in notify)
        => Calm(pool[p], K, stale[p], pass'[p], Members(p), p \in queue, p \in notify)
  <2>1. /\ pool[p] \in InstancePoolObject /\ cache[p] \in InstancePoolObject
        /\ stale[p] \in BOOLEAN /\ pass[p] \in Pass
        /\ Cardinality(Members(p)) \in Nat
    BY Pieces
  <2>2. Coherent(pool[p], cache[p], stale[p], pass[p])
    BY DEF Matched
  <2>3. /\ pass[p].at = "create" /\ pass[p].left <= 0
        /\ pass'[p].at = "publish" /\ pass'[p].shared = pass[p].shared
    BY <1>1, <1>5
  <2> QED
    BY <2>1, <2>2, <2>3, CalmFinish
<1> HIDE DEF K
<1>10. Debt(pool[p], K, stale[p], pass'[p])
         <= Debt(pool[p], cache[p], stale[p], pass[p])
  BY <1>7, <1>8
<1> QED
  BY <1>4, <1>5, <1>6, <1>7, <1>9, <1>10, Pieces, SteadyKeeps

(* The Instances of a pool after one is created, and after one is deleted. *)
LEMMA AddedMembers ==
  ASSUME TypeOK, NEW p \in Pools, AddInstance(p)
  PROVE  \E n \in Names :
           /\ Members(p)' = Members(p) \cup {n}
           /\ Cardinality(Members(p)') = Cardinality(Members(p)) + 1
           /\ inst'[n].uid = pass[p].ip.uid /\ ~inst'[n].deleting
           /\ \A m \in Names \ {n} : inst'[m] = inst[m]
           /\ \A q \in Pools \ {p} : Members(q)' = Members(q) /\ n \notin Members(q)
<1>1. PICK n \in Names :
        /\ inst[n] = Absent
        /\ inst' = [inst EXCEPT ![n] =
             [phase |-> "created", owner |-> p, uid |-> pass[p].ip.uid,
              deleting |-> FALSE]]
  BY DEF AddInstance, Unused
<1>2. inst[n].owner \notin Pools
  BY <1>1, ConstantsAssumption DEF Absent, ConstantsAssumption
<1>3. /\ inst'[n].owner = p /\ inst'[n].uid = pass[p].ip.uid /\ ~inst'[n].deleting
      /\ \A m \in Names \ {n} : inst'[m] = inst[m]
  BY <1>1 DEF TypeOK
<1>4. Members(p)' = Members(p) \cup {n} /\ n \notin Members(p)
  BY <1>2, <1>3 DEF Members
<1>5. \A q \in Pools \ {p} : Members(q)' = Members(q) /\ n \notin Members(q)
  BY <1>2, <1>3 DEF Members
<1>6. Cardinality(Members(p)') = Cardinality(Members(p)) + 1
  BY <1>4, Pieces, FS_AddElement
<1> QED
  BY <1>3, <1>4, <1>5, <1>6

LEMMA DeletedMembers ==
  ASSUME TypeOK, NEW n \in Names, inst[n] # Absent, DeleteInstance(n)
  PROVE  \A q \in Pools : Members(q)' \subseteq Members(q)
<1>1. Absent.owner \notin Pools
  BY ConstantsAssumption DEF Absent, ConstantsAssumption
<1>2. inst[n] \in InstanceObject
  BY DEF TypeOK
<1>3. /\ \A m \in Names \ {n} : inst'[m] = inst[m]
      /\ inst'[n] = Absent \/ inst'[n].owner = inst[n].owner
  BY <1>2 DEF DeleteInstance, TypeOK, InstanceObject
<1> QED
  BY <1>1, <1>3 DEF Members

(* A step that adds no Instance and at most x to what is still to come.    *)
LEMMA ShrinkTotal ==
  ASSUME TypeOK, NEW p \in Pools, Matched(p), Members(p)' \subseteq Members(p),
         NEW T \in InstancePoolObject, NEW K \in InstancePoolObject,
         NEW s \in BOOLEAN, NEW h \in Pass,
         pool'[p] = T, cache'[p] = K, stale'[p] = s, pass'[p] = h,
         Coherent(T, K, s, h), T.count = pool[p].count, NEW x \in Nat,
         Debt(T, K, s, h) <= Debt(pool[p], cache[p], stale[p], pass[p]) + x
  PROVE  /\ Matched(p)' /\ pool'[p].count = pool[p].count
         /\ Total(p)' <= Total(p) + x
<1> DEFINE d == Debt(pool[p], cache[p], stale[p], pass[p])
           e == Debt(T, K, s, h)
           m == Cardinality(Members(p))
           k == Cardinality(Members(p)')
<1>1. m \in Nat /\ d \in Nat /\ e \in Nat /\ e <= d + x
  BY Pieces, DebtType DEF Matched
<1>2. k \in Nat /\ k <= m
  BY Pieces, FS_Subset, FS_CardinalityType
<1>3. Total(p)' = k + e /\ Total(p) = m + d
  BY DEF Total
<1> HIDE DEF d, e, m, k
<1>4. k + e <= (m + d) + x
  BY <1>1, <1>2
<1> QED
  BY <1>3, <1>4 DEF Matched

LEMMA ShrinkKeeps ==
  ASSUME TypeOK, NEW p \in Pools, Matched(p), Members(p)' \subseteq Members(p),
         NEW T \in InstancePoolObject, NEW K \in InstancePoolObject,
         NEW s \in BOOLEAN, NEW h \in Pass,
         pool'[p] = T, cache'[p] = K, stale'[p] = s, pass'[p] = h,
         Coherent(T, K, s, h), T.count = pool[p].count,
         Debt(T, K, s, h) <= Debt(pool[p], cache[p], stale[p], pass[p]),
         Untroubled(p) => Untroubled(p)'
  PROVE  Keeps(p)
<1> DEFINE d == Debt(pool[p], cache[p], stale[p], pass[p])
           e == Debt(T, K, s, h)
           t == Total(p)
<1>1. d \in Nat /\ e \in Nat /\ e <= d /\ t \in Nat
  BY Pieces, DebtType, TotalType DEF Matched
<1>2. e <= d + 0
  <2> HIDE DEF d, e
  <2> QED
    BY <1>1
<1>3. /\ Matched(p)' /\ pool'[p].count = pool[p].count
      /\ Total(p)' <= t + 0
  BY <1>2, ShrinkTotal
<1>4. t + 0 = t
  <2> HIDE DEF t
  <2> QED
    BY <1>1
<1> QED
  BY <1>3, <1>4 DEF Keeps

LEMMA CreateKeeps ==
  ASSUME TypeOK, TypeOK', NEW p \in Pools, Matched(p), CreateInstance(p)
  PROVE  Keeps(p)
<1> DEFINE m == Cardinality(Members(p))
           d == Debt(pool[p], cache[p], stale[p], pass[p])
           e == Debt(pool[p], cache[p], stale[p], pass'[p])
           t == Total(p)
<1>1. UNCHANGED <<pool, cache, stale, notify, queue>> /\ AddInstance(p)
  BY DEF CreateInstance, watch
<1>2. /\ pass[p].at = "create" /\ pass[p].left > 0
      /\ pass'[p].at = "create" /\ pass'[p].ip = pass[p].ip
      /\ pass'[p].shared = pass[p].shared /\ pass'[p].left = pass[p].left - 1
  BY DEF CreateInstance, At, TypeOK, Pass
<1>3. pass'[p] \in Pass
  BY DEF TypeOK
<1>4. Coherent(pool[p], cache[p], stale[p], pass'[p]) /\ e + 1 = d
  BY <1>2, <1>3, Pieces, CreateDebt DEF Matched
<1>5. m \in Nat /\ d \in Nat /\ e \in Nat
  BY <1>3, <1>4, Pieces, DebtType DEF Matched
<1>6. PICK n \in Names :
        /\ Members(p)' = Members(p) \cup {n}
        /\ Cardinality(Members(p)') = m + 1
        /\ inst'[n].uid = pass[p].ip.uid /\ ~inst'[n].deleting
        /\ \A i \in Names \ {n} : inst'[i] = inst[i]
  BY <1>1, AddedMembers
<1>7. Matched(p)' /\ pool'[p].count = pool[p].count
  BY <1>1, <1>4 DEF Matched
<1>8. Total(p)' = (m + 1) + e /\ Total(p) = m + d
  BY <1>1, <1>6 DEF Total
<1>9. Total(p)' <= Total(p)
  <2> HIDE DEF m, d, e
  <2>1. (m + 1) + e <= m + d
    BY <1>4, <1>5
  <2> QED
    BY <1>8, <2>1
<1>10. ASSUME Untroubled(p) PROVE Untroubled(p)'
  <2>1. pass[p].ip.uid = 1
    BY <1>2 DEF Matched, Coherent
  <2>2. \A i \in Members(p)' : inst'[i].uid = 1 /\ ~inst'[i].deleting
    BY <1>6, <1>10, <2>1, Pieces DEF Untroubled
  <2>3. /\ pool[p] \in InstancePoolObject /\ pass[p] \in Pass
        /\ Cardinality(Members(p)) \in Nat
        /\ Cardinality(Members(p)') = Cardinality(Members(p)) + 1
    BY <1>6, Pieces
  <2>4. Calm(pool[p], cache[p], stale[p], pass'[p], Members(p)', p \in queue, p \in notify)
    BY <1>2, <1>10, <2>3, CalmCreate DEF Untroubled
  <2> QED
    BY <1>1, <2>2, <2>4 DEF Untroubled
<1> QED
  BY <1>7, <1>9, <1>10 DEF Keeps

(* What reconcileInstances asks for, given how many Instances there are.   *)
LEMMA ReconciledAsks ==
  ASSUME NEW ip \in InstancePoolObject, NEW ready \in Nat, NEW present \in Nat,
         ip.status \in Reconciling
  PROVE  LET o == Reconciled(ip, ready, present)
         IN  /\ \/ o.status = "tokenReady" /\ o.needed = o.count - present /\ o.needed > 0
                \/ o.status \in Reconciling \cup {"cleanupNodes"}
             /\ present = ip.count => o.status \in Reconciling
<1> DEFINE o == Reconciled(ip, ready, present)
           needed == ip.count - present
           status == IF needed < 0 THEN "cleanupNodes"
                     ELSE IF needed > 0 THEN "tokenReady" ELSE ip.status
<1>1. CASE ip.requested = ready /\ ip.requested = ip.count
  BY <1>1 DEF Reconciled, InstancePoolObject, Reconciling
<1>2. CASE ~(ip.requested = ready /\ ip.requested = ip.count)
  <2>1. o.status = status /\ o.needed = needed /\ o.count = ip.count
    BY <1>2 DEF Reconciled, InstancePoolObject
  <2>2. present = ip.count => status \in Reconciling
    BY FieldTypes
  <2>3. \/ status = "tokenReady" /\ needed > 0
        \/ status \in Reconciling \cup {"cleanupNodes"}
    BY FieldTypes
  <2> HIDE DEF o, status, needed
  <2>4. \/ o.status = "tokenReady" /\ o.needed = needed /\ o.needed > 0
        \/ o.status \in Reconciling \cup {"cleanupNodes"}
    BY <2>1, <2>3
  <2> QED
    BY <2>1, <2>2, <2>4 DEF needed, o
<1> QED
  BY <1>1, <1>2

LEMMA ReconcileKeeps ==
  ASSUME TypeOK, TypeOK', NEW p \in Pools, Matched(p), ReconcileInstances(p)
  PROVE  Keeps(p)
<1> DEFINE ip == pass[p].ip
           m == Cardinality(Members(p))
           o == Reconciled(ip, Cardinality(Managed(p)), m)
           K == IF pass[p].shared THEN o ELSE cache[p]
<1>1. /\ pass[p].at = "list" /\ ip \in InstancePoolObject /\ ip.status \in Reconciling
      /\ m \in Nat /\ Cardinality(Managed(p)) \in Nat
  BY Pieces, FieldTypes, MembersCount DEF ReconcileInstances, At, Matched, Coherent, Fits
<1>2. /\ o.uid = ip.uid /\ o.count = ip.count /\ o \in InstancePoolObject
      /\ \/ o.status = "tokenReady" /\ o.needed = o.count - m /\ o.needed > 0
         \/ o.status \in Reconciling \cup {"cleanupNodes"}
      /\ m = ip.count => o.status \in Reconciling
  BY <1>1, ReconciledType, ReconciledDecides, ReconciledAsks
<1>3. Assign(p, o, "write", {}) /\ UNCHANGED <<inst, pool, notify>>
  BY DEF ReconcileInstances, store
<1> HIDE DEF o
<1>4. /\ cache'[p] = K /\ UNCHANGED <<stale, queue>>
      /\ pass'[p].at = "write" /\ pass'[p].ip = o /\ pass'[p].shared = pass[p].shared
  BY <1>3 DEF Assign, TypeOK, Pass
<1>5. pass'[p] \in Pass /\ K \in InstancePoolObject
  BY <1>2, Pieces DEF TypeOK
<1>6. Coherent(pool[p], cache[p], stale[p], pass[p])
  BY DEF Matched
<1>7. /\ Coherent(pool[p], K, stale[p], pass'[p])
      /\ \/ m + Debt(pool[p], K, stale[p], pass'[p])
              <= m + Debt(pool[p], cache[p], stale[p], pass[p])
         \/ m + Debt(pool[p], K, stale[p], pass'[p]) <= 2 * pool[p].count
  <2>1. CASE o.status = "tokenReady" /\ o.needed = o.count - m /\ o.needed > 0
    <3>1. /\ pass[p].at = "list" /\ m \in Nat /\ o \in InstancePoolObject
          /\ o.uid = pass[p].ip.uid /\ o.count = pass[p].ip.count
          /\ pass'[p].at = "write" /\ pass'[p].ip = o /\ pass'[p].shared = pass[p].shared
      BY <1>1, <1>2, <1>4
    <3> HIDE DEF m
    <3> QED
      BY <1>5, <1>6, <2>1, <3>1, Pieces, RefillDebt
  <2>2. CASE o.status \in Reconciling \cup {"cleanupNodes"}
    <3>1. o.status # Unset /\ Shown(o) = 0 /\ Modest(o)
      BY <2>2, UnsetDiffers DEF Reconciling, Shown, Modest
    <3>2. /\ pass[p].at = "list" /\ o \in InstancePoolObject
          /\ o.uid = pass[p].ip.uid /\ o.count = pass[p].ip.count
          /\ pass'[p].at = "write" /\ pass'[p].ip = o /\ pass'[p].shared = pass[p].shared
      BY <1>1, <1>2, <1>4
    <3>3. /\ Coherent(pool[p], K, stale[p], pass'[p])
          /\ Debt(pool[p], K, stale[p], pass'[p])
               <= Debt(pool[p], cache[p], stale[p], pass[p])
      BY <1>5, <1>6, <3>1, <3>2, Pieces, SettleDebt
    <3> DEFINE d == Debt(pool[p], cache[p], stale[p], pass[p])
               e == Debt(pool[p], K, stale[p], pass'[p])
    <3>4. d \in Nat /\ e \in Nat /\ e <= d
      BY <1>5, <1>6, <3>3, Pieces, DebtType
    <3> HIDE DEF d, e, m
    <3>5. m + e <= m + d
      BY <1>1, <3>4
    <3> QED
      BY <3>3, <3>5 DEF d, e
  <2> QED
    BY <1>2, <2>1, <2>2
<1>8. Calm(pool[p], cache[p], stale[p], pass[p], Members(p), p \in queue, p \in notify)
        => Calm(pool[p], K, stale[p], pass'[p], Members(p), p \in queue, p \in notify)
  <2>1. /\ pass[p].at = "list" /\ pass'[p].at = "write" /\ pass'[p].ip = o
        /\ pass'[p].shared = pass[p].shared
        /\ pass[p].ip.status \in Reconciling /\ Cardinality(Members(p)) = pass[p].ip.count
             => o.status \in Reconciling
    BY <1>1, <1>2, <1>4
  <2>2. /\ pool[p] \in InstancePoolObject /\ cache[p] \in InstancePoolObject
        /\ stale[p] \in BOOLEAN /\ pass[p] \in Pass
    BY Pieces
  <2> QED
    BY <1>6, <2>1, <2>2, CalmReconcile
<1> HIDE DEF K
<1> QED
  BY <1>3, <1>4, <1>7, <1>8, QuietKeeps

(* The removal of what is too many.  It never runs before a disturbance.   *)
LEMMA RemovingTroubled ==
  ASSUME TypeOK, NEW p \in Pools, At(p, {"listRemove", "delete"})
  PROVE  ~Untroubled(p)
BY Pieces, CalmKeeps DEF At, Untroubled

LEMMA RemovalKeeps ==
  ASSUME TypeOK, TypeOK', NEW p \in Pools, Matched(p),
         At(p, {"listRemove", "delete"}), Members(p)' \subseteq Members(p),
         UNCHANGED <<pool, stale>>, NEW o \in InstancePoolObject,
         o.uid = pass[p].ip.uid, o.count = pass[p].ip.count,
         pass'[p].ip = o, pass'[p].shared = pass[p].shared,
         cache'[p] = IF pass[p].shared THEN o ELSE cache[p],
         \/ pass'[p].at = "write" /\ o.status = "submitted"
         \/ pass'[p].at = "delete" /\ o.status = "cleanupNodes"
  PROVE  Keeps(p)
<1> DEFINE K == IF pass[p].shared THEN o ELSE cache[p]
<1>1. o.status # Unset /\ Shown(o) = 0 /\ Modest(o)
  BY UnsetDiffers DEF Shown, Modest
<1>2. pass'[p] \in Pass /\ K \in InstancePoolObject
  BY Pieces DEF TypeOK
<1>3. Coherent(pool[p], cache[p], stale[p], pass[p])
  BY DEF Matched
<1>4. pass[p].at \in {"list", "listRemove", "delete"}
  BY DEF At
<1>5. /\ Coherent(pool[p], K, stale[p], pass'[p])
      /\ Debt(pool[p], K, stale[p], pass'[p])
           <= Debt(pool[p], cache[p], stale[p], pass[p])
  BY <1>1, <1>2, <1>3, <1>4, Pieces, SettleDebt
<1> HIDE DEF K
<1> QED
  BY <1>2, <1>5, Pieces, RemovingTroubled, ShrinkKeeps DEF K

LEMMA ListKeeps ==
  ASSUME TypeOK, TypeOK', NEW p \in Pools, Matched(p), ListInstances(p)
  PROVE  Keeps(p)
<1> DEFINE ip == pass[p].ip
           o == [ip EXCEPT !.status = "submitted"]
<1>1. /\ At(p, {"listRemove", "delete"}) /\ UNCHANGED <<inst, pool>>
      /\ ip \in InstancePoolObject /\ ip.status = "cleanupNodes"
  BY Pieces, FieldTypes DEF ListInstances, At, Matched, Coherent, Fits, store
<1>2. Members(p)' \subseteq Members(p)
  BY <1>1 DEF Members
<1>3. CASE Surplus(p)
  <2>1. /\ UNCHANGED <<cache, stale>> /\ pass'[p].ip = ip
        /\ pass'[p].shared = pass[p].shared /\ pass'[p].at = "delete"
    BY <1>3 DEF ListInstances, TypeOK, Pass
  <2>2. cache'[p] = IF pass[p].shared THEN ip ELSE cache[p]
    BY <1>1, <2>1 DEF Matched, Coherent, At
  <2> QED
    BY <1>1, <1>2, <2>1, <2>2, RemovalKeeps
<1>4. CASE ~Surplus(p)
  <2>1. /\ o \in InstancePoolObject /\ o.uid = ip.uid /\ o.count = ip.count
        /\ o.status = "submitted"
    <3>1. o \in InstancePoolObject
      BY <1>1, SubmittedStatus
    <3> QED
      BY <1>1, <3>1 DEF InstancePoolObject
  <2> HIDE DEF o
  <2>2. Assign(p, o, "write", {})
    BY <1>4 DEF ListInstances, o
  <2>3. /\ UNCHANGED stale /\ pass'[p].ip = o
        /\ pass'[p].shared = pass[p].shared /\ pass'[p].at = "write"
        /\ cache'[p] = IF pass[p].shared THEN o ELSE cache[p]
    BY <2>2 DEF Assign, TypeOK, Pass
  <2> QED
    BY <1>1, <1>2, <2>1, <2>3, RemovalKeeps
<1> QED
  BY <1>3, <1>4

LEMMA RemoveKeeps ==
  ASSUME TypeOK, TypeOK', NEW p \in Pools, Matched(p), RemoveInstance(p),
         pass[p].items # {}
  PROVE  Keeps(p)
<1> DEFINE ip == [pass[p].ip EXCEPT !.requested = @ - 1, !.needed = @ + 1]
           last == ip.needed >= 0
           o == IF last THEN [ip EXCEPT !.status = "submitted"] ELSE ip
           stage == IF last THEN "write" ELSE "delete"
<1>1. /\ At(p, {"listRemove", "delete"}) /\ At(p, {"prepare", "lookup", "delete"})
      /\ pass[p].ip \in InstancePoolObject /\ pass[p].ip.status = "cleanupNodes"
  BY Pieces, FieldTypes DEF RemoveInstance, At, Matched, Coherent, Fits
<1>2. CASE ReturnNow(p, TRUE)
  BY <1>1, <1>2, ReturnKeeps
<1>3. ASSUME NEW n \in Names, NEW items, inst[n] # Absent, DeleteInstance(n),
             Assign(p, o, stage, items), UNCHANGED pool
      PROVE  Keeps(p)
  <2>1. Members(p)' \subseteq Members(p)
    BY <1>3, DeletedMembers
  <2>2. /\ ip \in InstancePoolObject /\ ip.uid = pass[p].ip.uid
        /\ ip.count = pass[p].ip.count /\ ip.status = "cleanupNodes"
    <3>1. pass[p].ip.requested - 1 \in Int /\ pass[p].ip.needed + 1 \in Int
      BY <1>1 DEF InstancePoolObject
    <3>2. ip \in InstancePoolObject
      BY <1>1, <3>1, RelabelType, SubmittedStatus
    <3> QED
      BY <1>1, <3>2 DEF InstancePoolObject
  <2> HIDE DEF ip
  <2>3. /\ o \in InstancePoolObject /\ o.uid = pass[p].ip.uid
        /\ o.count = pass[p].ip.count
        /\ \/ stage = "write" /\ o.status = "submitted"
           \/ stage = "delete" /\ o.status = "cleanupNodes"
    <3> HIDE DEF last
    <3>1. [ip EXCEPT !.status = "submitted"] \in InstancePoolObject
      BY <2>2, SubmittedStatus
    <3>2. /\ [ip EXCEPT !.status = "submitted"].uid = ip.uid
          /\ [ip EXCEPT !.status = "submitted"].count = ip.count
          /\ [ip EXCEPT !.status = "submitted"].status = "submitted"
      BY <2>2 DEF InstancePoolObject
    <3> QED
      BY <2>2, <3>1, <3>2
  <2> HIDE DEF o, stage
  <2>4. /\ UNCHANGED stale /\ pass'[p].ip = o
        /\ pass'[p].shared = pass[p].shared /\ pass'[p].at = stage
        /\ cache'[p] = IF pass[p].shared THEN o ELSE cache[p]
    BY <1>3 DEF Assign, TypeOK, Pass
  <2> QED
    BY <1>1, <1>3, <2>1, <2>3, <2>4, RemovalKeeps
<1> HIDE DEF o, stage
<1>4. CASE \E n \in Names : /\ inst[n] # Absent /\ DeleteInstance(n)
                            /\ \E items : Assign(p, o, stage, items)
                            /\ UNCHANGED pool
  BY <1>3, <1>4
<1> QED
  BY <1>2, <1>4 DEF RemoveInstance, o, stage

(* The write at the end of a pass goes through, or is refused.             *)
LEMMA StoredPool ==
  ASSUME TypeOK, NEW p \in Pools, Store(p)
  PROVE  /\ Written(p) \in InstancePoolObject
         /\ Written(p).status = pass[p].ip.status /\ Written(p).needed = pass[p].ip.needed
         /\ Written(p).count = pool[p].count /\ Written(p).uid = pool[p].uid
         /\ Written(p).life = pool[p].life
         /\ pool'[p] = Written(p) /\ stale'[p] = (Written(p) # pool[p])
<1>1. pass[p].ip \in InstancePoolObject /\ pool[p] \in InstancePoolObject
  BY Pieces, FieldTypes
<1>2. pool'[p] = Written(p) /\ stale'[p] = (Written(p) # pool[p])
  BY DEF Store, TypeOK, Written
<1>3. /\ Written(p).status = pass[p].ip.status /\ Written(p).needed = pass[p].ip.needed
      /\ Written(p).count = pool[p].count /\ Written(p).uid = pool[p].uid
      /\ Written(p).life = pool[p].life
  BY <1>1 DEF Written, InstancePoolObject
<1>4. pool' \in [Pools -> InstancePoolObject]
  BY StoreType
<1> QED
  BY <1>2, <1>3, <1>4

LEMMA UpdateKeeps ==
  ASSUME TypeOK, TypeOK', NEW p \in Pools, Matched(p), UpdateStatus(p)
  PROVE  Keeps(p)
<1>1. /\ pass[p].at \in {"write", "publish"} /\ pass'[p] = Idle
      /\ UNCHANGED <<inst, cache, notify>>
      /\ Current(p) => queue' = queue
  BY DEF UpdateStatus, Return, At, TypeOK
<1>2. Members(p)' = Members(p)
  BY <1>1 DEF Members
<1>3. Coherent(pool[p], cache[p], stale[p], pass[p])
  BY DEF Matched
<1>4. CASE Current(p)
  <2> DEFINE T == Written(p)
  <2>1. /\ T \in InstancePoolObject
        /\ T.status = pass[p].ip.status /\ T.needed = pass[p].ip.needed
        /\ T.count = pool[p].count /\ T.uid = pool[p].uid /\ T.life = pool[p].life
        /\ pool'[p] = T /\ stale'[p] = (T # pool[p])
    BY <1>4, StoredPool DEF UpdateStatus
  <2> HIDE DEF T
  <2>2. pass[p].shared /\ stale[p] = FALSE /\ stale'[p] \in BOOLEAN
    BY <1>4, <2>1, Pieces DEF Current
  <2>3. /\ Coherent(T, cache[p], stale'[p], Idle)
        /\ Debt(T, cache[p], stale'[p], Idle)
             <= Debt(pool[p], cache[p], stale[p], pass[p])
    <3>1. /\ pool[p] \in InstancePoolObject /\ cache[p] \in InstancePoolObject
          /\ pass[p] \in Pass /\ stale'[p] \in BOOLEAN
      BY <2>2, Pieces
    <3>2. Coherent(pool[p], cache[p], FALSE, pass[p])
      BY <1>3, <2>2
    <3>3. /\ T.status = pass[p].ip.status /\ T.needed = pass[p].ip.needed
          /\ T.count = pool[p].count /\ T.uid = pool[p].uid /\ T.life = pool[p].life
          /\ T \in InstancePoolObject
      BY <2>1
    <3>4. \A s \in BOOLEAN :
            /\ Coherent(T, cache[p], s, Idle)
            /\ Debt(T, cache[p], s, Idle) <= Debt(pool[p], cache[p], FALSE, pass[p])
      BY <1>1, <2>2, <3>1, <3>2, <3>3, StoreDebt
    <3> QED
      BY <2>2, <3>1, <3>4
  <2>4. Untroubled(p) => Untroubled(p)'
    <3>1. Calm(pool[p], cache[p], FALSE, pass[p], Members(p), p \in queue, p \in notify)
            => Calm(T, cache[p], stale'[p], Idle, Members(p), p \in queue, p \in notify)
      <4>1. /\ pool[p] \in InstancePoolObject /\ cache[p] \in InstancePoolObject
            /\ pass[p] \in Pass
        BY Pieces
      <4>2. Coherent(pool[p], cache[p], FALSE, pass[p])
        BY <1>3, <2>2
      <4>3. /\ T.status = pass[p].ip.status /\ T.needed = pass[p].ip.needed
            /\ T.count = pool[p].count /\ T \in InstancePoolObject
            /\ T # pool[p] => stale'[p]
        BY <2>1
      <4> QED
        BY <1>1, <2>2, <4>1, <4>2, <4>3, CalmStore
    <3> QED
      BY <1>1, <1>2, <1>4, <2>1, <2>2, <3>1 DEF Untroubled
  <2> QED
    <3>1. /\ cache[p] \in InstancePoolObject /\ stale'[p] \in BOOLEAN /\ Idle \in Pass
          /\ T \in InstancePoolObject /\ T.count = pool[p].count
      BY <2>1, <2>2, Pieces, IdlePass
    <3>2. /\ pool'[p] = T /\ cache'[p] = cache[p] /\ pass'[p] = Idle
          /\ Members(p)' \subseteq Members(p)
      BY <1>1, <1>2, <2>1
    <3> QED
      BY <2>3, <2>4, <3>1, <3>2, ShrinkKeeps
<1>5. CASE ~Current(p)
  <2>1. UNCHANGED <<pool, stale>>
    BY <1>5 DEF UpdateStatus
  <2>2. /\ Coherent(pool[p], cache[p], stale[p], Idle)
        /\ Debt(pool[p], cache[p], stale[p], Idle)
             <= Debt(pool[p], cache[p], stale[p], pass[p])
    BY <1>1, <1>3, <1>5, Pieces, DropDebt DEF Current
  <2>3. Calm(pool[p], cache[p], stale[p], pass[p], Members(p), p \in queue, p \in notify)
          => Calm(pool[p], cache[p], stale[p], Idle, Members(p), p \in queue', p \in notify)
    <3>1. CASE pass[p].at = "write"
      BY <1>3, <1>5, <3>1, Pieces, CalmReturn DEF Current
    <3>2. CASE pass[p].at = "publish"
      BY <1>3, <1>5, <3>2, Pieces, CalmPublishes DEF Current
    <3> QED
      BY <1>1, <3>1, <3>2
  <2> QED
    BY <1>1, <2>1, <2>2, <2>3, Pieces, IdlePass, SteadyKeeps
<1> QED
  BY <1>4, <1>5

(* The watch delivers the pool, or wakes the controller for it.            *)
LEMMA DeliverKeeps ==
  ASSUME TypeOK, TypeOK', NEW p \in Pools, Matched(p), Deliver(p)
  PROVE  Keeps(p)
<1>1. /\ UNCHANGED <<inst, pool, notify>> /\ cache'[p] = pool[p]
      /\ stale[p] = TRUE /\ stale'[p] = FALSE
  BY DEF Deliver, TypeOK, store
<1>2. /\ pass'[p].at = pass[p].at /\ pass'[p].ip = pass[p].ip
      /\ pass'[p].left = pass[p].left /\ ~pass'[p].shared
  BY DEF Deliver, TypeOK, Pass
<1>3. /\ pool[p] \in InstancePoolObject /\ cache[p] \in InstancePoolObject
      /\ pass[p] \in Pass /\ pass'[p] \in Pass
  BY DEF TypeOK
<1>4. Coherent(pool[p], cache[p], TRUE, pass[p])
  BY <1>1 DEF Matched
<1>5. /\ Coherent(pool[p], pool[p], FALSE, pass'[p])
      /\ Debt(pool[p], pool[p], FALSE, pass'[p])
           <= Debt(pool[p], cache[p], TRUE, pass[p])
  BY <1>2, <1>3, <1>4, DeliverDebt
<1>6. Calm(pool[p], cache[p], TRUE, pass[p], Members(p), p \in queue, p \in notify)
        => Calm(pool[p], pool[p], FALSE, pass'[p], Members(p), p \in queue', p \in notify)
  BY <1>2, <1>3, <1>4, CalmDeliver
<1> QED
  BY <1>1, <1>3, <1>5, <1>6, SteadyKeeps

LEMMA NotifyKeeps ==
  ASSUME TypeOK, TypeOK', NEW p \in Pools, Matched(p), ReconcileNodePool(p)
  PROVE  Keeps(p)
<1>1. /\ UNCHANGED <<inst, pool, cache, stale, pass>>
      /\ p \in notify /\ p \notin notify'
  BY DEF ReconcileNodePool, store
<1>2. Debt(pool[p], cache[p], stale[p], pass[p]) \in Nat
  BY Pieces, DebtType DEF Matched
<1>3. Debt(pool[p], cache[p], stale[p], pass[p])
        <= Debt(pool[p], cache[p], stale[p], pass[p])
  BY <1>2
<1>4. pool[p].status \in {Unset, "tokenReady", "cleanupNodes"} \cup Reconciling
  BY Pieces, StatusCases
<1>5. Calm(pool[p], cache[p], stale[p], pass[p], Members(p), p \in queue, p \in notify)
        => Calm(pool[p], cache[p], stale[p], pass[p], Members(p), p \in queue', p \in notify')
  BY <1>1, <1>4, CalmNotify
<1>6. Coherent(pool[p], cache[p], stale[p], pass[p])
  BY DEF Matched
<1> QED
  BY <1>1, <1>3, <1>5, <1>6, Pieces, SteadyKeeps

(* The process dies and starts again: x more Instances at the most.        *)
LEMMA RestartAdds ==
  ASSUME TypeOK, TypeOK', NEW p \in Pools, Matched(p), Restart
  PROVE  /\ Adds(p)
         /\ ~Creating(p) => Keeps(p)
<1>1. /\ UNCHANGED <<inst, pool>> /\ cache'[p] = pool[p] /\ stale'[p] = FALSE
      /\ pass'[p] = Idle /\ p \notin notify'
  BY DEF Restart, store
<1>2. /\ pool[p] \in InstancePoolObject /\ cache[p] \in InstancePoolObject
      /\ pass[p] \in Pass /\ stale[p] \in BOOLEAN /\ Idle \in Pass
  BY Pieces, IdlePass
<1>3. Coherent(pool[p], cache[p], stale[p], pass[p])
  BY DEF Matched
<1>4. Members(p)' = Members(p)
  BY <1>1 DEF Members
<1> DEFINE x == IF Making(pass[p]) THEN pool[p].count ELSE 0
<1>5. x \in Nat
  BY <1>2, FieldTypes
<1>6. /\ Coherent(pool[p], pool[p], FALSE, Idle)
      /\ Debt(pool[p], pool[p], FALSE, Idle)
           <= Debt(pool[p], cache[p], stale[p], pass[p]) + x
  BY <1>2, <1>3, RestartDebt
<1> HIDE DEF x
<1>7. /\ Matched(p)' /\ pool'[p].count = pool[p].count
      /\ Total(p)' <= Total(p) + x
  BY <1>1, <1>2, <1>4, <1>5, <1>6, ShrinkTotal
<1>8. ASSUME ~Creating(p) PROVE Keeps(p)
  <2>1. pass[p].at \notin {"create", "publish"} /\ x = 0
    BY <1>8 DEF Creating, At, Making, x
  <2>2. Calm(pool[p], cache[p], stale[p], pass[p], Members(p), p \in queue, p \in notify)
          => Calm(pool[p], pool[p], FALSE, Idle, Members(p), p \in queue', p \in notify')
    <3>1. p \notin notify'
      BY <1>1
    <3> QED
      BY <1>2, <1>3, <2>1, <3>1, CalmRestart
  <2>3. Untroubled(p) => Untroubled(p)'
    BY <1>1, <1>4, <2>2 DEF Untroubled
  <2>4. Total(p) + x = Total(p)
    BY <2>1, TotalType
  <2> QED
    BY <1>7, <2>3, <2>4 DEF Keeps
<1> QED
  BY <1>7, <1>8 DEF Adds, x

LEMMA SparesSuffices ==
  ASSUME TypeOK, NEW p \in Pools, Matched(p), Spares(p), Total(p)' \in Int
  PROVE  Keeps(p) /\ Adds(p)
<1>1. Keeps(p)
  BY DEF Spares, Keeps
<1> DEFINE t == Total(p)
           u == Total(p)'
           c == pool[p].count
<1>2. t \in Nat /\ u \in Int /\ c \in Nat /\ u <= t
  BY TotalType DEF Spares
<1> HIDE DEF t, u, c
<1>3. u <= t + (IF Making(pass[p]) THEN c ELSE 0)
  BY <1>2
<1> QED
  BY <1>1, <1>3 DEF Spares, Adds, t, u, c

(* A step of others: it may remove an Instance, where one pool removes any.*)
LEMMA OthersSpare ==
  ASSUME TypeOK, NEW p \in Pools, Matched(p), Members(p)' \subseteq Members(p),
         pool'[p] = pool[p], cache'[p] = cache[p], stale'[p] = stale[p],
         pass'[p] = pass[p],
         Gentle /\ Untroubled(p) =>
           /\ Members(p) \subseteq Members(p)'
           /\ \A n \in Members(p) :
                inst'[n].uid = inst[n].uid /\ inst'[n].deleting = inst[n].deleting
           /\ p \in queue' => p \in queue
           /\ p \in notify' => p \in notify \/ Members(p) # {}
  PROVE  Spares(p) /\ Total(p)' \in Int
<1>1. Coherent(pool[p], cache[p], stale[p], pass[p])
  BY DEF Matched
<1> DEFINE d == Debt(pool[p], cache[p], stale[p], pass[p])
           m == Cardinality(Members(p))
           k == Cardinality(Members(p)')
<1>2. m \in Nat /\ d \in Nat
  BY <1>1, Pieces, DebtType
<1>3. k \in Nat /\ k <= m
  BY Pieces, FS_Subset, FS_CardinalityType
<1>4. Total(p)' = k + d /\ Total(p) = m + d
  BY DEF Total
<1> HIDE DEF d, m, k
<1>5. k + d <= m + d /\ k + d \in Int
  BY <1>2, <1>3
<1>6. ASSUME Gentle, Untroubled(p) PROVE Untroubled(p)'
  <2>1. Members(p)' = Members(p)
    BY <1>6
  <2>2. Calm(pool[p], cache[p], stale[p], pass[p], Members(p), p \in queue', p \in notify')
    <3>1. Calm(pool[p], cache[p], stale[p], pass[p], Members(p), p \in queue, p \in notify)
      BY <1>6 DEF Untroubled
    <3>2. /\ p \in queue' => p \in queue
          /\ p \in notify' => p \in notify \/ Members(p) # {}
      BY <1>6
    <3> QED
      BY <3>1, <3>2 DEF Calm, Asking, Filling, Filled
  <2> QED
    BY <1>6, <2>1, <2>2 DEF Untroubled
<1>7. Matched(p)'
  BY <1>1 DEF Matched
<1> QED
  BY <1>4, <1>5, <1>6, <1>7 DEF Spares

-----------------------------------------------------------------------------
(***************************************************************************)
(* Whose step it is.  A pool's step is a panic, a call of its handler or of*)
(* the informer, a disturbance, or what only happens to other pools.       *)
(***************************************************************************)
Panics(q) ==
  \/ PrepareInstancePool(q) /\ config = "notString"
  \/ Lookup(q) /\ prereq = "noIngress"
  \/ RemoveInstance(q) /\ pass[q].items = {}
Works(q) ==
  \/ Start(q) \/ AcquireLock(q) \/ UpdateStatus(q) \/ CreateInstance(q)
  \/ FinishSubmit(q) \/ ReconcileInstances(q) \/ ListInstances(q)
  \/ Deliver(q) \/ ReconcileNodePool(q)
  \/ PrepareInstancePool(q) /\ config # "notString"
  \/ Lookup(q) /\ prereq # "noIngress"
  \/ RemoveInstance(q) /\ pass[q].items # {}
Suffers(q) == Fault(q) \/ SubmitFault(q)
Meddles(q) ==
  RejectNetworkType(q) \/ RemovePool(q) \/ \E c \in Counts : CreatePool(q, c)

LEMMA PoolStepIs ==
  ASSUME Steady, NEW q \in Pools, PoolStep(q)
  PROVE  Panics(q) \/ Works(q) \/ Suffers(q) \/ Meddles(q)
<1>1. ~DeletePool(q) /\ \A c : ~EditCount(q, c)
  BY DEF Steady, DeletePool, EditCount, Disturb
<1>2. CASE Handle(q)
  BY <1>2 DEF Handle, Panics, Works, Meddles
<1> QED
  BY <1>1, <1>2 DEF PoolStep, Works, Suffers, Meddles

(* What a pool's step does to the others.                                  *)
Elsewhere(q) ==
  /\ OthersKeepVersion(q)
  /\ queue' \subseteq queue \cup {q}
  /\ \/ UNCHANGED inst /\ notify' \subseteq notify
     \/ AddInstance(q) /\ UNCHANGED notify /\ q \notin InvalidPools
     \/ At(q, {"delete"}) /\ \E n \in Names : inst[n] # Absent /\ DeleteInstance(n)

LEMMA ElsewhereReturn ==
  ASSUME TypeOK, NEW q \in Pools, ReturnNow(q, TRUE) \/ ReturnNow(q, FALSE)
  PROVE  Elsewhere(q)
BY DEF ReturnNow, Return, Elsewhere, OthersKeepVersion, TypeOK, store, watch

LEMMA ElsewhereAssign ==
  ASSUME TypeOK, NEW q \in Pools, NEW o, NEW stage, NEW items,
         Assign(q, o, stage, items), UNCHANGED pool,
         \/ UNCHANGED <<inst, notify>>
         \/ At(q, {"delete"}) /\ \E n \in Names : inst[n] # Absent /\ DeleteInstance(n)
  PROVE  Elsewhere(q)
<1>1. OthersKeepVersion(q) /\ UNCHANGED queue
  BY DEF Assign, OthersKeepVersion, TypeOK
<1> QED
  BY <1>1 DEF Elsewhere

LEMMA ElsewhereStep ==
  ASSUME TypeOK, NEW q \in Pools, Works(q) \/ Suffers(q) \/ Meddles(q)
  PROVE  Elsewhere(q)
<1>1. CASE Start(q) \/ AcquireLock(q) \/ Deliver(q) \/ ReconcileNodePool(q)
  <2>1. OthersKeepVersion(q)
    BY <1>1 DEF Start, AcquireLock, Deliver, ReconcileNodePool, OthersKeepVersion,
                TypeOK, store, watch
  <2>2. queue' \subseteq queue \cup {q} /\ UNCHANGED inst /\ notify' \subseteq notify
    BY <1>1 DEF Start, AcquireLock, Deliver, ReconcileNodePool, TypeOK, store, watch
  <2> QED
    BY <2>1, <2>2 DEF Elsewhere
<1>2. CASE UpdateStatus(q) \/ Fault(q)
  <2>1. OthersKeepVersion(q)
    BY <1>2 DEF UpdateStatus, Fault, Return, Store, OthersKeepVersion, TypeOK, store
  <2>2. queue' \subseteq queue \cup {q}
    BY <1>2 DEF UpdateStatus, Fault, Return
  <2>3. \/ UNCHANGED <<inst, notify>>
        \/ At(q, {"delete"}) /\ \E n \in Names : inst[n] # Absent /\ DeleteInstance(n)
    BY <1>2 DEF UpdateStatus, Fault, store
  <2> QED
    BY <2>1, <2>2, <2>3 DEF Elsewhere
<1>3. CASE CreateInstance(q)
  BY <1>3 DEF CreateInstance, OthersKeepVersion, Elsewhere, TypeOK, watch
<1>4. CASE SubmitFault(q)
  <2>1. OthersKeepVersion(q) /\ queue' \subseteq queue \cup {q} /\ UNCHANGED notify
    BY <1>4 DEF SubmitFault, Return, OthersKeepVersion, TypeOK, watch
  <2>2. UNCHANGED inst \/ (AddInstance(q) /\ q \notin InvalidPools)
    BY <1>4 DEF SubmitFault
  <2> QED
    BY <2>1, <2>2 DEF Elsewhere
<1>5. CASE FinishSubmit(q)
  BY <1>5, ElsewhereAssign DEF FinishSubmit, store
<1>6. CASE ReconcileInstances(q)
  BY <1>6, ElsewhereAssign DEF ReconcileInstances, store
<1>7. CASE ListInstances(q)
  <2>1. CASE Surplus(q)
    BY <1>7, <2>1 DEF ListInstances, OthersKeepVersion, Elsewhere, TypeOK, store
  <2>2. CASE ~Surplus(q)
    BY <1>7, <2>2, ElsewhereAssign DEF ListInstances, store
  <2> QED
    BY <2>1, <2>2
<1>8. CASE PrepareInstancePool(q) /\ config # "notString"
  <2>1. CASE config = "ok"
    BY <1>8, <2>1, ElsewhereAssign DEF PrepareInstancePool, store
  <2>2. CASE config # "ok"
    BY <1>8, <2>2, ElsewhereReturn DEF PrepareInstancePool
  <2> QED
    BY <2>1, <2>2
<1>9. CASE Lookup(q) /\ prereq # "noIngress"
  <2>1. CASE prereq = "ok"
    BY <1>9, <2>1 DEF Lookup, OthersKeepVersion, Elsewhere, TypeOK, store, watch
  <2>2. CASE prereq # "ok"
    BY <1>9, <2>2, ElsewhereReturn DEF Lookup
  <2> QED
    BY <2>1, <2>2
<1>10. CASE RemoveInstance(q) /\ pass[q].items # {}
  <2>1. CASE ReturnNow(q, TRUE)
    BY <2>1, ElsewhereReturn
  <2>2. CASE ~ReturnNow(q, TRUE)
    <3>1. /\ At(q, {"delete"}) /\ UNCHANGED pool
          /\ \E n \in Names : inst[n] # Absent /\ DeleteInstance(n)
          /\ \E o, stage, items : Assign(q, o, stage, items)
      BY <1>10, <2>2 DEF RemoveInstance
    <3> QED
      BY <3>1, ElsewhereAssign
  <2> QED
    BY <2>1, <2>2
<1>11. CASE RejectNetworkType(q)
  BY <1>11, ElsewhereReturn DEF RejectNetworkType
<1>12. CASE RemovePool(q) \/ \E c \in Counts : CreatePool(q, c)
  <2>1. \E o : ChangePool(q, o)
    BY <1>12 DEF RemovePool, CreatePool
  <2> QED
    BY <2>1 DEF ChangePool, OthersKeepVersion, Elsewhere, TypeOK
<1> QED
  BY <1>1, <1>2, <1>3, <1>4, <1>5, <1>6, <1>7, <1>8, <1>9, <1>10, <1>11, <1>12
     DEF Works, Suffers, Meddles

LEMMA ElsewhereSpares ==
  ASSUME TypeOK, NEW q \in Pools, Elsewhere(q), NEW p \in Pools \ {q}, Matched(p)
  PROVE  Spares(p) /\ Total(p)' \in Int
<1>1. /\ pool'[p] = pool[p] /\ cache'[p] = cache[p] /\ stale'[p] = stale[p]
      /\ pass'[p] = pass[p] /\ (p \in queue' => p \in queue)
  BY DEF Elsewhere, OthersKeepVersion
<1>2. CASE UNCHANGED inst /\ notify' \subseteq notify
  <2>1. Members(p)' = Members(p)
    BY <1>2 DEF Members
  <2> QED
    BY <1>1, <1>2, <2>1, OthersSpare
<1>3. CASE AddInstance(q) /\ UNCHANGED notify
  <2>1. /\ Members(p)' = Members(p)
        /\ \A m \in Members(p) : inst'[m] = inst[m]
    <3>1. PICK n \in Names :
            /\ \A m \in Names \ {n} : inst'[m] = inst[m]
            /\ \A r \in Pools \ {q} : Members(r)' = Members(r) /\ n \notin Members(r)
      BY <1>3, AddedMembers
    <3>2. Members(p)' = Members(p) /\ n \notin Members(p) /\ Members(p) \subseteq Names
      BY <3>1, Pieces
    <3> QED
      BY <3>1, <3>2
  <2> QED
    BY <1>1, <1>3, <2>1, OthersSpare
<1>4. CASE At(q, {"delete"}) /\ \E n \in Names : inst[n] # Absent /\ DeleteInstance(n)
  <2>1. Members(p)' \subseteq Members(p)
    BY <1>4, DeletedMembers
  <2>2. ~Gentle
    BY <1>4 DEF Gentle
  <2> QED
    BY <1>1, <2>1, <2>2, OthersSpare
<1> QED
  BY <1>2, <1>3, <1>4 DEF Elsewhere

LEMMA OwnKeeps ==
  ASSUME TypeOK, TypeOK', NEW p \in Pools, Matched(p), Works(p)
  PROVE  Keeps(p)
BY StartKeeps, LockKeeps, UpdateKeeps, CreateKeeps, FinishKeeps, ReconcileKeeps,
   ListKeeps, DeliverKeeps, NotifyKeeps, PrepareKeeps, LookupKeeps, RemoveKeeps
   DEF Works

(* A call that fails in transit: the pass is lost.                         *)
LEMMA DropAdds ==
  ASSUME TypeOK, NEW p \in Pools, Matched(p), Members(p)' \subseteq Members(p),
         pool'[p] = pool[p], cache'[p] = cache[p], stale'[p] = stale[p],
         pass'[p] \in {Idle, pass[p]}
  PROVE  Adds(p)
<1> DEFINE x == IF Making(pass[p]) THEN pool[p].count ELSE 0
<1>1. Coherent(pool[p], cache[p], stale[p], pass[p])
  BY DEF Matched
<1>2. x \in Nat
  BY Pieces, FieldTypes
<1>3. CASE pass'[p] = Idle
  <2>1. /\ Coherent(pool[p], cache[p], stale[p], Idle)
        /\ Debt(pool[p], cache[p], stale[p], Idle)
             <= Debt(pool[p], cache[p], stale[p], pass[p]) + x
    BY <1>1, Pieces, DropDebt
  <2> HIDE DEF x
  <2>2. /\ Matched(p)' /\ pool'[p].count = pool[p].count
        /\ Total(p)' <= Total(p) + x
    BY <1>2, <1>3, <2>1, Pieces, IdlePass, ShrinkTotal
  <2> QED
    BY <2>2 DEF Adds, x
<1>4. CASE pass'[p] = pass[p]
  <2> DEFINE d == Debt(pool[p], cache[p], stale[p], pass[p])
  <2>1. d \in Nat
    BY <1>1, Pieces, DebtType
  <2> HIDE DEF x, d
  <2>2. d <= d + x
    BY <1>2, <2>1
  <2>3. /\ Matched(p)' /\ pool'[p].count = pool[p].count
        /\ Total(p)' <= Total(p) + x
    BY <1>1, <1>2, <1>4, <2>2, Pieces, ShrinkTotal DEF d
  <2> QED
    BY <2>3 DEF Adds, x
<1> QED
  BY <1>3, <1>4

LEMMA FaultAdds ==
  ASSUME TypeOK, TypeOK', NEW p \in Pools, Matched(p), Fault(p)
  PROVE  Adds(p)
<1>1. cache' = cache /\ pass'[p] = Idle
  BY DEF Fault, Return, TypeOK
<1>2. CASE UNCHANGED <<store, stale, notify>>
  <2>1. Members(p)' = Members(p) /\ UNCHANGED <<pool, stale>>
    BY <1>2 DEF Members, store
  <2> QED
    BY <1>1, <2>1, DropAdds
<1>3. CASE At(p, {"delete"}) /\ UNCHANGED <<pool, stale>>
           /\ \E n \in Names : inst[n] # Absent /\ DeleteInstance(n)
  <2>1. Members(p)' \subseteq Members(p)
    BY <1>3, DeletedMembers
  <2> QED
    BY <1>1, <1>3, <2>1, DropAdds
<1>4. CASE At(p, {"write", "publish"}) /\ Current(p) /\ Store(p) /\ UNCHANGED <<inst, notify>>
  <2> DEFINE T == Written(p)
             x == IF Making(pass[p]) THEN pool[p].count ELSE 0
             d == Debt(pool[p], cache[p], stale[p], pass[p])
             e == Debt(T, cache[p], stale'[p], Idle)
  <2>1. /\ T \in InstancePoolObject
        /\ T.status = pass[p].ip.status /\ T.needed = pass[p].ip.needed
        /\ T.count = pool[p].count /\ T.uid = pool[p].uid /\ T.life = pool[p].life
        /\ pool'[p] = T
    BY <1>4, StoredPool
  <2> HIDE DEF T
  <2>2. /\ pass[p].shared /\ stale[p] = FALSE /\ stale'[p] \in BOOLEAN
        /\ pass[p].at \in {"write", "publish"}
    BY <1>4, Pieces DEF Current, TypeOK, At
  <2>3. Coherent(pool[p], cache[p], stale[p], pass[p])
    BY DEF Matched
  <2>4. Coherent(T, cache[p], stale'[p], Idle) /\ e <= d
    <3>1. /\ pool[p] \in InstancePoolObject /\ cache[p] \in InstancePoolObject
          /\ pass[p] \in Pass
      BY Pieces
    <3>2. Coherent(pool[p], cache[p], FALSE, pass[p])
      BY <2>2, <2>3
    <3>3. \A s \in BOOLEAN :
            /\ Coherent(T, cache[p], s, Idle)
            /\ Debt(T, cache[p], s, Idle) <= Debt(pool[p], cache[p], FALSE, pass[p])
      BY <2>1, <2>2, <3>1, <3>2, StoreDebt
    <3> QED
      BY <2>2, <3>3
  <2>5. x \in Nat /\ d \in Nat /\ e \in Nat
    BY <2>1, <2>2, <2>3, <2>4, Pieces, FieldTypes, IdlePass, DebtType
  <2>6. e <= d + x
    <3> HIDE DEF d, e, x
    <3> QED
      BY <2>4, <2>5
  <2>7. Members(p)' \subseteq Members(p)
    BY <1>4 DEF Members
  <2> HIDE DEF x
  <2>8. /\ Matched(p)' /\ pool'[p].count = pool[p].count
        /\ Total(p)' <= Total(p) + x
    <3>1. /\ cache[p] \in InstancePoolObject /\ stale'[p] \in BOOLEAN /\ Idle \in Pass
          /\ T \in InstancePoolObject /\ T.count = pool[p].count
      BY <2>1, <2>2, Pieces, IdlePass
    <3>2. pool'[p] = T /\ cache'[p] = cache[p] /\ pass'[p] = Idle
      BY <1>1, <2>1
    <3> QED
      BY <2>4, <2>5, <2>6, <2>7, <3>1, <3>2, ShrinkTotal
  <2> QED
    BY <2>8 DEF Adds, x
<1> QED
  BY <1>2, <1>3, <1>4 DEF Fault

LEMMA SubmitFaultAdds ==
  ASSUME TypeOK, TypeOK', NEW p \in Pools, Matched(p), SubmitFault(p)
  PROVE  Adds(p)
<1>1. UNCHANGED <<pool, cache, stale>> /\ pass'[p] = Idle
  BY DEF SubmitFault, Return, TypeOK, watch
<1>2. CASE UNCHANGED inst
  <2>1. Members(p)' = Members(p)
    BY <1>2 DEF Members
  <2> QED
    BY <1>1, <2>1, DropAdds
<1>3. CASE At(p, {"create"}) /\ pass[p].left > 0 /\ AddInstance(p)
  <2> DEFINE x == IF Making(pass[p]) THEN pool[p].count ELSE 0
             m == Cardinality(Members(p))
             d == Debt(pool[p], cache[p], stale[p], pass[p])
             e == Debt(pool[p], cache[p], stale[p], Idle)
  <2>1. Coherent(pool[p], cache[p], stale[p], pass[p])
    BY DEF Matched
  <2>2. Coherent(pool[p], cache[p], stale[p], Idle) /\ e + 1 <= d + x
    BY <1>3, <2>1, Pieces, DropDebt DEF At
  <2>3. m \in Nat /\ d \in Nat /\ e \in Nat /\ x \in Nat
    BY <2>1, <2>2, Pieces, IdlePass, DebtType, FieldTypes
  <2>4. Cardinality(Members(p)') = m + 1
    BY <1>3, AddedMembers
  <2>5. Total(p)' = (m + 1) + e /\ Total(p) = m + d
    BY <1>1, <2>4 DEF Total
  <2>6. Matched(p)' /\ pool'[p].count = pool[p].count
    BY <1>1, <2>2 DEF Matched
  <2> HIDE DEF x, m, d, e
  <2>7. (m + 1) + e <= (m + d) + x
    BY <2>2, <2>3
  <2> QED
    BY <2>5, <2>6, <2>7 DEF Adds, x
<1> QED
  BY <1>2, <1>3 DEF SubmitFault

(* What happens to an Instance.                                            *)
LEMMA InstanceSpares ==
  ASSUME TypeOK, NEW n \in Names,
         Provision(n) \/ Manage(n) \/ Finalize(n) \/ Heartbeat(n) \/ Collect(n),
         NEW p \in Pools, Matched(p)
  PROVE  Spares(p) /\ Total(p)' \in Int
<1>1. UNCHANGED <<pool, cache, stale, queue, pass>>
  BY DEF Provision, Manage, Finalize, Heartbeat, Collect, Rest
<1>2. Absent.owner # p
  BY ConstantsAssumption DEF Absent, ConstantsAssumption
<1>3. CASE Provision(n) \/ Manage(n) \/ Heartbeat(n)
  <2>1. inst[n] \in InstanceObject
    BY <1>3 DEF Provision, Manage, Heartbeat, TypeOK, Absent
  <2>2. /\ \A m \in Names : /\ inst'[m].owner = inst[m].owner
                            /\ inst'[m].uid = inst[m].uid
                            /\ inst'[m].deleting = inst[m].deleting
        /\ notify' \subseteq notify \cup {inst[n].owner}
    BY <1>3, <2>1 DEF Provision, Manage, Heartbeat, TypeOK, InstanceObject
  <2>3. Members(p)' = Members(p)
    BY <2>2 DEF Members
  <2>4. p \in notify' => p \in notify \/ Members(p) # {}
    BY <2>2 DEF Members
  <2>5. Members(p) \subseteq Names
    BY Pieces
  <2> QED
    BY <1>1, <2>2, <2>3, <2>4, <2>5, OthersSpare
<1>4. CASE Finalize(n) \/ Collect(n)
  <2>1. /\ \A m \in Names \ {n} : inst'[m] = inst[m]
        /\ inst'[n].owner \in {inst[n].owner, Absent.owner}
        /\ notify' \subseteq notify \cup {inst[n].owner}
    <3>1. CASE Finalize(n)
      BY <3>1 DEF Finalize, TypeOK
    <3>2. CASE Collect(n)
      <4>1. inst[n] \in InstanceObject
        BY <3>2 DEF Collect, TypeOK
      <4> QED
        BY <3>2, <4>1 DEF Collect, DeleteInstance, TypeOK, InstanceObject
    <3> QED
      BY <1>4, <3>1, <3>2
  <2>2. Members(p)' \subseteq Members(p)
    BY <1>2, <2>1 DEF Members
  <2>3. ASSUME Untroubled(p) PROVE inst[n].owner # p
    <3>1. SUFFICES ASSUME inst[n].owner = p PROVE FALSE
      OBVIOUS
    <3>2. inst[n].uid = 1 /\ ~inst[n].deleting
      BY <2>3, <3>1 DEF Untroubled, Members
    <3>3. pool[p].uid = 1 /\ pool[p].life = "live"
      BY DEF Matched, Coherent
    <3>4. Owned(n)
      BY <3>1, <3>2, <3>3 DEF Owned
    <3> QED
      BY <1>4, <3>2, <3>4 DEF Finalize, Collect
  <2>4. ASSUME Untroubled(p)
        PROVE  /\ Members(p) \subseteq Members(p)'
               /\ \A m \in Members(p) : inst'[m] = inst[m]
               /\ p \in notify' => p \in notify
    BY <2>1, <2>3, <2>4 DEF Members
  <2> QED
    BY <1>1, <2>2, <2>4, OthersSpare
<1> QED
  BY <1>3, <1>4

LEMMA InstanceShrinks ==
  ASSUME TypeOK, NEW n \in Names, InstanceStep(n), NEW p \in Pools
  PROVE  Members(p)' \subseteq Members(p) /\ UNCHANGED <<pool, cache, stale, queue, pass>>
<1>1. UNCHANGED <<pool, cache, stale, queue, pass>>
  BY DEF InstanceStep, Provision, Manage, Finalize, Heartbeat, Collect, Evict, Rest
<1>2. Absent.owner # p
  BY ConstantsAssumption DEF Absent, ConstantsAssumption
<1>3. CASE Provision(n) \/ Manage(n) \/ Heartbeat(n)
  <2>1. inst[n] \in InstanceObject
    BY <1>3 DEF Provision, Manage, Heartbeat, TypeOK, Absent
  <2>2. \A m \in Names : inst'[m].owner = inst[m].owner
    BY <1>3, <2>1 DEF Provision, Manage, Heartbeat, TypeOK, InstanceObject
  <2> QED
    BY <1>1, <2>2 DEF Members
<1>4. CASE Finalize(n)
  BY <1>1, <1>2, <1>4 DEF Finalize, TypeOK, Members
<1>5. CASE Collect(n) \/ Evict(n)
  BY <1>1, <1>5, DeletedMembers DEF Collect, Evict
<1> QED
  BY <1>3, <1>4, <1>5 DEF InstanceStep

-----------------------------------------------------------------------------
(***************************************************************************)
(* What holds of pools that cannot create anything.                        *)
(***************************************************************************)
LEMMA WaitsOn ==
  ASSUME TypeOK, NEW q \in Pools, Works(q) \/ Suffers(q) \/ Meddles(q),
         config # "ok", Waits(q)
  PROVE  Waits(q)'
<1>1. CASE Start(q)
  <2>1. pass'[q].at \in {"idle", "prepare"} /\ UNCHANGED <<pool, cache>>
    BY <1>1, Handlers DEF Start, TypeOK, Waits, Idle, store, watch
  <2> QED
    BY <2>1 DEF Waits, At
<1>2. CASE PrepareInstancePool(q) /\ config # "notString"
  <2>1. UNCHANGED <<pool, cache>> /\ pass'[q] = Idle
    BY <1>2 DEF PrepareInstancePool, ReturnNow, Return, TypeOK, store, watch
  <2> QED
    BY <2>1, IdlePass DEF Waits, At
<1>3. CASE Deliver(q) \/ ReconcileNodePool(q)
  <2>1. /\ UNCHANGED pool /\ cache'[q].status = Unset /\ pass'[q].at = pass[q].at
    BY <1>3 DEF Deliver, ReconcileNodePool, TypeOK, Pass, Waits, store
  <2> QED
    BY <2>1 DEF Waits, At
<1>4. CASE RemovePool(q) \/ \E c \in Counts : CreatePool(q, c)
  <2>1. UNCHANGED <<cache, pass>> /\ pool'[q].status = Unset
    <3>1. CASE RemovePool(q)
      <4>1. UNCHANGED <<cache, pass>> /\ pool'[q] = [pool[q] EXCEPT !.life = "gone"]
        BY <3>1 DEF RemovePool, ChangePool, TypeOK
      <4>2. [pool[q] EXCEPT !.life = "gone"].status = pool[q].status
        BY Pieces DEF InstancePoolObject
      <4> QED
        BY <4>1, <4>2 DEF Waits
    <3>2. CASE \E c \in Counts : CreatePool(q, c)
      <4>1. PICK c \in Counts : UNCHANGED <<cache, pass>>
                                /\ pool'[q] = NewPool(c, pool[q].uid + 1)
        BY <3>2 DEF CreatePool, ChangePool, TypeOK
      <4>2. NewPool(c, pool[q].uid + 1).status = Unset
        BY DEF NewPool, Unset
      <4> QED
        BY <4>1, <4>2
    <3> QED
      BY <1>4, <3>1, <3>2
  <2> QED
    BY <2>1 DEF Waits, At
<1>5. ~( \/ AcquireLock(q) \/ UpdateStatus(q) \/ CreateInstance(q) \/ FinishSubmit(q)
         \/ ReconcileInstances(q) \/ ListInstances(q) \/ Lookup(q)
         \/ RemoveInstance(q) \/ Fault(q) \/ SubmitFault(q) \/ RejectNetworkType(q))
  BY DEF Waits, At, AcquireLock, UpdateStatus, CreateInstance, FinishSubmit,
         ReconcileInstances, ListInstances, Lookup, RemoveInstance, Fault,
         SubmitFault, RejectNetworkType
<1> QED
  BY <1>1, <1>2, <1>3, <1>4, <1>5 DEF Works, Suffers, Meddles

LEMMA CreatesNothing ==
  ASSUME TypeOK, NEW q \in Pools, Works(q) \/ Suffers(q) \/ Meddles(q),
         prereq # "ok", ~Creating(q)
  PROVE  ~Creating(q)'
<1>1. CASE Start(q)
  <2>1. pass'[q].at \notin {"create", "publish"}
    <3>1. cache[q].status \in {Unset, "tokenReady", "submitted", "ready", "cleanupNodes"}
      BY Pieces, FieldTypes DEF Statuses, Unset
    <3>2. Handler(cache[q].status) \notin {"create", "publish"}
      BY <3>1, Handlers
    <3> QED
      BY <1>1, <3>2 DEF Start, TypeOK, Idle
  <2> QED
    BY <2>1 DEF Creating, At
<1>2. CASE AcquireLock(q) \/ Deliver(q)
  BY <1>2 DEF AcquireLock, Deliver, TypeOK, Pass, Creating, At
<1>3. CASE UpdateStatus(q) \/ Fault(q) \/ SubmitFault(q)
  BY <1>3, IdlePass DEF UpdateStatus, Fault, SubmitFault, Return, TypeOK, Creating, At
<1>4. CASE ReconcileInstances(q)
  BY <1>4 DEF ReconcileInstances, Assign, TypeOK, Pass, Creating, At
<1>5. CASE ListInstances(q)
  BY <1>5 DEF ListInstances, Assign, TypeOK, Pass, Creating, At
<1>6. CASE PrepareInstancePool(q) /\ config # "notString"
  <2>1. pass'[q].at \in {"write", "idle"}
    BY <1>6, IdlePass
       DEF PrepareInstancePool, Assign, ReturnNow, Return, TypeOK, Pass
  <2> QED
    BY <2>1 DEF Creating, At
<1>7. CASE RejectNetworkType(q) \/ (Lookup(q) /\ prereq # "noIngress")
  BY <1>7, IdlePass
     DEF RejectNetworkType, Lookup, ReturnNow, Return, TypeOK, Creating, At
<1>8. CASE RemoveInstance(q) /\ pass[q].items # {}
  <2>1. pass'[q].at \in {"write", "delete", "idle"}
    <3>1. CASE ReturnNow(q, TRUE)
      BY <3>1, IdlePass DEF ReturnNow, Return, TypeOK
    <3>2. CASE ~ReturnNow(q, TRUE)
      <4>1. PICK o, stage, items :
             stage \in {"write", "delete"} /\ Assign(q, o, stage, items)
        <5> DEFINE ip == [pass[q].ip EXCEPT !.requested = @ - 1, !.needed = @ + 1]
                   last == ip.needed >= 0
                   v == IF last THEN [ip EXCEPT !.status = "submitted"] ELSE ip
                   stage == IF last THEN "write" ELSE "delete"
        <5>1. stage \in {"write", "delete"}
          OBVIOUS
        <5>2. \E items : Assign(q, v, stage, items)
          BY <1>8, <3>2 DEF RemoveInstance
        <5> HIDE DEF stage, v
        <5> QED
          BY <5>1, <5>2
      <4> QED
        BY <4>1 DEF Assign, TypeOK, Pass
    <3> QED
      BY <3>1, <3>2
  <2> QED
    BY <2>1 DEF Creating, At
<1>9. CASE ReconcileNodePool(q) \/ RemovePool(q) \/ \E c \in Counts : CreatePool(q, c)
  BY <1>9 DEF ReconcileNodePool, RemovePool, CreatePool, ChangePool, Creating, At
<1>10. ~(CreateInstance(q) \/ FinishSubmit(q))
  BY DEF CreateInstance, FinishSubmit, Creating, At
<1> QED
  BY <1>1, <1>2, <1>3, <1>4, <1>5, <1>6, <1>7, <1>8, <1>9, <1>10
     DEF Works, Suffers, Meddles

LEMMA EmptyOn ==
  ASSUME TypeOK, NEW q \in InvalidPools, q \in Pools,
         Works(q) \/ Suffers(q) \/ Meddles(q), Empty(q)
  PROVE  Empty(q)'
<1>1. UNCHANGED inst
  BY ElsewhereStep DEF Elsewhere, Empty
<1>2. Members(q)' = {}
  BY <1>1 DEF Members, Empty
<1>3. ~At(q, {"delete"})'
  <2>1. CASE Start(q)
    <3>1. cache[q].status \in {Unset, "tokenReady", "submitted", "ready", "cleanupNodes"}
      BY Pieces, FieldTypes DEF Statuses, Unset
    <3>2. Handler(cache[q].status) # "delete"
      BY <3>1, Handlers
    <3> QED
      BY <2>1, <3>2 DEF Start, TypeOK, Idle, At
  <2>2. CASE AcquireLock(q) \/ Deliver(q)
    BY <2>2 DEF AcquireLock, Deliver, TypeOK, Pass, Empty, At
  <2>3. CASE UpdateStatus(q) \/ Fault(q) \/ SubmitFault(q)
    BY <2>3, IdlePass DEF UpdateStatus, Fault, SubmitFault, Return, TypeOK, At
  <2>4. CASE ReconcileInstances(q) \/ FinishSubmit(q)
    BY <2>4 DEF ReconcileInstances, FinishSubmit, Assign, TypeOK, Pass, At
  <2>5. CASE ListInstances(q)
    BY <2>5 DEF ListInstances, Surplus, Assign, TypeOK, Pass, Empty, At
  <2>6. CASE PrepareInstancePool(q) /\ config # "notString"
    <3>1. pass'[q].at \in {"write", "idle"}
      BY <2>6, IdlePass
         DEF PrepareInstancePool, Assign, ReturnNow, Return, TypeOK, Pass
    <3> QED
      BY <3>1 DEF At
  <2>7. CASE RejectNetworkType(q)
    BY <2>7, IdlePass DEF RejectNetworkType, ReturnNow, Return, TypeOK, At
  <2>8. CASE Lookup(q) /\ prereq # "noIngress"
    <3>1. pass'[q].at \in {"create", "idle"}
      BY <2>8, IdlePass DEF Lookup, ReturnNow, Return, TypeOK, Pass
    <3> QED
      BY <3>1 DEF At
  <2>9. CASE ReconcileNodePool(q) \/ RemovePool(q) \/ \E c \in Counts : CreatePool(q, c)
    BY <2>9 DEF ReconcileNodePool, RemovePool, CreatePool, ChangePool, Empty, At
  <2>10. ~RemoveInstance(q) /\ ~CreateInstance(q)
    BY DEF RemoveInstance, CreateInstance, Empty
  <2> QED
    BY <2>1, <2>2, <2>3, <2>4, <2>5, <2>6, <2>7, <2>8, <2>9, <2>10
       DEF Works, Suffers, Meddles
<1> QED
  BY <1>2, <1>3 DEF Empty

LEMMA WorldKept ==
  ASSUME TypeOK, NEW q \in Pools
  PROVE  /\ Panics(q) \/ Works(q) => UNCHANGED world
         /\ Suffers(q) => disturbed' = disturbed + 1 /\ UNCHANGED <<config, prereq>>
         /\ Meddles(q) => /\ disturbed' \in {disturbed, disturbed + 1}
                          /\ UNCHANGED <<config, prereq>>
<1>1. ASSUME Panic PROVE UNCHANGED world
  BY <1>1 DEF Panic, Restart, world
<1>2. ASSUME ReturnNow(q, TRUE) \/ ReturnNow(q, FALSE) PROVE UNCHANGED world
  BY <1>2 DEF ReturnNow
<1>3. ASSUME NEW o, NEW stage, NEW items, Assign(q, o, stage, items)
      PROVE  UNCHANGED world
  BY <1>3 DEF Assign
<1>4. PrepareInstancePool(q) => UNCHANGED world
  BY <1>1, <1>2, <1>3 DEF PrepareInstancePool
<1>5. Lookup(q) => UNCHANGED world
  BY <1>1, <1>2 DEF Lookup
<1>6. RemoveInstance(q) => UNCHANGED world
  BY <1>1, <1>2, <1>3 DEF RemoveInstance
<1>7. ListInstances(q) => UNCHANGED world
  BY <1>3 DEF ListInstances, world
<1>8. FinishSubmit(q) \/ ReconcileInstances(q) => UNCHANGED world
  BY <1>3 DEF FinishSubmit, ReconcileInstances
<1>9. ASSUME \/ Start(q) \/ AcquireLock(q) \/ UpdateStatus(q) \/ CreateInstance(q)
             \/ Deliver(q) \/ ReconcileNodePool(q)
      PROVE  UNCHANGED world
  BY <1>9 DEF Start, AcquireLock, UpdateStatus, CreateInstance, Deliver, ReconcileNodePool
<1>10. Suffers(q) => disturbed' = disturbed + 1 /\ UNCHANGED <<config, prereq>>
  BY DEF Suffers, Fault, SubmitFault, Disturb
<1>11. Meddles(q) => /\ disturbed' \in {disturbed, disturbed + 1}
                     /\ UNCHANGED <<config, prereq>>
  BY DEF Meddles, RejectNetworkType, ReturnNow, RemovePool, CreatePool, Disturb, world
<1> QED
  BY <1>4, <1>5, <1>6, <1>7, <1>8, <1>9, <1>10, <1>11 DEF Panics, Works

(* Where the process panics, nobody is creating Instances.                 *)
LEMMA PanicsSafely ==
  ASSUME TypeOK, Unready, PanicsAlone, NEW q \in Pools, Panics(q)
  PROVE  Panic /\ \A p \in Valid : ~Creating(p)
<1>1. CASE PrepareInstancePool(q) /\ config = "notString"
  <2>1. Panic
    BY <1>1 DEF PrepareInstancePool
  <2>2. \A p \in Pools : Waits(p)
    BY <1>1 DEF Unready
  <2> QED
    BY <2>1, <2>2 DEF Waits, Creating, At, Valid
<1>2. CASE Lookup(q) /\ prereq = "noIngress"
  BY <1>2 DEF Lookup, Unready, Valid
<1>3. CASE RemoveInstance(q) /\ pass[q].items = {}
  <2>1. Panic /\ At(q, {"delete"})
    BY <1>3 DEF RemoveInstance, IsLast
  <2> QED
    BY <1>3, <2>1 DEF PanicsAlone
<1> QED
  BY <1>1, <1>2, <1>3 DEF Panics

(* A step of the system is a disturbance or it is not.                     *)
Quietly == UNCHANGED disturbed /\ \A p \in Valid : Matched(p) => Keeps(p)
Roughly == disturbed' = disturbed + 1 /\ \A p \in Valid : Matched(p) => Adds(p)

LEMMA SpareAll ==
  ASSUME TypeOK, NEW q \in Pools, Elsewhere(q)
  PROVE  \A p \in Valid : p # q /\ Matched(p) => Keeps(p) /\ Adds(p)
BY ElsewhereSpares, SparesSuffices DEF Valid

LEMMA QuietOrRough ==
  ASSUME Steady, TypeOK, TypeOK', Unready, PanicsAlone, [Next]_vars
  PROVE  Quietly \/ Roughly
<1>1. ASSUME NEW q \in Pools, PoolStep(q) PROVE Quietly \/ Roughly
  <2>1. CASE Panics(q)
    <3>1. Panic /\ \A p \in Valid : ~Creating(p)
      BY <2>1, PanicsSafely
    <3>2. \A p \in Valid : Matched(p) => Keeps(p)
      BY <3>1, RestartAdds DEF Panic, Valid
    <3> QED
      BY <3>1, <3>2 DEF Panic, Quietly
  <2>2. CASE Works(q)
    <3>1. UNCHANGED disturbed /\ Elsewhere(q)
      BY <2>2, WorldKept, ElsewhereStep DEF world
    <3>2. q \in Valid /\ Matched(q) => Keeps(q)
      BY <2>2, OwnKeeps
    <3> QED
      BY <3>1, <3>2, SpareAll DEF Quietly
  <2>3. CASE Suffers(q)
    <3>1. disturbed' = disturbed + 1 /\ Elsewhere(q)
      BY <2>3, WorldKept, ElsewhereStep
    <3>2. Matched(q) => Adds(q)
      BY <2>3, FaultAdds, SubmitFaultAdds DEF Suffers
    <3> QED
      BY <3>1, <3>2, SpareAll DEF Roughly
  <2>4. CASE Meddles(q)
    <3>1. disturbed' \in {disturbed, disturbed + 1} /\ Elsewhere(q)
      BY <2>4, WorldKept, ElsewhereStep
    <3>2. q \in Valid => ~Matched(q)
      BY <2>4 DEF Meddles, RejectNetworkType, RemovePool, CreatePool, Valid,
                  Matched, Coherent
    <3> QED
      BY <3>1, <3>2, SpareAll DEF Quietly, Roughly
  <2> QED
    BY <1>1, <2>1, <2>2, <2>3, <2>4, PoolStepIs
<1>2. ASSUME NEW n \in Names,
             Provision(n) \/ Manage(n) \/ Finalize(n) \/ Heartbeat(n) \/ Collect(n)
      PROVE  Quietly
  <2>1. UNCHANGED disturbed
    BY <1>2 DEF Provision, Manage, Finalize, Heartbeat, Collect, world
  <2>2. \A p \in Valid : Matched(p) => Keeps(p)
    BY <1>2, InstanceSpares, SparesSuffices DEF Valid
  <2> QED
    BY <2>1, <2>2 DEF Quietly
<1>3. ASSUME NEW n \in Names, Evict(n) PROVE Roughly
  <2>1. disturbed' = disturbed + 1
    BY <1>3 DEF Evict, Disturb
  <2>2. \A p \in Pools : Members(p)' \subseteq Members(p)
                         /\ UNCHANGED <<pool, cache, stale, queue, pass>>
    BY <1>3, InstanceShrinks DEF InstanceStep
  <2>3. \A p \in Valid : Matched(p) => Adds(p)
    BY <2>2, DropAdds DEF Valid
  <2> QED
    BY <2>1, <2>3 DEF Roughly
<1>4. ASSUME Repair \/ UNCHANGED vars PROVE Quietly
  <2>1. UNCHANGED <<disturbed, inst, pool, cache, stale, notify, queue, pass>>
    BY <1>4 DEF Repair, vars, store, world, watch
  <2>2. \A p \in Pools : Members(p)' = Members(p)
    BY <2>1 DEF Members
  <2>3. \A p \in Valid : Matched(p) => Keeps(p)
    BY <2>1, <2>2, OthersSpare, SparesSuffices DEF Valid
  <2> QED
    BY <2>1, <2>3 DEF Quietly
<1>5. ASSUME Resync PROVE Roughly
  <2>1. disturbed' = disturbed + 1 /\ UNCHANGED <<inst, pool, cache, stale, pass>>
    BY <1>5 DEF Resync, Disturb, store, watch
  <2>2. \A p \in Pools : Members(p)' = Members(p)
    BY <2>1 DEF Members
  <2>3. \A p \in Valid : Matched(p) => Adds(p)
    BY <2>1, <2>2, DropAdds DEF Valid
  <2> QED
    BY <2>1, <2>3 DEF Roughly
<1>6. ASSUME Crash PROVE Roughly
  BY <1>6, RestartAdds DEF Crash, Disturb, Roughly, Valid
<1> QED
  BY <1>1, <1>2, <1>3, <1>4, <1>5, <1>6 DEF Next, InstanceStep

(***************************************************************************)
(* The invariant is inductive.                                             *)
(***************************************************************************)
LEMMA Products ==
  /\ \A c, d \in Nat : c * (1 + d) \in Nat /\ c * (1 + (d + 1)) = c * (1 + d) + c
  /\ \A c, d \in Nat : d # 0 => 2 * c <= c * (1 + d)
  /\ \A c \in Nat : c * (1 + 0) = c /\ c * (1 + (0 + 1)) = 2 * c
<1>1. \A c, d \in Nat : c * (1 + d) \in Nat /\ c * (1 + (d + 1)) = c * (1 + d) + c
  OBVIOUS
<1>2. ASSUME NEW c \in Nat, NEW d \in Nat, d # 0 PROVE 2 * c <= c * (1 + d)
  <2>1. PICK e \in Nat : d = e + 1
    <3>1. d - 1 \in Nat /\ d = (d - 1) + 1
      BY <1>2
    <3> QED
      BY <3>1
  <2>2. c * (1 + (e + 1)) = 2 * c + c * e
    OBVIOUS
  <2>3. c * e \in Nat
    OBVIOUS
  <2>4. c * (1 + d) = 2 * c + c * e
    BY <2>1, <2>2
  <2> DEFINE x == c * e
             y == c * (1 + d)
  <2>5. y = 2 * c + x /\ x \in Nat
    BY <2>3, <2>4
  <2> HIDE DEF x, y
  <2>6. 2 * c <= y
    BY <2>5
  <2> QED
    BY <2>6 DEF y
<1>3. \A c \in Nat : c * (1 + 0) = c /\ c * (1 + (0 + 1)) = 2 * c
  OBVIOUS
<1> QED
  BY <1>1, <1>2, <1>3

LEMMA NextTotalType ==
  ASSUME TypeOK', NEW p \in Pools, Matched(p)'
  PROVE  Total(p)' \in Nat
<1>1. Members(p)' \subseteq Names
  BY DEF Members
<1>2. Cardinality(Members(p)') \in Nat
  BY <1>1, FS_Subset, FS_CardinalityType, ConstantsAssumption DEF ConstantsAssumption
<1>3. Coherent(pool'[p], cache'[p], stale'[p], pass'[p])
  BY DEF Matched
<1>4. /\ pool'[p] \in InstancePoolObject /\ cache'[p] \in InstancePoolObject
      /\ stale'[p] \in BOOLEAN /\ pass'[p] \in Pass
  BY DEF TypeOK
<1>5. Debt(pool'[p], cache'[p], stale'[p], pass'[p]) \in Nat
  BY <1>3, <1>4, DebtType
<1>6. Total(p)' = Cardinality(Members(p)') + Debt(pool'[p], cache'[p], stale'[p], pass'[p])
  BY DEF Total
<1> QED
  BY <1>2, <1>5, <1>6

LEMMA QuietBudget ==
  ASSUME TypeOK, TypeOK', NEW p \in Pools, Matched(p), Budget(p), Keeps(p),
         UNCHANGED disturbed, disturbed = 0 => Gentle
  PROVE  Budget(p)'
<1>1. CASE disturbed = 0
  BY <1>1 DEF Budget, Keeps
<1>2. CASE disturbed # 0
  <2> DEFINE c == pool[p].count
             t == Total(p)
             u == Total(p)'
             x == c * (1 + disturbed)
  <2>1. t \in Nat /\ c \in Nat /\ disturbed \in Nat
    BY TotalType DEF TypeOK
  <2>2. u \in Nat
    BY NextTotalType DEF Keeps
  <2>3. x \in Nat /\ 2 * c <= x
    BY <1>2, <2>1, Products
  <2>4. t <= x /\ (u <= t \/ u <= 2 * c)
    BY <1>2 DEF Budget, Keeps
  <2>5. pool'[p].count = c
    BY DEF Keeps
  <2> HIDE DEF c, t, u, x
  <2>6. u <= x
    BY <2>1, <2>2, <2>3, <2>4
  <2>7. Total(p)' <= pool'[p].count * (1 + disturbed')
    BY <2>5, <2>6 DEF u, x
  <2> QED
    BY <1>2, <2>7 DEF Budget
<1> QED
  BY <1>1, <1>2

LEMMA RoughBudget ==
  ASSUME TypeOK, TypeOK', NEW p \in Pools, Matched(p), Budget(p), Adds(p),
         disturbed' = disturbed + 1
  PROVE  Budget(p)'
<1> DEFINE c == pool[p].count
           t == Total(p)
           u == Total(p)'
           y == c * (1 + (disturbed + 1))
           mk == Making(pass[p])
<1>1. t \in Nat /\ c \in Nat /\ disturbed \in Nat
  BY TotalType DEF TypeOK
<1>2. u \in Nat
  BY NextTotalType DEF Adds
<1>3. u <= t + (IF mk THEN c ELSE 0) /\ pool'[p].count = c
  BY DEF Adds
<1>4. u <= y
  <2>1. CASE disturbed = 0
    <3>1. t <= 2 * c /\ (mk => t <= c)
      <4>1. Calm(pool[p], cache[p], stale[p], pass[p], Members(p), p \in queue, p \in notify)
        BY <2>1 DEF Budget, Untroubled
      <4>2. Coherent(pool[p], cache[p], stale[p], pass[p])
        BY DEF Matched
      <4> QED
        BY <4>1, <4>2, Pieces, CalmTotal DEF Total
    <3>2. y = 2 * c
      BY <1>1, <2>1, Products
    <3> HIDE DEF c, t, u, y, mk
    <3> QED
      BY <1>1, <1>2, <1>3, <3>1, <3>2
  <2>2. CASE disturbed # 0
    <3> DEFINE x == c * (1 + disturbed)
    <3>1. t <= x /\ x \in Nat /\ y = x + c
      BY <1>1, <2>2, Products DEF Budget
    <3> HIDE DEF c, t, u, x, y, mk
    <3> QED
      BY <1>1, <1>2, <1>3, <3>1
  <2> QED
    BY <2>1, <2>2
<1>5. disturbed' # 0
  BY <1>1
<1>6. Total(p)' <= pool'[p].count * (1 + disturbed')
  BY <1>3, <1>4
<1> QED
  BY <1>5, <1>6 DEF Budget

(* Nobody removes an Instance before the first disturbance.                *)
LEMMA GentleAtFirst ==
  ASSUME TypeOK, OvershootInv, disturbed = 0
  PROVE  Gentle
<1>1. ASSUME NEW r \in Valid PROVE ~At(r, {"delete"})
  <2>1. Untroubled(r)
    BY DEF OvershootInv, Budget
  <2> QED
    BY <2>1, RemovingTroubled DEF At, Valid
<1>2. ASSUME NEW r \in InvalidPools PROVE ~At(r, {"delete"})
  BY DEF OvershootInv, Barren, Empty
<1> QED
  BY <1>1, <1>2 DEF Gentle, Valid

LEMMA RestartUnready ==
  ASSUME TypeOK, Unready, Barren, Restart, UNCHANGED <<config, prereq>>
  PROVE  Unready' /\ Barren'
<1>1. /\ UNCHANGED <<pool, inst>> /\ cache' = pool
      /\ \A p \in Pools : pass'[p].at = "idle"
  BY IdlePass DEF Restart, store
<1>2. \A p \in Pools : Members(p)' = Members(p)
  BY <1>1 DEF Members
<1>3. Unready'
  BY <1>1 DEF Unready, Waits, Creating, At
<1>4. Barren'
  BY <1>1, <1>2, ConstantsAssumption DEF Barren, Empty, At, ConstantsAssumption
<1> QED
  BY <1>3, <1>4

LEMMA StepUnready ==
  ASSUME TypeOK, Unready, Barren, NEW q \in Pools,
         Works(q) \/ Suffers(q) \/ Meddles(q)
  PROVE  Unready' /\ Barren'
<1>1. UNCHANGED <<config, prereq>>
  BY WorldKept DEF world
<1>2. Elsewhere(q)
  BY ElsewhereStep
<1>3. \A p \in Pools \ {q} : /\ pool'[p] = pool[p] /\ cache'[p] = cache[p]
                             /\ pass'[p] = pass[p]
  BY <1>2 DEF Elsewhere, OthersKeepVersion
<1>4. ASSUME config # "ok", NEW p \in Pools PROVE Waits(p)'
  <2>1. Waits(p)
    BY <1>4 DEF Unready
  <2>2. CASE p = q
    BY <1>4, <2>1, <2>2, WaitsOn
  <2>3. CASE p # q
    BY <1>3, <2>1, <2>3 DEF Waits, At
  <2> QED
    BY <2>2, <2>3
<1>5. ASSUME prereq # "ok", NEW p \in Pools PROVE ~Creating(p)'
  <2>1. ~Creating(p)
    BY <1>5 DEF Unready
  <2>2. CASE p = q
    BY <1>5, <2>1, <2>2, CreatesNothing
  <2>3. CASE p # q
    BY <1>3, <2>1, <2>3 DEF Creating, At
  <2> QED
    BY <2>2, <2>3
<1>6. ASSUME NEW p \in InvalidPools PROVE Empty(p)'
  <2>1. Empty(p) /\ p \in Pools
    BY <1>6, ConstantsAssumption DEF Barren, ConstantsAssumption
  <2>2. CASE p = q
    BY <2>1, <2>2, EmptyOn
  <2>3. CASE p # q
    <3>1. Members(p)' \subseteq Members(p)
      <4>1. CASE UNCHANGED inst
        BY <4>1 DEF Members
      <4>2. CASE AddInstance(q)
        BY <2>1, <2>3, <4>2, AddedMembers
      <4>3. CASE \E n \in Names : inst[n] # Absent /\ DeleteInstance(n)
        BY <2>1, <4>3, DeletedMembers
      <4> QED
        BY <1>2, <4>1, <4>2, <4>3 DEF Elsewhere
    <3> QED
      BY <1>3, <2>1, <2>3, <3>1 DEF Empty, At
  <2> QED
    BY <2>2, <2>3
<1> QED
  BY <1>1, <1>4, <1>5, <1>6 DEF Unready, Barren

LEMMA UnreadyNext ==
  ASSUME Steady, TypeOK, Unready, Barren, [Next]_vars
  PROVE  Unready' /\ Barren'
<1>1. ASSUME NEW q \in Pools, PoolStep(q) PROVE Unready' /\ Barren'
  <2>1. CASE Panics(q)
    <3>1. Panic
      BY <2>1 DEF Panics, PrepareInstancePool, Lookup, RemoveInstance, IsLast
    <3> QED
      BY <3>1, RestartUnready DEF Panic, Restart
  <2> QED
    BY <1>1, <2>1, PoolStepIs, StepUnready
<1>2. ASSUME NEW n \in Names, InstanceStep(n) PROVE Unready' /\ Barren'
  <2>1. UNCHANGED <<config, prereq>>
    BY <1>2 DEF InstanceStep, Provision, Manage, Finalize, Heartbeat, Collect, Evict,
                Disturb, world
  <2>2. \A p \in Pools : Members(p)' \subseteq Members(p)
                         /\ UNCHANGED <<pool, cache, stale, queue, pass>>
    BY <1>2, InstanceShrinks
  <2>3. Unready'
    BY <2>1, <2>2 DEF Unready, Waits, Creating, At
  <2>4. Barren'
    BY <2>2, ConstantsAssumption DEF Barren, Empty, At, ConstantsAssumption
  <2> QED
    BY <2>3, <2>4
<1>3. ASSUME Repair \/ Resync \/ UNCHANGED vars PROVE Unready' /\ Barren'
  <2>1. /\ UNCHANGED <<inst, pool, cache, pass>>
        /\ config' \in {config, "ok"} /\ prereq' \in {prereq, "ok"}
    BY <1>3 DEF Repair, Resync, Disturb, vars, store, world, watch
  <2>2. \A p : Members(p)' = Members(p)
    BY <2>1 DEF Members
  <2>3. Unready'
    BY <2>1 DEF Unready, Waits, Creating, At
  <2>4. Barren'
    BY <2>1, <2>2 DEF Barren, Empty, At
  <2> QED
    BY <2>3, <2>4
<1>4. ASSUME Crash PROVE Unready' /\ Barren'
  BY <1>4, RestartUnready DEF Crash, Restart
<1> QED
  BY <1>1, <1>2, <1>3, <1>4 DEF Next

LEMMA OvershootNext ==
  ASSUME Steady, TypeOK, TypeOK', OvershootInv, PanicsAlone, [Next]_vars
  PROVE  OvershootInv'
<1>1. Unready' /\ Barren'
  BY UnreadyNext DEF OvershootInv
<1>2. ASSUME NEW p \in Valid PROVE (Matched(p) /\ Budget(p))'
  <2>1. p \in Pools /\ Matched(p) /\ Budget(p)
    BY DEF OvershootInv, Valid
  <2>2. Quietly \/ Roughly
    BY QuietOrRough DEF OvershootInv
  <2>3. CASE Quietly
    <3>1. Keeps(p) /\ UNCHANGED disturbed
      BY <2>1, <2>3 DEF Quietly
    <3>2. disturbed = 0 => Gentle
      BY GentleAtFirst
    <3> QED
      BY <2>1, <3>1, <3>2, QuietBudget DEF Keeps
  <2>4. CASE Roughly
    <3>1. Adds(p) /\ disturbed' = disturbed + 1
      BY <2>1, <2>4 DEF Roughly
    <3> QED
      BY <2>1, <3>1, RoughBudget DEF Adds
  <2> QED
    BY <2>2, <2>3, <2>4
<1> QED
  BY <1>1, <1>2 DEF OvershootInv

LEMMA OvershootInit == Init => OvershootInv
<1> SUFFICES ASSUME Init PROVE OvershootInv
  OBVIOUS
<1>0. TypeOK
  BY TypeInit
<1>1. ASSUME NEW p \in Pools
      PROVE  /\ pool[p].status = Unset /\ pool[p].uid = 1 /\ pool[p].life = "live"
             /\ cache[p] = pool[p] /\ stale[p] = FALSE /\ pass[p] = Idle
             /\ pass[p].at = "idle" /\ Members(p) = {}
  <2>1. /\ pool[p].status = Unset /\ pool[p].uid = 1 /\ pool[p].life = "live"
    <3>1. PICK c \in [Pools -> Counts] : pool = [r \in Pools |-> NewPool(c[r], 1)]
      BY DEF Init
    <3>2. pool[p] = NewPool(c[p], 1)
      BY <3>1
    <3>3. /\ NewPool(c[p], 1).uid = 1 /\ NewPool(c[p], 1).life = "live"
      BY DEF NewPool
    <3>4. NewPool(c[p], 1).status = Unset
      BY DEF NewPool, Unset
    <3> QED
      BY <3>2, <3>3, <3>4
  <2>2. cache[p] = pool[p] /\ stale[p] = FALSE /\ pass[p] = Idle /\ pass[p].at = "idle"
    BY IdlePass DEF Init
  <2>3. Members(p) = {}
    BY ConstantsAssumption DEF Init, Members, Absent, ConstantsAssumption
  <2> QED
    BY <2>1, <2>2, <2>3
<1>2. disturbed = 0 /\ notify = {}
  BY DEF Init
<1>3. Unready
  BY <1>1 DEF Unready, Waits, Creating, At
<1>4. Barren
  BY <1>1, ConstantsAssumption DEF Barren, Empty, At, ConstantsAssumption
<1>5. ASSUME NEW p \in Valid PROVE Matched(p) /\ Budget(p)
  <2>1. p \in Pools
    BY DEF Valid
  <2>2. Matched(p)
    BY <1>1, <2>1, UnsetDiffers DEF Matched, Coherent, Modest
  <2>3. Untroubled(p)
    BY <1>1, <1>2, <2>1, UnsetDiffers DEF Untroubled, Calm, Asking, Reconciling
  <2> QED
    BY <1>2, <2>2, <2>3 DEF Budget
<1> QED
  BY <1>3, <1>4, <1>5 DEF OvershootInv

LEMMA CalmFew ==
  ASSUME NEW S \in InstancePoolObject, NEW C \in InstancePoolObject,
         NEW st \in BOOLEAN, NEW g \in Pass, Coherent(S, C, st, g),
         NEW M, M = {} => Cardinality(M) = 0, Cardinality(M) \in Nat,
         NEW q, NEW w, Calm(S, C, st, g, M, q, w)
  PROVE  Cardinality(M) <= S.count
<1>1. S.count \in Nat
  BY Bounds
<1>2. CASE M = {}
  BY <1>1, <1>2
<1>3. CASE Cardinality(M) = S.count
  BY <1>1, <1>3
<1>4. CASE g.at = "create" /\ Cardinality(M) + g.left = S.count
  <2>1. g.left \in Int /\ g.left >= 0
    BY <1>4, FieldTypes DEF Coherent, Fits
  <2> QED
    BY <1>1, <1>4, <2>1
<1> QED
  BY <1>2, <1>3, <1>4, StatusCases DEF Calm, Asking, Filling, Filled

LEMMA OvershootImplies == TypeOK /\ OvershootInv => OvershootBounded
<1> SUFFICES ASSUME TypeOK, OvershootInv, NEW p \in Pools
             PROVE  Cardinality(Members(p)) <= pool[p].count * (1 + disturbed)
  BY DEF OvershootBounded
<1> DEFINE m == Cardinality(Members(p))
           c == pool[p].count
           t == Total(p)
           x == c * (1 + disturbed)
<1>1. m \in Nat /\ c \in Nat /\ disturbed \in Nat
  BY Pieces, FieldTypes DEF TypeOK
<1>2. x \in Nat
  BY <1>1, Products
<1>3. CASE p \in InvalidPools
  <2>1. m = 0
    BY <1>3, Pieces DEF OvershootInv, Barren, Empty
  <2> HIDE DEF m, x
  <2> QED
    BY <1>2, <2>1 DEF m, x
<1>4. CASE p \in Valid
  <2>1. Matched(p) /\ Budget(p)
    BY <1>4 DEF OvershootInv
  <2>2. CASE disturbed = 0
    <3>1. m <= c
      BY <2>1, <2>2, Pieces, CalmFew DEF Budget, Untroubled, Matched
    <3>2. x = c
      BY <1>1, <2>2, Products
    <3> QED
      BY <3>1, <3>2
  <2>3. CASE disturbed # 0
    <3>1. m <= t /\ t <= x /\ t \in Nat
      BY <2>1, <2>3, TotalType DEF Budget
    <3> HIDE DEF m, t, x
    <3>2. m <= x
      BY <1>1, <1>2, <3>1
    <3> QED
      BY <3>2 DEF m, x
  <2> QED
    BY <2>2, <2>3
<1> QED
  BY <1>3, <1>4 DEF Valid

(* A pool has at most spec.count Instances for each disturbance, and       *)
(* spec.count more: whatever the pools, the counts and the workers are, and*)
(* however evictions, crashes, failed calls and resyncs fall, as long as   *)
(* nobody edits spec.count or deletes a pool, and no pass over one pool    *)
(* panics in removeInstances while another creates its Instances.          *)
THEOREM OvershootLimited ==
  ASSUME Steady
  PROVE  Spec /\ []PanicsAlone => []OvershootBounded
<1>1. Init => OvershootInv
  BY OvershootInit
<1>2. TypeOK /\ TypeOK' /\ PanicsAlone /\ OvershootInv /\ [Next]_vars => OvershootInv'
  BY OvershootNext
<1>3. TypeOK /\ OvershootInv => OvershootBounded
  BY OvershootImplies
<1> QED
  BY <1>1, <1>2, <1>3, Typed, PTL DEF Spec

(* Where only one pool's networking type is valid, there is no such panic, *)
(* and the bound holds without further conditions.                         *)
LEMMA AloneOrNot ==
  ASSUME OvershootInv, \A p, q \in Valid : p = q
  PROVE  PanicsAlone
<1> SUFFICES ASSUME NEW p \in Pools, NEW q \in Valid, At(p, {"delete"})
             PROVE  ~Creating(q)
  BY DEF PanicsAlone
<1>1. p \notin InvalidPools
  BY DEF OvershootInv, Barren, Empty
<1>2. p = q
  BY <1>1 DEF Valid
<1> QED
  BY <1>2 DEF Creating, At

THEOREM OvershootAlone ==
  ASSUME Steady, \A p, q \in Valid : p = q
  PROVE  Spec => []OvershootBounded
<1>1. Init => OvershootInv
  BY OvershootInit
<1>2. TypeOK /\ TypeOK' /\ OvershootInv /\ [Next]_vars => OvershootInv'
  BY OvershootNext, AloneOrNot
<1>3. TypeOK /\ OvershootInv => OvershootBounded
  BY OvershootImplies
<1> QED
  BY <1>1, <1>2, <1>3, Typed, PTL DEF Spec
=============================================================================
