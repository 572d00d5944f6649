---------------------------- MODULE InstanceLife ----------------------------
(***************************************************************************)
(* What an Instance object promises to those who only watch it: a pool, or *)
(* an administrator.  It is created unprotected, when a deletion removes   *)
(* it at once; then it carries finalizers and is pending until its node    *)
(* is managed; once deleted it lingers, never becomes managed any more,    *)
(* and disappears.  Nothing ever goes back.  Instance implements this, and *)
(* it is what InstancePool takes every Instance of a pool for.             *)
(***************************************************************************)
VARIABLE life

Lives ==
  [phase: {"absent", "created", "pending", "managed"}, deleting: BOOLEAN]

Absent == [phase |-> "absent", deleting |-> FALSE]
Created == [phase |-> "created", deleting |-> FALSE]

Init == life \in {Absent, Created}

Create == life = Absent /\ life' = Created

(* The first finalizer is stored, as late as with the last status if every *)
(* earlier attempt failed.                                                 *)
Protect ==
  /\ life = Created
  /\ \E phase \in {"pending", "managed"} :
       life' = [phase |-> phase, deleting |-> FALSE]

Manage ==
  /\ life = [phase |-> "pending", deleting |-> FALSE]
  /\ life' = [life EXCEPT !.phase = "managed"]

Delete ==
  /\ life # Absent
  /\ life' = IF life = Created THEN Absent
             ELSE [phase |-> life.phase, deleting |-> TRUE]

Finalize == life.deleting /\ life' = Absent

Next == Create \/ Protect \/ Manage \/ Delete \/ Finalize

Spec == Init /\ [][Next]_life
=============================================================================
