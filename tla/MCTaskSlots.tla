---------------------------- MODULE MCTaskSlots ----------------------------
(***************************************************************************)
(* Small instances of TaskSlots for TLC.                                   *)
(*                                                                         *)
(* Lowering and raising the limit again creates slots each time, without   *)
(* bound; SlotBound stops the administrator once that many exist.          *)
(***************************************************************************)
EXTENDS TaskSlots, TLC

CONSTANT SlotBound  \* the most slots an instance lets resizing create

TaskSymmetry == Permutations(Task)

BoundedResize(n) == SetMaxConcurrent(n) /\ SlotsInExistence' <= SlotBound

MCNext ==
  \/ \E t \in Task : Runner(t) \/ TimeOut(t) \/ Control(t)
  \/ \E n \in 0..(LimitCeiling + 1) : BoundedResize(n)

MCSpec == Init /\ [][MCNext]_vars

MCFairSpec == MCSpec /\ \A t \in Task : WF_vars(Runner(t))
============================================================================
