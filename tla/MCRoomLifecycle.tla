-------------------------- MODULE MCRoomLifecycle --------------------------
(* RoomLifecycle for TLC: which processes and sessions are interchangeable. *)
EXTENDS RoomLifecycle, TLC

ProcSymmetry == Permutations(Proc)
AllSymmetry == Permutations(Proc) \cup Permutations(Sid)
=============================================================================
