---------------------------- MODULE MCDelivery ----------------------------
(* Two processes beside one another, four calls and a crash. *)
EXTENDS Delivery, TLC

Swap == Permutations(Procs)
=============================================================================
