------------------------------ MODULE MCQueues ------------------------------
(* Model checking of Queues: two lieutenants, one card. *)
EXTENDS Queues, TLC

MCSymmetry == Permutations(Lts)
=============================================================================
