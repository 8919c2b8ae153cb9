---------------------------- MODULE MCSchedules -----------------------------
(* Two schedules on one hook, or one removed and added again.                *)
EXTENDS Schedules, TLC

MCSymmetry == Permutations(Objs) \cup Permutations(Names)
=============================================================================
