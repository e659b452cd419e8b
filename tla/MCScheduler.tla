----------------------------- MODULE MCScheduler -----------------------------
(***************************************************************************)
(* Scheduler for TLC: ids are interchangeable.  The liveness run uses no   *)
(* symmetry.                                                               *)
(***************************************************************************)
EXTENDS Scheduler, TLC

Symmetry ==
  Permutations(Schedules) \cup Permutations(Handlers) \cup Permutations(Jobs)
    \cup Permutations(EntryIds) \cup Permutations(Runs)

=============================================================================
