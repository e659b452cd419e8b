--------------------------- MODULE MCAistorStaging ---------------------------
(***************************************************************************)
(* AistorStaging for TLC: slots are interchangeable.                       *)
(***************************************************************************)
EXTENDS AistorStaging, TLC

Symmetry == Permutations(Slots)

=============================================================================
