--------------------------- MODULE MCProvisioning ---------------------------
(***************************************************************************)
(* Provisioning for TLC: the names of apps and of clients are              *)
(* interchangeable, no operation orders them.                              *)
(***************************************************************************)
EXTENDS Provisioning, TLC

Symmetry == Permutations(Apps) \cup Permutations(Clients)

=============================================================================
