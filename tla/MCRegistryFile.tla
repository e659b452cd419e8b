--------------------------- MODULE MCRegistryFile ---------------------------
(***************************************************************************)
(* RegistryFile for TLC: names of clients, changes, inodes and secrets are *)
(* interchangeable.                                                        *)
(***************************************************************************)
EXTENDS RegistryFile, TLC

Symmetry ==
  Permutations(Clients) \cup Permutations(Changes)
    \cup Permutations(Files) \cup Permutations(Secrets)

=============================================================================
