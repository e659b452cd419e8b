------------------------------ MODULE MCRestore ------------------------------
(***************************************************************************)
(* Restore for TLC: apps are interchangeable.                               *)
(***************************************************************************)
EXTENDS Restore, TLC

CONSTANTS k, l

AllServices == {"postgres", "redis", "rabbitmq", "aistor", "mongodb"}
(* A service alone, and two of them for plans of more than one file.       *)
OneOrTwo == {{"postgres"}, {"redis"}, {"aistor"}, {"rabbitmq", "mongodb"}}
AllOrOne == {{}, {"rabbitmq"}}
SetAndList == k :> "set" @@ l :> "list"
Symmetry == Permutations(Apps)

=============================================================================
