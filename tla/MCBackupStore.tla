---------------------------- MODULE MCBackupStore ----------------------------
(***************************************************************************)
(* BackupStore for TLC: one app; workers are interchangeable.              *)
(***************************************************************************)
EXTENDS BackupStore, TLC

CONSTANTS app, postgres

TheApps == {app}
OneService == {postgres}
HasAll == app :> Services
AnyKind == [w \in Workers |-> AllKinds]
Symmetry == Permutations(Workers)

LastOne == [days |-> 0, count |-> 1]
OneDay == [days |-> 1, count |-> 0]
Both == {LastOne, OneDay}

=============================================================================
