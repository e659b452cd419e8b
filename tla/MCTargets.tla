------------------------------ MODULE MCTargets ------------------------------
(***************************************************************************)
(* Targets for TLC.  A name is the sequence of its words: the app a-b and  *)
(* the environment c give what a and b-c give.                             *)
(***************************************************************************)
EXTENDS Targets

CONSTANTS Bad

TheStems == {<<"a">>, <<"a", "b">>}
TheEnvs == {<<"c">>, <<"b", "c">>}
TheJoin == [p \in TheStems \X TheEnvs |-> p[1] \o p[2]]
TheNames == TheStems \cup {TheJoin[p] : p \in DOMAIN TheJoin}
TheInputs == UNION {[1..n -> TheEnvs \cup {Blank, Bad}] : n \in 0..2}
TheDefaults == {<<"dev">>, <<"c">>}

=============================================================================
