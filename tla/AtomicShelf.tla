----------------------------- MODULE AtomicShelf -----------------------------
(***************************************************************************)
(* What the engine promises whoever runs one command at a time             *)
(* (internal/shelfcore): of each app, which services it is registered for  *)
(* and whether the credential it was given works, was closed by the        *)
(* removal of the app or is damaged.  Services appear in one step, that of *)
(* the save; nothing breaks a credential but the removal of its app and    *)
(* the loss of the service's volume.                                       *)
(***************************************************************************)
CONSTANTS
  Apps,
  Services,
  Addons,    \* the services without an account of their own
  Reloaded,  \* the services that read their accounts from a file at a start
  MayLose    \* volumes may be lost, services restarted

VARIABLES
  present,  \* the apps the registry lists
  shelf,    \* app -> the condition of each of its services
  leaving   \* the apps whose removal is under way

States == {"off", "works", "closed", "damaged"}

AllOff == [s \in Services |-> "off"]
Off(a) == {s \in Services : shelf[a][s] = "off"}

(* What a service may be when its app becomes registered for it.           *)
Delivered == {"works"} \cup (IF MayLose THEN {"damaged"} ELSE {})

Init ==
  /\ present = {}
  /\ shelf = [a \in Apps |-> AllOff]
  /\ leaving = {}

(* A setup or an add saves the services it has provisioned; one that       *)
(* failed stays off, one that was on is left alone.                        *)
Provide(a) ==
  /\ leaving = {}
  /\ present' = present \cup {a}
  /\ \A b \in Apps, s \in Services :
       \/ shelf'[b][s] = shelf[b][s]
       \/ b = a /\ s \in Off(a) /\ shelf'[b][s] \in Delivered
  /\ shelf' \in [Apps -> [Services -> States]]
  /\ UNCHANGED leaving

Detach(a) ==
  /\ leaving = {}
  /\ a \in present
  /\ \E S \in SUBSET Addons :
       shelf' = [shelf EXCEPT ![a] =
                   [s \in Services |-> IF s \in S THEN "off" ELSE shelf[a][s]]]
  /\ UNCHANGED <<present, leaving>>

(* A removal takes the services down one by one and then drops the entry,  *)
(* or it stops on the way and leaves the entry with what it closed.        *)
Depart(a) ==
  /\ leaving = {}
  /\ a \in present
  /\ leaving' = {a}
  /\ UNCHANGED <<present, shelf>>

Close(a, s) ==
  /\ a \in leaving
  /\ shelf[a][s] = "works"
  /\ \E v \in {"closed", "damaged"} : shelf' = [shelf EXCEPT ![a][s] = v]
  /\ UNCHANGED <<present, leaving>>

Forget(a) ==
  /\ a \in leaving
  /\ present' = present \ {a}
  /\ shelf' = [shelf EXCEPT ![a] = AllOff]
  /\ leaving' = {}

Stay(a) ==
  /\ a \in leaving
  /\ leaving' = {}
  /\ shelf' = [shelf EXCEPT ![a] =
                 [s \in Services |-> IF shelf[a][s] = "closed" THEN "damaged" ELSE shelf[a][s]]]
  /\ UNCHANGED present

(* A reconcile repairs a credential.                                       *)
Repair(a, s) ==
  /\ leaving = {}
  /\ shelf[a][s] = "damaged"
  /\ shelf' = [shelf EXCEPT ![a][s] = "works"]
  /\ UNCHANGED <<present, leaving>>

(* The service loses its volume, and every app its credential for it.      *)
Lose(s) ==
  /\ MayLose
  /\ s \notin Addons
  /\ \E A \in SUBSET leaving :
       shelf' = [a \in Apps |->
                  IF shelf[a][s] = "works" \/ (a \in A /\ shelf[a][s] = "closed")
                  THEN [shelf[a] EXCEPT ![s] = "damaged"] ELSE shelf[a]]
  /\ UNCHANGED <<present, leaving>>

(* A service restarts: credentials may come back, none stops working.      *)
Reload(s) ==
  /\ MayLose
  /\ s \in Reloaded
  /\ \E A \in SUBSET {a \in Apps : shelf[a][s] \in {"closed", "damaged"}} :
       \E v \in [A -> {"works", "damaged"}] :
         shelf' = [a \in Apps |->
                    IF a \in A THEN [shelf[a] EXCEPT ![s] = v[a]] ELSE shelf[a]]
  /\ UNCHANGED <<present, leaving>>

Next ==
  \/ \E a \in Apps : Provide(a) \/ Detach(a) \/ Depart(a) \/ Forget(a) \/ Stay(a)
  \/ \E a \in Apps, s \in Services : Close(a, s) \/ Repair(a, s)
  \/ \E s \in Services : Lose(s) \/ Reload(s)

Spec == Init /\ [][Next]_<<present, shelf, leaving>>

=============================================================================
