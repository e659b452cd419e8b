--------------------------- MODULE AtomicRegistry ---------------------------
(***************************************************************************)
(* What the registry promises the engine ("Writes are atomic",             *)
(* internal/registry/store_save.go): a load returns the registry as some   *)
(* save left it, and a save replaces it in one step.  A registry is the    *)
(* set of the changes made to it.                                          *)
(***************************************************************************)
CONSTANTS Clients, Changes, None

VARIABLES
  stored,  \* the registry
  copy     \* client -> the registry it will save, None outside an operation

Init ==
  /\ stored = {}
  /\ copy = [c \in Clients |-> None]

(* Load, and make a change to the copy (none: EncryptInPlace).             *)
Load(c) ==
  /\ copy[c] = None
  /\ \E new \in SUBSET Changes :
       /\ stored \subseteq new
       /\ copy' = [copy EXCEPT ![c] = new]
  /\ UNCHANGED stored

Save(c) ==
  /\ copy[c] # None
  /\ stored' = copy[c]
  /\ copy' = [copy EXCEPT ![c] = None]

(* The operation fails or its process dies before the save.                *)
GiveUp(c) ==
  /\ copy[c] # None
  /\ copy' = [copy EXCEPT ![c] = None]
  /\ UNCHANGED stored

Next == \E c \in Clients : Load(c) \/ Save(c) \/ GiveUp(c)

Spec == Init /\ [][Next]_<<stored, copy>>

=============================================================================
