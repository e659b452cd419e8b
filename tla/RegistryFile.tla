---------------------------- MODULE RegistryFile ----------------------------
(***************************************************************************)
(* Load and Save of internal/registry on the file system: apps.json, its   *)
(* sibling apps.json.tmp, the bytes behind the two names, and encryption   *)
(* under the secret a process finds in its environment or .env.            *)
(*                                                                         *)
(* atomicWrite opens the .tmp name with O_TRUNC, writes, and renames.  The *)
(* name is the same for every writer, so the model keeps names apart from  *)
(* the files (inodes) they point to: a writer goes on writing to the file  *)
(* it opened, whatever happens to the name.                                *)
(*                                                                         *)
(* A registry is the set of changes made to it; two changes are never the  *)
(* same.                                                                   *)
(***************************************************************************)
EXTENDS Naturals, FiniteSets

CONSTANTS
  Clients,    \* processes and handlers that load and save
  Changes,    \* the changes they make: bounds the saves
  Files,      \* inodes
  Secrets,    \* values of INFRA_SHELF_SECRET
  Serial,     \* one operation at a time
  MayFail,    \* a file operation may fail, a process may be killed
  MayRekey,   \* the secret may change while a process runs
  None        \* no secret, no file, no registry, no bytes that parse

ASSUME FlagsAssumption == Serial \in BOOLEAN /\ MayFail \in BOOLEAN /\ MayRekey \in BOOLEAN
ASSUME NoneAssumption ==
  /\ None \notin Files
  /\ None \notin Secrets
  /\ \A R \in SUBSET Changes : None # R
  /\ None \notin [registry : SUBSET Changes, key : Secrets \cup {None}]

VARIABLES
  apps,     \* the file apps.json points to, None when there is none
  tmp,      \* the file apps.json.tmp points to
  bytes,    \* contents of each file
  secret,   \* client -> the secret it finds, None when it finds none
  op,       \* client -> its operation
  used,     \* history: the changes made so far
  saved,    \* history: the changes whose Save reported success
  rekeyed   \* history: a secret has changed

vars == <<apps, tmp, bytes, secret, op, used, saved, rekeyed>>

(* A registry, in clear (key None) or under a key; None: empty or torn,    *)
(* no JSON.                                                                *)
Payload == [registry : SUBSET Changes, key : Secrets \cup {None}]
Bytes == {None} \cup Payload

Operation ==
  [pc       : {"idle", "open", "write", "rename"},
   registry : {None} \cup SUBSET Changes,      \* what it will save
   change   : SUBSET Changes,                  \* what it changed
   force    : BOOLEAN,                         \* EncryptInPlace
   key      : Secrets \cup {None},             \* the key of its payload
   file     : Files \cup {None}]               \* the open file

Idle == [pc |-> "idle", registry |-> None, change |-> {}, force |-> FALSE,
         key |-> None, file |-> None]

Init ==
  /\ apps = None
  /\ tmp = None
  /\ bytes = [f \in Files |-> None]
  /\ secret \in [Clients -> Secrets \cup {None}]
  /\ op = [c \in Clients |-> Idle]
  /\ used = {}
  /\ saved = {}
  /\ rekeyed = FALSE

Become(c, o) == op' = [op EXCEPT ![c] = o]

MayBegin(c) ==
  /\ op[c].pc = "idle"
  /\ Serial => \A d \in Clients : op[d].pc = "idle"

(***************************************************************************)
(* Load succeeds on a missing file, on a registry in clear and on one      *)
(* under the client's own secret; anything else is an error and the        *)
(* operation goes no further.                                              *)
(***************************************************************************)
LoadableUnderAnyKey(c) == apps # None => bytes[apps] # None      \* mutant
Loadable(c) ==
  \/ apps = None
  \/ /\ apps # None
     /\ bytes[apps] # None
     /\ bytes[apps].key \in {None, secret[c]}

LoadedNothing == {}                                              \* mutant
Loaded == IF apps = None THEN {} ELSE bytes[apps].registry

(* An engine operation: Load, a change, and then Save.                     *)
Update(c) ==
  /\ MayBegin(c)
  /\ Loadable(c)
  /\ \E x \in Changes \ used :
       /\ used' = used \cup {x}
       /\ Become(c, [Idle EXCEPT !.pc = "open", !.registry = Loaded \cup {x}, !.change = {x}])
  /\ UNCHANGED <<apps, tmp, bytes, secret, saved, rekeyed>>

(* EncryptInPlace needs a secret before it loads and keeps that one.       *)
EncryptInPlace(c) ==
  /\ MayBegin(c)
  /\ secret[c] # None
  /\ Loadable(c)
  /\ Become(c, [Idle EXCEPT !.pc = "open", !.registry = Loaded, !.force = TRUE,
                            !.key = secret[c]])
  /\ UNCHANGED <<apps, tmp, bytes, secret, used, saved, rekeyed>>

(* Save takes the secret it finds now, none being no error; os.WriteFile   *)
(* truncates the file behind the .tmp name or creates one.                 *)
Unused(f) == f \notin {apps, tmp} /\ \A d \in Clients : op[d].file # f

OpenInPlace(f) == IF apps = None THEN Unused(f) ELSE f = apps    \* mutant
OpenTmp(f) == IF tmp = None THEN Unused(f) ELSE f = tmp

Open(c) ==
  /\ op[c].pc = "open"
  /\ \E f \in Files :
       /\ OpenTmp(f)
       /\ tmp' = f
       /\ bytes' = [bytes EXCEPT ![f] = None]
       /\ Become(c, [op[c] EXCEPT !.pc = "write", !.file = f,
                                  !.key = IF op[c].force THEN @ ELSE secret[c]])
  /\ UNCHANGED <<apps, secret, used, saved, rekeyed>>

(* The payload goes over what another writer has put in the same file;     *)
(* where that was longer its tail stays and the bytes do not parse.        *)
Envelope(o) == [registry |-> o.registry, key |-> o.key]

Write(c) ==
  LET f == op[c].file
      payload == Envelope(op[c])
  IN
  /\ op[c].pc = "write"
  /\ \/ bytes' = [bytes EXCEPT ![f] = payload]
     \/ bytes[f] \notin {None, payload} /\ bytes' = [bytes EXCEPT ![f] = None]
  /\ Become(c, [op[c] EXCEPT !.pc = "rename"])
  /\ UNCHANGED <<apps, tmp, secret, used, saved, rekeyed>>

Rename(c) ==
  /\ op[c].pc = "rename"
  /\ tmp # None
  /\ apps' = tmp
  /\ tmp' = None
  /\ saved' = saved \cup op[c].change
  /\ Become(c, Idle)
  /\ UNCHANGED <<bytes, secret, used, rekeyed>>

(* No .tmp to rename, or the rename fails: remove the .tmp there is.       *)
RenameFails(c) ==
  /\ op[c].pc = "rename"
  /\ tmp = None \/ MayFail
  /\ tmp' = None
  /\ Become(c, Idle)
  /\ UNCHANGED <<apps, bytes, secret, used, saved, rekeyed>>

(* The open fails; the write fails, leaving the .tmp as it is; or the      *)
(* process is killed.                                                      *)
Abort(c) ==
  /\ MayFail
  /\ op[c].pc # "idle"
  /\ Become(c, Idle)
  /\ UNCHANGED <<apps, tmp, bytes, secret, used, saved, rekeyed>>

(* The operator edits .env.                                                *)
Rekey(c) ==
  /\ MayRekey
  /\ \E k \in Secrets \cup {None} : secret' = [secret EXCEPT ![c] = k]
  /\ rekeyed' = TRUE
  /\ UNCHANGED <<apps, tmp, bytes, op, used, saved>>

Next ==
  \E c \in Clients :
    \/ Update(c) \/ EncryptInPlace(c) \/ Open(c) \/ Write(c)
    \/ Rename(c) \/ RenameFails(c) \/ Abort(c) \/ Rekey(c)

Spec == Init /\ [][Next]_vars

-----------------------------------------------------------------------------
TypeOK ==
  /\ apps \in Files \cup {None}
  /\ tmp \in Files \cup {None}
  /\ bytes \in [Files -> Bytes]
  /\ secret \in [Clients -> Secrets \cup {None}]
  /\ op \in [Clients -> Operation]
  /\ used \subseteq Changes
  /\ saved \subseteq Changes
  /\ rekeyed \in BOOLEAN

(***************************************************************************)
(* "Writes are atomic" (store_save.go): whatever a reader finds under      *)
(* apps.json is a whole registry.                                          *)
(***************************************************************************)
NeverTorn == apps # None => bytes[apps] # None

(***************************************************************************)
(* A change whose Save reported success is in the registry for good, over  *)
(* failures, kills and changes of the secret.                              *)
(***************************************************************************)
SavedStays == apps # None => bytes[apps] # None /\ saved \subseteq bytes[apps].registry

(***************************************************************************)
(* A registry that is encrypted stays so while no secret changes:          *)
(* a process without the secret cannot load it, so it cannot save it in    *)
(* clear, and a process with another secret cannot put its own on it.      *)
(***************************************************************************)
KeyStays ==
  [][~rekeyed /\ apps # None /\ bytes[apps] # None /\ bytes[apps].key # None =>
       /\ apps' # None /\ bytes'[apps'] # None
       /\ bytes'[apps'].key = bytes[apps].key]_vars

(***************************************************************************)
(* The registry the file stands for, and the refinement: one operation at  *)
(* a time, load and save are the atomic ones of AtomicRegistry.            *)
(***************************************************************************)
Stored == IF apps = None THEN {} ELSE IF bytes[apps] = None THEN None ELSE bytes[apps].registry

Atomic == INSTANCE AtomicRegistry WITH
            stored <- Stored,
            copy <- [c \in Clients |-> op[c].registry]

AtomicSpec == Atomic!Spec

=============================================================================
