-------------------------- MODULE RegistryFileProofs --------------------------
(***************************************************************************)
(* Proofs about RegistryFile, for any clients, changes, inodes and secrets:*)
(* type correctness always and, while one operation runs at a time, that   *)
(* apps.json is never torn, that what was saved stays, and that load and   *)
(* save implement AtomicRegistry.                                          *)
(***************************************************************************)
EXTENDS RegistryFile, TLAPS

(* An operation under way has a registry to save, an idle client has none. *)
HasCopy ==
  \A c \in Clients : op[c].pc = "idle" <=> op[c].registry = None

Typed == TypeOK /\ HasCopy

LEMMA NoneIsNoRegistry == \A R \in SUBSET Changes : R # None
  BY NoneAssumption

(* What Load returns is a set of changes.                                  *)
LEMMA LoadedIsRegistry ==
  ASSUME TypeOK, NEW c \in Clients, Loadable(c)
  PROVE  Loaded \in SUBSET Changes
<1>1. CASE apps = None
  BY <1>1 DEF Loaded
<1>2. CASE apps # None
  <2>1. apps \in Files /\ bytes[apps] \in Payload
    BY <1>2 DEF TypeOK, Loadable, Bytes
  <2>2. QED
    BY <1>2, <2>1 DEF Loaded, Payload
<1>3. QED
  BY <1>1, <1>2

LEMMA EnvelopeIsPayload ==
  ASSUME Typed, NEW c \in Clients, op[c].pc # "idle"
  PROVE  Envelope(op[c]) \in Payload
  BY DEF Typed, TypeOK, HasCopy, Operation, Envelope, Payload

LEMMA NoneNoPayload == None \notin Payload
  BY NoneAssumption DEF Payload

LEMMA TypedInit == Init => Typed
<1> SUFFICES ASSUME Init PROVE Typed
  OBVIOUS
<1>1. Idle \in Operation
  BY DEF Idle, Operation
<1>2. TypeOK
  BY <1>1 DEF Init, TypeOK, Bytes
<1>3. HasCopy
  BY DEF Init, HasCopy, Idle
<1>4. QED
  BY <1>2, <1>3 DEF Typed

LEMMA TypedNext == Typed /\ [Next]_vars => Typed'
<1> SUFFICES ASSUME Typed, [Next]_vars PROVE Typed'
  OBVIOUS
<1> USE DEF Typed
<1>0. Idle \in Operation
  BY DEF Idle, Operation
<1>1. CASE UNCHANGED vars
  BY <1>1 DEF vars, TypeOK, HasCopy
<1>2. CASE Next
  <2> PICK c \in Clients :
        \/ Update(c) \/ EncryptInPlace(c) \/ Open(c) \/ Write(c)
        \/ Rename(c) \/ RenameFails(c) \/ Abort(c) \/ Rekey(c)
    BY <1>2 DEF Next
  <2>1. CASE Update(c)
    <3>1. PICK x \in Changes \ used :
            /\ used' = used \cup {x}
            /\ op' = [op EXCEPT ![c] = [Idle EXCEPT !.pc = "open",
                        !.registry = Loaded \cup {x}, !.change = {x}]]
      BY <2>1 DEF Update, Become
    <3>2. Loaded \cup {x} \in SUBSET Changes
      BY <2>1, LoadedIsRegistry DEF Update
    <3> DEFINE o == [Idle EXCEPT !.pc = "open", !.registry = Loaded \cup {x}, !.change = {x}]
    <3>3. o \in Operation /\ o.pc = "open" /\ o.registry # None
      BY <3>2, NoneIsNoRegistry DEF Idle, Operation
    <3> HIDE DEF o
    <3>4. op' = [op EXCEPT ![c] = o]
      BY <3>1 DEF o
    <3>5. TypeOK'
      BY <2>1, <3>1, <3>3, <3>4 DEF Update, TypeOK
    <3>6. HasCopy'
      BY <3>3, <3>4 DEF HasCopy, TypeOK
    <3>7. QED
      BY <3>5, <3>6
  <2>2. CASE EncryptInPlace(c)
    <3> DEFINE o == [Idle EXCEPT !.pc = "open", !.registry = Loaded, !.force = TRUE,
                                 !.key = secret[c]]
    <3>1. Loaded \in SUBSET Changes
      BY <2>2, LoadedIsRegistry DEF EncryptInPlace
    <3>2. secret[c] \in Secrets \cup {None}
      BY DEF TypeOK
    <3>3. o \in Operation /\ o.pc = "open" /\ o.registry # None
      BY <3>1, <3>2, NoneIsNoRegistry DEF Idle, Operation
    <3>4. op' = [op EXCEPT ![c] = o]
      BY <2>2 DEF EncryptInPlace, Become
    <3> HIDE DEF o
    <3>5. TypeOK'
      BY <2>2, <3>3, <3>4 DEF EncryptInPlace, TypeOK
    <3>6. HasCopy'
      BY <3>3, <3>4 DEF HasCopy, TypeOK
    <3>7. QED
      BY <3>5, <3>6
  <2>3. CASE Open(c)
    <3>1. PICK f \in Files :
            /\ tmp' = f
            /\ bytes' = [bytes EXCEPT ![f] = None]
            /\ op' = [op EXCEPT ![c] = [op[c] EXCEPT !.pc = "write", !.file = f,
                        !.key = IF op[c].force THEN @ ELSE secret[c]]]
      BY <2>3 DEF Open, Become
    <3>2. op[c] \in Operation /\ secret[c] \in Secrets \cup {None} /\ op[c].registry # None
      BY <2>3 DEF TypeOK, HasCopy, Open
    <3> DEFINE o == [op[c] EXCEPT !.pc = "write", !.file = f,
                                  !.key = IF op[c].force THEN @ ELSE secret[c]]
    <3>3. o \in Operation /\ o.pc = "write" /\ o.registry # None
      BY <3>2 DEF Operation
    <3>4. op' = [op EXCEPT ![c] = o]
      BY <3>1
    <3> HIDE DEF o
    <3>5. TypeOK'
      <4>1. bytes' \in [Files -> Bytes]
        BY <3>1 DEF TypeOK, Bytes
      <4>2. op' \in [Clients -> Operation]
        BY <3>3, <3>4 DEF TypeOK
      <4> QED
        BY <2>3, <3>1, <4>1, <4>2 DEF Open, TypeOK
    <3>6. HasCopy'
      BY <3>3, <3>4 DEF HasCopy, TypeOK
    <3>7. QED
      BY <3>5, <3>6
  <2>4. CASE Write(c)
    <3>1. Envelope(op[c]) \in Payload
      BY <2>4, EnvelopeIsPayload DEF Write
    <3>2. bytes' \in [Files -> Bytes]
      BY <2>4, <3>1 DEF Write, TypeOK, Bytes
    <3>3. op' = [op EXCEPT ![c] = [op[c] EXCEPT !.pc = "rename"]]
      BY <2>4 DEF Write, Become
    <3>4. op[c] \in Operation /\ op[c].registry # None
      BY <2>4 DEF TypeOK, HasCopy, Write
    <3>5. op' \in [Clients -> Operation]
      BY <3>3, <3>4 DEF TypeOK, Operation
    <3>6. TypeOK'
      BY <2>4, <3>2, <3>5 DEF Write, TypeOK
    <3>7. HasCopy'
      BY <3>3, <3>4 DEF HasCopy, TypeOK, Operation
    <3>8. QED
      BY <3>6, <3>7
  <2>5. CASE Rename(c)
    <3>1. op' = [op EXCEPT ![c] = Idle]
      BY <2>5 DEF Rename, Become
    <3>2. op[c].change \subseteq Changes
      BY DEF TypeOK, Operation
    <3>3. TypeOK'
      BY <1>0, <2>5, <3>1, <3>2 DEF Rename, TypeOK
    <3>4. HasCopy'
      BY <3>1 DEF HasCopy, TypeOK, Idle
    <3>5. QED
      BY <3>3, <3>4
  <2>6. CASE RenameFails(c) \/ Abort(c)
    <3>1. op' = [op EXCEPT ![c] = Idle]
      BY <2>6 DEF RenameFails, Abort, Become
    <3>2. TypeOK'
      BY <1>0, <2>6, <3>1 DEF RenameFails, Abort, TypeOK
    <3>3. HasCopy'
      BY <3>1 DEF HasCopy, TypeOK, Idle
    <3>4. QED
      BY <3>2, <3>3
  <2>7. CASE Rekey(c)
    BY <2>7 DEF Rekey, TypeOK, HasCopy
  <2>8. QED
    BY <2>1, <2>2, <2>3, <2>4, <2>5, <2>6, <2>7
<1>3. QED
  BY <1>1, <1>2

(***************************************************************************)
(* Every reachable state of Load and Save is well-typed, whatever the      *)
(* interleaving and whatever fails: in particular what a Load returns and  *)
(* what a Save writes is always a registry.                                *)
(***************************************************************************)
THEOREM FileTypeOK == Spec => []TypeOK
<1>1. Spec => []Typed
  BY TypedInit, TypedNext, PTL DEF Spec
<1>2. Typed => TypeOK
  BY DEF Typed
<1>3. QED
  BY <1>1, <1>2, PTL

-----------------------------------------------------------------------------
(***************************************************************************)
(* While one operation runs at a time: the .tmp is the file of that        *)
(* operation and never the registry itself, it is complete before it is    *)
(* renamed, and what will be saved is the registry that is stored with     *)
(* the operation's own change.                                             *)
(***************************************************************************)
Alone == \A c, d \in Clients : op[c].pc # "idle" /\ op[d].pc # "idle" => c = d

Apart == tmp # None => tmp # apps

Written ==
  \A c \in Clients :
    /\ op[c].pc \in {"write", "rename"} => tmp # None /\ op[c].file = tmp
    /\ op[c].pc = "write" => bytes[tmp] = None
    /\ op[c].pc = "rename" => bytes[tmp] = Envelope(op[c])

Current ==
  \A c \in Clients : op[c].pc # "idle" => op[c].registry = Loaded \cup op[c].change

SerialInv ==
  /\ Typed
  /\ NeverTorn
  /\ SavedStays
  /\ saved \subseteq Loaded
  /\ Alone
  /\ Apart
  /\ Written
  /\ Current

LEMMA SerialInit == Init => SerialInv
<1> SUFFICES ASSUME Init PROVE SerialInv
  OBVIOUS
<1>1. Typed
  BY TypedInit
<1>2. NeverTorn /\ SavedStays /\ saved \subseteq Loaded /\ Apart
  BY DEF Init, NeverTorn, SavedStays, Apart
<1>3. Alone /\ Written /\ Current
  BY DEF Init, Idle, Alone, Written, Current
<1>4. QED
  BY <1>1, <1>2, <1>3 DEF SerialInv

(* The file behind apps.json is not touched: neither is what it stores.    *)
LEMMA UntouchedFile ==
  ASSUME Typed, NeverTorn, UNCHANGED apps,
         apps # None => bytes'[apps] = bytes[apps]
  PROVE  NeverTorn' /\ Loaded' = Loaded
  BY DEF NeverTorn, Loaded

(* An operation that ends leaves the others idle.                          *)
LEMMA OthersIdle ==
  ASSUME SerialInv, NEW c \in Clients, op[c].pc # "idle"
  PROVE  \A d \in Clients : d # c => op[d].pc = "idle"
  BY DEF SerialInv, Alone

LEMMA SerialNext ==
  ASSUME Serial
  PROVE  SerialInv /\ [Next]_vars => SerialInv'
<1> SUFFICES ASSUME SerialInv, [Next]_vars PROVE SerialInv'
  OBVIOUS
<1>0. Typed'
  BY TypedNext DEF SerialInv
<1>t. TypeOK /\ HasCopy /\ TypeOK' /\ HasCopy'
  BY <1>0 DEF SerialInv, Typed
<1>i. Idle.pc = "idle"
  BY DEF Idle
<1>1. CASE UNCHANGED vars
  BY <1>0, <1>1 DEF vars, SerialInv, NeverTorn, SavedStays, Loaded, Alone, Apart,
                    Written, Current, Envelope
<1>2. CASE Next
  <2> PICK c \in Clients :
        \/ Update(c) \/ EncryptInPlace(c) \/ Open(c) \/ Write(c)
        \/ Rename(c) \/ RenameFails(c) \/ Abort(c) \/ Rekey(c)
    BY <1>2 DEF Next
  <2>1. CASE Update(c) \/ EncryptInPlace(c)
    <3>1. PICK o : /\ op' = [op EXCEPT ![c] = o]
                   /\ o.pc = "open" /\ o.registry = Loaded \cup o.change
      <4>1. CASE Update(c)
        <5>1. PICK x \in Changes \ used :
                op' = [op EXCEPT ![c] = [Idle EXCEPT !.pc = "open",
                          !.registry = Loaded \cup {x}, !.change = {x}]]
          BY <4>1 DEF Update, Become
        <5> DEFINE o == [Idle EXCEPT !.pc = "open", !.registry = Loaded \cup {x},
                                     !.change = {x}]
        <5>2. o.pc = "open" /\ o.registry = Loaded \cup o.change
          BY DEF Idle
        <5> HIDE DEF o
        <5>3. op' = [op EXCEPT ![c] = o]
          BY <5>1 DEF o
        <5>4. QED
          BY <5>2, <5>3
      <4>2. CASE EncryptInPlace(c)
        <5> DEFINE o == [Idle EXCEPT !.pc = "open", !.registry = Loaded, !.force = TRUE,
                                     !.key = secret[c]]
        <5>1. o.pc = "open" /\ o.registry = Loaded /\ o.change = {}
          BY DEF Idle
        <5>2. op' = [op EXCEPT ![c] = o]
          BY <4>2 DEF EncryptInPlace, Become
        <5> HIDE DEF o
        <5>3. QED
          BY <5>1, <5>2
      <4>3. QED
        BY <2>1, <4>1, <4>2
    <3>2. \A d \in Clients : op[d].pc = "idle"
      BY <2>1 DEF Update, EncryptInPlace, MayBegin
    <3>3. UNCHANGED <<apps, tmp, bytes, saved>>
      BY <2>1 DEF Update, EncryptInPlace
    <3>4. op'[c] = o /\ \A d \in Clients : d # c => op'[d] = op[d]
      BY <1>t, <3>1 DEF TypeOK
    <3>5. NeverTorn' /\ SavedStays' /\ Loaded' = Loaded /\ (saved \subseteq Loaded)' /\ Apart'
      BY <3>3 DEF SerialInv, NeverTorn, SavedStays, Loaded, Apart
    <3>6. Alone' /\ Written' /\ Current'
      BY <3>1, <3>2, <3>4, <3>5 DEF Alone, Written, Current
    <3>7. QED
      BY <1>0, <3>5, <3>6 DEF SerialInv
  <2>2. CASE Open(c)
    <3>1. PICK f \in Files :
            /\ OpenTmp(f)
            /\ tmp' = f
            /\ bytes' = [bytes EXCEPT ![f] = None]
            /\ op' = [op EXCEPT ![c] = [op[c] EXCEPT !.pc = "write", !.file = f,
                        !.key = IF op[c].force THEN @ ELSE secret[c]]]
      BY <2>2 DEF Open, Become
    <3>2. f # apps /\ f # None
      BY <3>1, NoneAssumption DEF OpenTmp, Unused, SerialInv, Apart
    <3>3. UNCHANGED <<apps, saved>> /\ op[c].pc = "open"
      BY <2>2 DEF Open
    <3>4. apps # None => bytes'[apps] = bytes[apps]
      BY <1>t, <3>1, <3>2 DEF TypeOK
    <3>5. /\ op'[c].pc = "write" /\ op'[c].file = f
          /\ op'[c].registry = op[c].registry /\ op'[c].change = op[c].change
          /\ \A d \in Clients : d # c => op'[d] = op[d]
      BY <1>t, <3>1 DEF TypeOK, Operation
    <3>6. NeverTorn' /\ Loaded' = Loaded
      BY <3>3, <3>4, UntouchedFile DEF SerialInv
    <3>7. SavedStays' /\ (saved \subseteq Loaded)'
      BY <3>3, <3>4, <3>6 DEF SerialInv, SavedStays, NeverTorn
    <3>8. Apart'
      BY <3>1, <3>2, <3>3 DEF Apart
    <3>9. \A d \in Clients : d # c => op[d].pc = "idle"
      BY <3>3, OthersIdle
    <3>10. bytes'[tmp'] = None
      BY <1>t, <3>1 DEF TypeOK
    <3>11. Alone' /\ Current'
      BY <3>3, <3>5, <3>6, <3>9 DEF SerialInv, Alone, Current
    <3>12. Written'
      <4> SUFFICES ASSUME NEW d \in Clients, op'[d].pc \in {"write", "rename"}
                   PROVE  /\ tmp' # None /\ op'[d].file = tmp'
                          /\ op'[d].pc = "write" => bytes'[tmp'] = None
                          /\ op'[d].pc = "rename" => bytes'[tmp'] = Envelope(op'[d])
        BY DEF Written, Envelope
      <4>1. d = c
        BY <3>5, <3>9
      <4>2. QED
        BY <3>1, <3>2, <3>5, <3>10, <4>1
    <3>13. QED
      BY <1>0, <3>6, <3>7, <3>8, <3>11, <3>12 DEF SerialInv
  <2>3. CASE Write(c)
    <3>1. /\ op[c].pc = "write" /\ tmp # None /\ op[c].file = tmp
          /\ UNCHANGED <<apps, tmp, saved>>
      BY <2>3 DEF Write, SerialInv, Written
    <3>2. tmp \in Files /\ bytes[tmp] \in Bytes
      BY <1>t, <3>1 DEF TypeOK
    <3>3. bytes' = [bytes EXCEPT ![tmp] = Envelope(op[c])]
      BY <2>3, <3>1 DEF Write, SerialInv, Written
    <3>4. apps # None => bytes'[apps] = bytes[apps]
      BY <1>t, <3>1, <3>3 DEF TypeOK, SerialInv, Apart
    <3>5. op' = [op EXCEPT ![c] = [op[c] EXCEPT !.pc = "rename"]]
      BY <2>3 DEF Write, Become
    <3>6. /\ op'[c].pc = "rename" /\ op'[c].file = tmp
          /\ op'[c].registry = op[c].registry /\ op'[c].change = op[c].change
          /\ op'[c].key = op[c].key
          /\ \A d \in Clients : d # c => op'[d] = op[d]
      BY <1>t, <3>1, <3>5 DEF TypeOK, Operation
    <3>7. NeverTorn' /\ Loaded' = Loaded
      BY <3>1, <3>4, UntouchedFile DEF SerialInv
    <3>8. SavedStays' /\ (saved \subseteq Loaded)' /\ Apart'
      BY <3>1, <3>4, <3>7 DEF SerialInv, SavedStays, NeverTorn, Apart
    <3>9. \A d \in Clients : d # c => op[d].pc = "idle"
      BY <3>1, OthersIdle
    <3>10. bytes'[tmp'] = Envelope(op'[c])
      BY <1>t, <3>1, <3>2, <3>3, <3>6 DEF TypeOK, Envelope
    <3>11. Alone' /\ Current'
      BY <3>1, <3>6, <3>7, <3>9 DEF SerialInv, Alone, Current
    <3>12. Written'
      <4> SUFFICES ASSUME NEW d \in Clients, op'[d].pc \in {"write", "rename"}
                   PROVE  /\ tmp' # None /\ op'[d].file = tmp'
                          /\ op'[d].pc = "write" => bytes'[tmp'] = None
                          /\ op'[d].pc = "rename" => bytes'[tmp'] = Envelope(op'[d])
        BY DEF Written, Envelope
      <4>1. d = c
        BY <3>6, <3>9
      <4>2. QED
        BY <3>1, <3>6, <3>10, <4>1
    <3>13. QED
      BY <1>0, <3>7, <3>8, <3>11, <3>12 DEF SerialInv
  <2>4. CASE Rename(c)
    <3>1. /\ op[c].pc = "rename" /\ tmp # None
          /\ apps' = tmp /\ tmp' = None /\ UNCHANGED bytes
          /\ saved' = saved \cup op[c].change
          /\ op' = [op EXCEPT ![c] = Idle]
      BY <2>4 DEF Rename, Become
    <3>2. bytes[tmp] = Envelope(op[c]) /\ op[c].registry = Loaded \cup op[c].change
      BY <3>1 DEF SerialInv, Written, Current
    <3>3. bytes'[apps'] # None
      BY <1>t, <3>1, <3>2, EnvelopeIsPayload, NoneNoPayload DEF SerialInv
    <3>4. bytes'[apps'].registry = Loaded \cup op[c].change
      BY <3>1, <3>2 DEF Envelope
    <3>5. Loaded' = Loaded \cup op[c].change
      BY <3>1, <3>4 DEF Loaded
    <3>6. NeverTorn' /\ SavedStays' /\ (saved \subseteq Loaded)' /\ Apart'
      BY <3>1, <3>3, <3>4, <3>5 DEF SerialInv, NeverTorn, SavedStays, Apart
    <3>7. \A d \in Clients : op'[d].pc = "idle"
      BY <1>t, <1>i, <3>1, OthersIdle DEF TypeOK
    <3>8. Alone' /\ Written' /\ Current'
      BY <3>7 DEF Alone, Written, Current
    <3>9. QED
      BY <1>0, <3>6, <3>8 DEF SerialInv
  <2>5. CASE RenameFails(c) \/ Abort(c)
    <3>1. /\ op[c].pc # "idle" /\ UNCHANGED <<apps, bytes, saved>> /\ tmp' \in {tmp, None}
          /\ op' = [op EXCEPT ![c] = Idle]
      BY <2>5 DEF RenameFails, Abort, Become
    <3>2. \A d \in Clients : op'[d].pc = "idle"
      BY <1>t, <1>i, <3>1, OthersIdle DEF TypeOK
    <3>3. NeverTorn' /\ SavedStays' /\ (saved \subseteq Loaded)' /\ Apart'
      BY <3>1 DEF SerialInv, NeverTorn, SavedStays, Loaded, Apart
    <3>4. Alone' /\ Written' /\ Current'
      BY <3>2 DEF Alone, Written, Current
    <3>5. QED
      BY <1>0, <3>3, <3>4 DEF SerialInv
  <2>6. CASE Rekey(c)
    BY <1>0, <2>6 DEF Rekey, SerialInv, NeverTorn, SavedStays, Loaded, Alone, Apart,
                      Written, Current, Envelope
  <2>7. QED
    BY <2>1, <2>2, <2>3, <2>4, <2>5, <2>6
<1>3. QED
  BY <1>1, <1>2

(***************************************************************************)
(* "Writes are atomic" (store_save.go): without a second writer, whatever  *)
(* operation fails and wherever a process is killed between open, write    *)
(* and rename, a reader of apps.json finds a whole registry.               *)
(***************************************************************************)
THEOREM SerialNeverTorn ==
  ASSUME Serial
  PROVE  Spec => []NeverTorn
<1>1. SerialInv /\ [Next]_vars => SerialInv'
  BY SerialNext
<1>2. SerialInv => NeverTorn
  BY DEF SerialInv
<1>3. QED
  BY <1>1, <1>2, SerialInit, PTL DEF Spec

(***************************************************************************)
(* A change whose Save reported success is never lost by an operation that *)
(* comes after it, fails or is killed.                                     *)
(***************************************************************************)
THEOREM SerialSavedStays ==
  ASSUME Serial
  PROVE  Spec => []SavedStays
<1>1. SerialInv /\ [Next]_vars => SerialInv'
  BY SerialNext
<1>2. SerialInv => SavedStays
  BY DEF SerialInv
<1>3. QED
  BY <1>1, <1>2, SerialInit, PTL DEF Spec

-----------------------------------------------------------------------------
(***************************************************************************)
(* Refinement: what happens between a Load and its rename leaves the       *)
(* stored registry alone, and the rename replaces it in one step.          *)
(***************************************************************************)
LEMMA RefinesInit == Init => Atomic!Init
  BY DEF Init, Idle, Atomic!Init, Stored

LEMMA RefinesNext ==
  ASSUME Serial
  PROVE  SerialInv /\ [Next]_vars
           => [Atomic!Next]_<<Stored, [c \in Clients |-> op[c].registry]>>
<1> SUFFICES ASSUME SerialInv, [Next]_vars
             PROVE  [Atomic!Next]_<<Stored, [c \in Clients |-> op[c].registry]>>
  OBVIOUS
<1> DEFINE Copy == [c \in Clients |-> op[c].registry]
<1>t. TypeOK /\ HasCopy /\ NeverTorn /\ Apart
  BY DEF SerialInv, Typed
<1>s. Stored = Loaded
  BY <1>t DEF NeverTorn, Stored, Loaded
<1>i. Idle.registry = None
  BY DEF Idle
<1>n. SerialInv' /\ TypeOK' /\ NeverTorn'
  <2>1. SerialInv'
    BY SerialNext
  <2>2. QED
    BY <2>1 DEF SerialInv, Typed
<1>s2. Stored' = Loaded'
  BY <1>n DEF NeverTorn, Stored, Loaded
<1>1. CASE UNCHANGED vars
  BY <1>1 DEF vars, Stored
<1>2. CASE Next
  <2> PICK c \in Clients :
        \/ Update(c) \/ EncryptInPlace(c) \/ Open(c) \/ Write(c)
        \/ Rename(c) \/ RenameFails(c) \/ Abort(c) \/ Rekey(c)
    BY <1>2 DEF Next
  <2>1. CASE Update(c) \/ EncryptInPlace(c)
    <3>1. PICK o : /\ op' = [op EXCEPT ![c] = o]
                   /\ o.registry \in SUBSET Changes
                   /\ Loaded \subseteq o.registry
      <4>1. CASE Update(c)
        <5>1. PICK x \in Changes \ used :
                op' = [op EXCEPT ![c] = [Idle EXCEPT !.pc = "open",
                          !.registry = Loaded \cup {x}, !.change = {x}]]
          BY <4>1 DEF Update, Become
        <5> DEFINE o == [Idle EXCEPT !.pc = "open", !.registry = Loaded \cup {x},
                                     !.change = {x}]
        <5>2. o.registry = Loaded \cup {x}
          BY DEF Idle
        <5> HIDE DEF o
        <5>3. op' = [op EXCEPT ![c] = o]
          BY <5>1 DEF o
        <5>4. Loaded \cup {x} \in SUBSET Changes
          BY <1>t, <4>1, LoadedIsRegistry DEF Update
        <5>5. QED
          BY <5>2, <5>3, <5>4
      <4>2. CASE EncryptInPlace(c)
        <5> DEFINE o == [Idle EXCEPT !.pc = "open", !.registry = Loaded, !.force = TRUE,
                                     !.key = secret[c]]
        <5>1. o.registry = Loaded
          BY DEF Idle
        <5>2. op' = [op EXCEPT ![c] = o]
          BY <4>2 DEF EncryptInPlace, Become
        <5> HIDE DEF o
        <5>3. Loaded \in SUBSET Changes
          BY <1>t, <4>2, LoadedIsRegistry DEF EncryptInPlace
        <5>4. QED
          BY <5>1, <5>2, <5>3
      <4>3. QED
        BY <2>1, <4>1, <4>2
    <3>2. Copy[c] = None
      BY <1>t, <2>1 DEF Update, EncryptInPlace, MayBegin, HasCopy
    <3>3. Copy' = [Copy EXCEPT ![c] = o.registry]
      BY <1>t, <3>1 DEF TypeOK
    <3>4. Stored' = Stored
      BY <2>1 DEF Update, EncryptInPlace, Stored
    <3>5. Atomic!Load(c)
      BY <1>s, <3>1, <3>2, <3>3, <3>4 DEF Atomic!Load
    <3>6. QED
      BY <3>5 DEF Atomic!Next
  <2>2. CASE Open(c) \/ Write(c)
    <3>1. UNCHANGED apps /\ (apps # None => bytes'[apps] = bytes[apps])
      <4>1. CASE Open(c)
        BY <1>t, <4>1 DEF Open, OpenTmp, Unused, Apart, TypeOK
      <4>2. CASE Write(c)
        <5>1. op[c].file # apps
          BY <1>t, <4>2 DEF Write, SerialInv, Written, Apart
        <5>2. QED
          BY <1>t, <4>2, <5>1 DEF Write, TypeOK
      <4>3. QED
        BY <2>2, <4>1, <4>2
    <3>2. Stored' = Stored
      BY <3>1 DEF Stored
    <3>3. Copy' = Copy
      <4>1. PICK o : op' = [op EXCEPT ![c] = o] /\ o.registry = op[c].registry
        <5>1. op[c] \in Operation
          BY <1>t DEF TypeOK
        <5>2. CASE Open(c)
          <6>1. PICK f \in Files : op' = [op EXCEPT ![c] = [op[c] EXCEPT
                  !.pc = "write", !.file = f, !.key = IF op[c].force THEN @ ELSE secret[c]]]
            BY <5>2 DEF Open, Become
          <6> DEFINE o == [op[c] EXCEPT !.pc = "write", !.file = f,
                                        !.key = IF op[c].force THEN @ ELSE secret[c]]
          <6>2. o.registry = op[c].registry
            BY <5>1 DEF Operation
          <6> HIDE DEF o
          <6>3. op' = [op EXCEPT ![c] = o]
            BY <6>1 DEF o
          <6>4. QED
            BY <6>2, <6>3
        <5>3. CASE Write(c)
          <6> DEFINE o == [op[c] EXCEPT !.pc = "rename"]
          <6>1. o.registry = op[c].registry
            BY <5>1 DEF Operation
          <6>2. op' = [op EXCEPT ![c] = o]
            BY <5>3 DEF Write, Become
          <6> HIDE DEF o
          <6>3. QED
            BY <6>1, <6>2
        <5>4. QED
          BY <2>2, <5>2, <5>3
      <4>2. QED
        BY <1>t, <4>1 DEF TypeOK
    <3>4. QED
      BY <3>2, <3>3
  <2>3. CASE Rename(c) \/ RenameFails(c) \/ Abort(c)
    <3>1. op[c].pc # "idle" /\ op' = [op EXCEPT ![c] = Idle]
      BY <2>3 DEF Rename, RenameFails, Abort, Become
    <3>2. Copy[c] # None /\ Copy' = [Copy EXCEPT ![c] = None]
      BY <1>t, <1>i, <3>1 DEF TypeOK, HasCopy
    <3>3. CASE Rename(c)
      <4>1. bytes[tmp] = Envelope(op[c]) /\ apps' = tmp /\ tmp # None /\ bytes' = bytes
        BY <3>3 DEF Rename, SerialInv, Written
      <4>2. Stored' = Copy[c]
        BY <1>s2, <4>1 DEF Loaded, Envelope
      <4>3. Atomic!Save(c)
        BY <3>2, <4>2 DEF Atomic!Save
      <4>4. QED
        BY <4>3 DEF Atomic!Next
    <3>4. CASE RenameFails(c) \/ Abort(c)
      <4>1. Stored' = Stored
        BY <3>4 DEF RenameFails, Abort, Stored
      <4>2. Atomic!GiveUp(c)
        BY <3>2, <4>1 DEF Atomic!GiveUp
      <4>3. QED
        BY <4>2 DEF Atomic!Next
    <3>5. QED
      BY <2>3, <3>3, <3>4
  <2>4. CASE Rekey(c)
    BY <2>4 DEF Rekey, Stored
  <2>5. QED
    BY <2>1, <2>2, <2>3, <2>4
<1>3. QED
  BY <1>1, <1>2

(***************************************************************************)
(* One operation at a time, Load and Save through the .tmp file implement  *)
(* the registry of AtomicRegistry: a load returns what some save left, a   *)
(* save replaces it in one step or not at all.                             *)
(***************************************************************************)
THEOREM SerialImplementsAtomic ==
  ASSUME Serial
  PROVE  Spec => AtomicSpec
<1>1. SerialInv /\ [Next]_vars => SerialInv'
  BY SerialNext
<1>2. SerialInv /\ [Next]_vars
        => [Atomic!Next]_<<Stored, [c \in Clients |-> op[c].registry]>>
  BY RefinesNext
<1>3. QED
  BY <1>1, <1>2, SerialInit, RefinesInit, PTL DEF Spec, AtomicSpec, Atomic!Spec

-----------------------------------------------------------------------------
(***************************************************************************)
(* While no secret changes: an operation that is under way could load the  *)
(* registry, so its client's secret is the key of an encrypted registry,   *)
(* and it is the key of what the operation writes.                         *)
(***************************************************************************)
Keyed ==
  \A c \in Clients :
    op[c].pc # "idle" =>
      /\ op[c].pc \in {"write", "rename"} \/ op[c].force => op[c].key = secret[c]
      /\ apps # None /\ bytes[apps].key # None => bytes[apps].key = secret[c]

KeyInv == ~rekeyed => Keyed

LEMMA KeyInit == Init => KeyInv
  BY DEF Init, Idle, KeyInv, Keyed

(* A secret that has changed stays so.                                     *)
LEMMA RekeyedStays ==
  ASSUME [Next]_vars, ~rekeyed'
  PROVE  ~rekeyed /\ \A c \in Clients : ~Rekey(c)
<1>1. \A c \in Clients : ~Rekey(c)
  BY DEF Rekey
<1>2. rekeyed' = rekeyed
  <2>1. CASE UNCHANGED vars
    BY <2>1 DEF vars
  <2>2. CASE Next
    BY <1>1, <2>2 DEF Next, Update, EncryptInPlace, Open, Write, Rename, RenameFails, Abort
  <2>3. QED
    BY <2>1, <2>2
<1>3. QED
  BY <1>1, <1>2, Zenon

LEMMA KeyNext ==
  ASSUME Serial
  PROVE  SerialInv /\ KeyInv /\ [Next]_vars => KeyInv'
<1> SUFFICES ASSUME SerialInv, KeyInv, [Next]_vars, ~rekeyed' PROVE Keyed'
  BY DEF KeyInv
<1> Keyed
  BY RekeyedStays DEF KeyInv
<1>t. TypeOK /\ Apart
  BY DEF SerialInv, Typed
<1>i. Idle.pc = "idle" /\ ~Idle.force
  BY DEF Idle
<1>1. CASE UNCHANGED vars
  BY <1>1 DEF vars, Keyed
<1>2. CASE Next
  <2> PICK c \in Clients :
        \/ Update(c) \/ EncryptInPlace(c) \/ Open(c) \/ Write(c)
        \/ Rename(c) \/ RenameFails(c) \/ Abort(c) \/ Rekey(c)
    BY <1>2 DEF Next
  <2>1. CASE Update(c) \/ EncryptInPlace(c)
    <3>1. PICK o : /\ op' = [op EXCEPT ![c] = o]
                   /\ o.pc = "open" /\ (o.force => o.key = secret[c])
      <4>1. CASE Update(c)
        <5>1. PICK x \in Changes \ used :
                op' = [op EXCEPT ![c] = [Idle EXCEPT !.pc = "open",
                          !.registry = Loaded \cup {x}, !.change = {x}]]
          BY <4>1 DEF Update, Become
        <5> DEFINE o == [Idle EXCEPT !.pc = "open", !.registry = Loaded \cup {x},
                                     !.change = {x}]
        <5>2. o.pc = "open" /\ ~o.force
          BY DEF Idle
        <5> HIDE DEF o
        <5>3. op' = [op EXCEPT ![c] = o]
          BY <5>1 DEF o
        <5>4. QED
          BY <5>2, <5>3
      <4>2. CASE EncryptInPlace(c)
        <5> DEFINE o == [Idle EXCEPT !.pc = "open", !.registry = Loaded, !.force = TRUE,
                                     !.key = secret[c]]
        <5>1. o.pc = "open" /\ o.key = secret[c]
          BY DEF Idle
        <5>2. op' = [op EXCEPT ![c] = o]
          BY <4>2 DEF EncryptInPlace, Become
        <5> HIDE DEF o
        <5>3. QED
          BY <5>1, <5>2
      <4>3. QED
        BY <2>1, <4>1, <4>2
    <3>2. \A d \in Clients : op[d].pc = "idle"
      BY <2>1 DEF Update, EncryptInPlace, MayBegin
    <3>3. UNCHANGED <<apps, bytes, secret>>
      BY <2>1 DEF Update, EncryptInPlace
    <3>4. apps # None /\ bytes[apps].key # None => bytes[apps].key = secret[c]
      BY <2>1 DEF Update, EncryptInPlace, Loadable
    <3>5. op'[c] = o /\ \A d \in Clients : d # c => op'[d] = op[d]
      BY <1>t, <3>1 DEF TypeOK
    <3>6. QED
      BY <3>1, <3>2, <3>3, <3>4, <3>5 DEF Keyed
  <2>2. CASE Open(c)
    <3>1. PICK f \in Files :
            /\ OpenTmp(f)
            /\ bytes' = [bytes EXCEPT ![f] = None]
            /\ op' = [op EXCEPT ![c] = [op[c] EXCEPT !.pc = "write", !.file = f,
                        !.key = IF op[c].force THEN @ ELSE secret[c]]]
      BY <2>2 DEF Open, Become
    <3>2. op[c].pc # "idle" /\ UNCHANGED <<apps, secret>>
      BY <2>2 DEF Open
    <3>3. apps # None => bytes'[apps] = bytes[apps]
      BY <1>t, <3>1 DEF OpenTmp, Unused, Apart, TypeOK
    <3>4. op'[c].key = secret[c] /\ \A d \in Clients : d # c => op'[d] = op[d]
      BY <1>t, <3>1, <3>2 DEF TypeOK, Operation, Keyed
    <3>5. \A d \in Clients : d # c => op'[d].pc = "idle"
      BY <3>2, <3>4, OthersIdle
    <3>6. QED
      BY <3>2, <3>3, <3>4, <3>5 DEF Keyed
  <2>3. CASE Write(c)
    <3>1. op[c].pc = "write" /\ op[c].file # apps /\ UNCHANGED <<apps, secret>>
      BY <1>t, <2>3 DEF Write, SerialInv, Written, Apart
    <3>2. apps # None => bytes'[apps] = bytes[apps]
      BY <1>t, <2>3, <3>1 DEF Write, TypeOK
    <3>3. op' = [op EXCEPT ![c] = [op[c] EXCEPT !.pc = "rename"]]
      BY <2>3 DEF Write, Become
    <3>4. op'[c].key = op[c].key /\ \A d \in Clients : d # c => op'[d] = op[d]
      BY <1>t, <3>3 DEF TypeOK, Operation
    <3>5. \A d \in Clients : d # c => op'[d].pc = "idle"
      BY <3>1, <3>4, OthersIdle
    <3>6. QED
      BY <3>1, <3>2, <3>4, <3>5 DEF Keyed
  <2>4. CASE Rename(c) \/ RenameFails(c) \/ Abort(c)
    <3>1. op[c].pc # "idle" /\ op' = [op EXCEPT ![c] = Idle]
      BY <2>4 DEF Rename, RenameFails, Abort, Become
    <3>2. \A d \in Clients : op'[d].pc = "idle"
      BY <1>t, <1>i, <3>1, OthersIdle DEF TypeOK
    <3>3. QED
      BY <3>2 DEF Keyed
  <2>5. CASE Rekey(c)
    BY <2>5, RekeyedStays
  <2>6. QED
    BY <2>1, <2>2, <2>3, <2>4, <2>5
<1>3. QED
  BY <1>1, <1>2

(* What a step does to an encrypted registry.                              *)
KeptKey ==
  ~rekeyed /\ apps # None /\ bytes[apps] # None /\ bytes[apps].key # None =>
    /\ apps' # None /\ bytes'[apps'] # None
    /\ bytes'[apps'].key = bytes[apps].key

LEMMA KeyStep ==
  ASSUME Serial
  PROVE  SerialInv /\ KeyInv /\ [Next]_vars => [KeptKey]_vars
<1> SUFFICES ASSUME SerialInv, KeyInv, Next, ~rekeyed,
                    apps # None, bytes[apps] # None, bytes[apps].key # None
             PROVE  /\ apps' # None /\ bytes'[apps'] # None
                    /\ bytes'[apps'].key = bytes[apps].key
  BY DEF KeptKey
<1>t. TypeOK /\ Apart
  BY DEF SerialInv, Typed
<1> PICK c \in Clients :
      \/ Update(c) \/ EncryptInPlace(c) \/ Open(c) \/ Write(c)
      \/ Rename(c) \/ RenameFails(c) \/ Abort(c) \/ Rekey(c)
  BY DEF Next
<1>1. CASE Update(c) \/ EncryptInPlace(c) \/ RenameFails(c) \/ Abort(c) \/ Rekey(c)
  BY <1>1 DEF Update, EncryptInPlace, RenameFails, Abort, Rekey
<1>2. CASE Open(c)
  BY <1>t, <1>2 DEF Open, OpenTmp, Unused, Apart, TypeOK
<1>3. CASE Write(c)
  <2>1. op[c].file # apps
    BY <1>t, <1>3 DEF Write, SerialInv, Written, Apart
  <2>2. QED
    BY <1>t, <1>3, <2>1 DEF Write, TypeOK
<1>4. CASE Rename(c)
  <2>1. bytes[tmp] = Envelope(op[c]) /\ apps' = tmp /\ tmp # None /\ bytes' = bytes
    BY <1>4 DEF Rename, SerialInv, Written
  <2>2. op[c].key = secret[c] /\ bytes[apps].key = secret[c]
    BY <1>4 DEF Rename, KeyInv, Keyed
  <2>3. bytes'[apps'] # None
    BY <1>4, <2>1, EnvelopeIsPayload, NoneNoPayload DEF Rename, SerialInv
  <2>4. QED
    BY <2>1, <2>2, <2>3 DEF Envelope
<1>5. QED
  BY <1>1, <1>2, <1>3, <1>4

(***************************************************************************)
(* While the secrets stay as they are, whatever processes have which: no   *)
(* Save puts an encrypted registry in clear or under another key, although *)
(* Save itself never looks at what it replaces.                            *)
(***************************************************************************)
THEOREM SerialKeyStays ==
  ASSUME Serial
  PROVE  Spec => KeyStays
<1>1. SerialInv /\ [Next]_vars => SerialInv'
  BY SerialNext
<1>2. SerialInv /\ KeyInv /\ [Next]_vars => KeyInv'
  BY KeyNext
<1>3. SerialInv /\ KeyInv /\ [Next]_vars => [KeptKey]_vars
  BY KeyStep
<1>4. KeyStays <=> [][KeptKey]_vars
  BY DEF KeyStays, KeptKey
<1>5. QED
  BY <1>1, <1>2, <1>3, <1>4, SerialInit, KeyInit, PTL DEF Spec

=============================================================================
