-------------------------- MODULE ProvisioningProofs --------------------------
(***************************************************************************)
(* Proofs about Provisioning, for any apps, services, clients and bounds.  *)
(***************************************************************************)
EXTENDS Provisioning, TLAPS

-----------------------------------------------------------------------------
(* Commands.                                                               *)

LEMMA EffectTyped ==
  ASSUME NEW r \in Resource, NEW secret \in Nat, NEW cmd, NEW seen
  PROVE  Effect(cmd, r, secret, seen) \in Resource
<1>1. /\ [r EXCEPT !.store = TRUE] \in Resource
      /\ [r EXCEPT !.secrets = {secret}] \in Resource
      /\ [r EXCEPT !.granted = TRUE] \in Resource
      /\ [r EXCEPT !.secrets = {secret}, !.granted = TRUE] \in Resource
      /\ [r EXCEPT !.store = FALSE, !.granted = FALSE] \in Resource
      /\ [r EXCEPT !.store = FALSE] \in Resource
      /\ [r EXCEPT !.secrets = {}, !.granted = FALSE] \in Resource
      /\ [r EXCEPT !.granted = FALSE] \in Resource
      /\ Blank \in Resource
  BY DEF Resource, Blank
<1>2. AddPassword(r, secret) \in Resource
  BY DEF Resource, AddPassword
<1>3. QED
  BY <1>1, <1>2 DEF Effect

LEMMA SeenTyped ==
  ASSUME NEW r \in Resource, NEW seen \in BOOLEAN, NEW cmd
  PROVE  Seen(cmd, r, seen) \in BOOLEAN
  BY DEF Seen, Resource

(* Every list of commands has a first one.                                 *)
LEMMA CommandLists ==
  ASSUME NEW s \in Services
  PROVE  /\ Len(Provision(s)) \in Nat \ {0}
         /\ Len(Teardown(s)) \in Nat \ {0}
         /\ Len(Ensure(s)) \in Nat \ {0}
<1> s \in AllServices
  BY ServicesAssumption
<1> QED
  BY DEF Provision, Teardown, Ensure, PostgresProvision, PostgresTeardown, RedisProvision,
         RedisTeardown, RabbitmqProvision, RabbitmqEnsure, RabbitmqTeardown,
         AistorProvision, AistorTeardown, MongodbProvision, MongodbEnsure,
         MongodbTeardown, SignozStep, AllServices

(* The commands of the services other than redis, which alone writes       *)
(* users.acl.                                                              *)
OtherCommands ==
  {"CREATE DATABASE", "CREATE USER", "GRANT", "grantPermissions",
   "pg_terminate_backend", "DROP DATABASE", "DROP USER", "add_vhost",
   "add_user", "set_permissions", "set_user_tags", "list_vhosts",
   "ensure vhost", "list_users", "ensure user", "delete_user", "delete_vhost",
   "mb", "user add", "policy create", "policy attach", "rb", "policy detach",
   "policy rm", "user remove", "createUser", "getUser createUser updateUser",
   "dropUser", "dropDatabase", "none"}

LEMMA CommandOfList ==
  ASSUME NEW list \in Seq(OtherCommands), NEW i \in 1 .. Len(list)
  PROVE  list[i] # "ACL SAVE"
<1>1. list[i] \in OtherCommands
  OBVIOUS
<1>2. QED
  BY <1>1 DEF OtherCommands

LEMMA SavedByRedis ==
  ASSUME NEW s \in Services, s # "redis"
  PROVE  /\ Provision(s) \in Seq(OtherCommands)
         /\ Teardown(s) \in Seq(OtherCommands)
         /\ Ensure(s) \in Seq(OtherCommands)
<1>1. PostgresProvision \in Seq(OtherCommands) /\ PostgresTeardown \in Seq(OtherCommands)
  BY DEF PostgresProvision, PostgresTeardown, OtherCommands
<1>2. RabbitmqProvision \in Seq(OtherCommands) /\ RabbitmqTeardown \in Seq(OtherCommands)
  BY DEF RabbitmqProvision, RabbitmqTeardown, OtherCommands
<1>3. RabbitmqEnsure \in Seq(OtherCommands)
  BY DEF RabbitmqEnsure, OtherCommands
<1>4. AistorProvision \in Seq(OtherCommands) /\ AistorTeardown \in Seq(OtherCommands)
  BY DEF AistorProvision, AistorTeardown, OtherCommands
<1>5. /\ MongodbProvision \in Seq(OtherCommands)
      /\ MongodbTeardown \in Seq(OtherCommands)
      /\ MongodbEnsure \in Seq(OtherCommands)
  BY DEF MongodbProvision, MongodbTeardown, MongodbEnsure, OtherCommands
<1>6. SignozStep \in Seq(OtherCommands)
  BY DEF SignozStep, OtherCommands
<1>7. s \in AllServices
  BY ServicesAssumption
<1>8. Provision(s) \in Seq(OtherCommands)
  BY <1>1, <1>2, <1>4, <1>5, <1>6, <1>7 DEF Provision, AllServices
<1>9. Teardown(s) \in Seq(OtherCommands)
  BY <1>1, <1>2, <1>4, <1>5, <1>6, <1>7 DEF Teardown, AllServices
<1>10. QED
  BY <1>3, <1>5, <1>8, <1>9 DEF Ensure

-----------------------------------------------------------------------------
(***************************************************************************)
(* Types alone are not inductive: an operation reads the entries of its    *)
(* targets and the next command, so a target that needs an entry must have *)
(* one in the loaded copy, and `step` must stay within the commands.       *)
(***************************************************************************)
Working(o) ==
  /\ o.kind \in {"setup", "add", "remove", "reconcile"}
  /\ o.kind # "setup" => \A a \in o.targets : o.loaded[a] # None

AtTarget(o) ==
  /\ Working(o)
  /\ o.target \in Apps
  /\ o.kind \in {"remove", "reconcile"} => o.loaded[o.target] # None

WellFormed(o) ==
  /\ o \in Operation
  /\ o.pc \in {"check", "exec"} => Working(o)
  /\ o.pc = "save" /\ o.kind \in {"setup", "add", "remove"} => AtTarget(o)
  /\ o.pc = "exec" => /\ AtTarget(o)
                      /\ o.service \in Services
                      /\ o.step \in 1 .. Len(Commands(o))

LEMMA IdleWellFormed == WellFormed(Idle)
<1>1. EmptyRegistry \in Registry /\ EmptyEntry \in Entry
  BY DEF EmptyRegistry, Registry, EmptyEntry, Entry, NoConfig
<1>2. QED
  BY <1>1 DEF Idle, Operation, WellFormed

LEMMA FinishWellFormed ==
  ASSUME NEW o \in Operation
  PROVE  WellFormed(Finish(o))
<1>1. Idle \in Operation
  BY IdleWellFormed DEF WellFormed
<1>2. Finish(o) \in Operation
  BY <1>1 DEF Finish, Operation
<1>3. Finish(o).pc = "done"
  BY <1>1 DEF Finish, Operation
<1>4. QED
  BY <1>2, <1>3 DEF WellFormed

(* A target's entry, the services to handle, and the first of them.        *)
LEMMA EnterAtTarget ==
  ASSUME NEW o \in Operation, Working(o), NEW a \in o.targets
  PROVE  Enter(o, a) \in Operation /\ AtTarget(Enter(o, a))
<1>1. a \in Apps /\ Pending(o, a) \in SUBSET Services
  BY DEF Operation, Pending
<1>2. (IF o.kind = "setup" THEN EmptyEntry ELSE o.loaded[a]) \in Entry
  BY <1>1 DEF Operation, Working, Registry, EmptyEntry, Entry, NoConfig
<1>3. QED
  BY <1>1, <1>2 DEF Enter, Operation, AtTarget, Working

LEMMA NextServiceWellFormed ==
  ASSUME NEW o \in Operation, AtTarget(o), NEW p \in NextService(o)
  PROVE  WellFormed(p)
<1>1. PICK s \in o.todo :
        p = [o EXCEPT !.pc = "exec", !.service = s, !.todo = @ \ {s}, !.step = 1, !.seen = FALSE]
  BY DEF NextService
<1>2. s \in Services
  BY DEF Operation
<1>3. p \in Operation /\ p.pc = "exec" /\ p.service = s /\ p.step = 1
  BY <1>1, <1>2 DEF Operation
<1>4. AtTarget(p)
  BY <1>1 DEF Operation, AtTarget, Working
<1>5. p.step \in 1 .. Len(Commands(p))
  BY <1>2, <1>3, CommandLists DEF Commands
<1>6. QED
  BY <1>2, <1>3, <1>4, <1>5 DEF WellFormed, AtTarget

LEMMA NextTargetWellFormed ==
  ASSUME NEW o \in Operation, Working(o), NEW p \in NextTarget(o)
  PROVE  WellFormed(p)
<1>1. CASE o.targets = {}
  BY <1>1, FinishWellFormed DEF NextTarget
<1>2. CASE o.targets # {}
  <2>1. PICK a \in o.targets : p \in NextService(Enter(o, a))
    BY <1>2 DEF NextTarget
  <2>2. QED
    BY <2>1, EnterAtTarget, NextServiceWellFormed
<1>3. QED
  BY <1>1, <1>2

LEMMA AfterServiceWellFormed ==
  ASSUME NEW o \in Operation, AtTarget(o), NEW p \in AfterService(o)
  PROVE  WellFormed(p)
<1>1. CASE o.todo # {}
  BY <1>1, NextServiceWellFormed DEF AfterService
<1>2. CASE o.todo = {} /\ o.kind = "reconcile"
  BY <1>2, NextTargetWellFormed DEF AfterService, AtTarget
<1>3. CASE o.todo = {} /\ o.kind # "reconcile"
  <2>1. p = [o EXCEPT !.pc = "save"]
    BY <1>3 DEF AfterService
  <2>2. QED
    BY <2>1 DEF WellFormed, Operation, AtTarget, Working
<1>4. QED
  BY <1>1, <1>2, <1>3

LEMMA AfterCommandWellFormed ==
  ASSUME NEW o, WellFormed(o), o.pc = "exec", NEW r \in Resource, NEW p \in AfterCommand(o, r)
  PROVE  WellFormed(p)
<1>1. o \in Operation /\ AtTarget(o) /\ o.step \in Nat /\ Len(Commands(o)) \in Nat
  BY CommandLists DEF WellFormed, Operation, Commands
<1>2. CASE ~LastCommand(o)
  <2>1. p = [o EXCEPT !.step = @ + 1, !.seen = Seen(Command(o), r, o.seen)]
    BY <1>2 DEF AfterCommand
  <2>2. o.seen \in BOOLEAN
    BY <1>1 DEF Operation
  <2>3. Seen(Command(o), r, o.seen) \in BOOLEAN
    BY <2>2, SeenTyped
  <2>4. p \in Operation /\ p.step = o.step + 1
    <3> DEFINE n == o.step + 1
               answer == Seen(Command(o), r, o.seen)
    <3>1. n \in Nat /\ answer \in BOOLEAN
      BY <1>1, <2>3
    <3>2. p = [o EXCEPT !.step = n, !.seen = answer]
      BY <1>1, <2>1
    <3> HIDE DEF n, answer
    <3>3. p \in Operation /\ p.step = n
      BY <1>1, <3>1, <3>2 DEF Operation
    <3>4. QED
      BY <3>3 DEF n
  <2> p.kind = o.kind /\ p.service = o.service
    BY <2>1 DEF Operation
  <2> Commands(p) = Commands(o)
    BY DEF Commands, Provisioner
  <2>5. p.step \in 1 .. Len(Commands(p))
    BY <1>1, <1>2, <2>4 DEF WellFormed, LastCommand
  <2>6. AtTarget(p) /\ p.service \in Services
    BY <1>1, <2>1 DEF AtTarget, Working, WellFormed, Operation
  <2>7. QED
    BY <2>4, <2>5, <2>6 DEF WellFormed, AtTarget
<1>3. CASE LastCommand(o) /\ Provisioner(o)
  <2> DEFINE q == [o EXCEPT !.entry[o.service] = o.id]
  <2>1. q \in Operation
    BY <1>1 DEF Operation, Entry
  <2>2. AtTarget(q)
    BY <1>1 DEF AtTarget, Working, Operation
  <2>3. p \in AfterService(q)
    BY <1>3 DEF AfterCommand
  <2>4. QED
    BY <2>1, <2>2, <2>3, AfterServiceWellFormed
<1>4. CASE LastCommand(o) /\ ~Provisioner(o)
  BY <1>1, <1>4, AfterServiceWellFormed DEF AfterCommand
<1>5. QED
  BY <1>2, <1>3, <1>4

LEMMA AfterFailureWellFormed ==
  ASSUME NEW o, WellFormed(o), o.pc = "exec", Resources(o) \in Resource,
         NEW p \in AfterFailure(o)
  PROVE  WellFormed(p)
<1>1. o \in Operation /\ AtTarget(o)
  BY DEF WellFormed
<1>2. Failed(o) \in Operation /\ AtTarget(Failed(o))
  BY <1>1 DEF Failed, Operation, AtTarget, Working
<1>3. QED
  BY <1>2, AfterCommandWellFormed, AfterServiceWellFormed DEF AfterFailure

-----------------------------------------------------------------------------
Typed ==
  /\ TypeOK
  /\ \A c \in Clients : WellFormed(op[c])

LEMMA TypedInit == Init => Typed
<1> SUFFICES ASSUME Init PROVE Typed
  OBVIOUS
<1>1. EmptyRegistry \in Registry
  BY DEF EmptyRegistry, Registry
<1>2. Blank \in Resource
  BY DEF Blank, Resource
<1>3. Idle \in Operation /\ WellFormed(Idle)
  BY IdleWellFormed DEF WellFormed
<1>4. QED
  BY <1>1, <1>2, <1>3 DEF Init, Typed, TypeOK

(* A step of one client that puts a well-formed record in its place.       *)
LEMMA BecomeTyped ==
  ASSUME Typed, NEW c \in Clients, NEW o, Become(c, o), WellFormed(o)
  PROVE  /\ op' \in [Clients -> Operation]
         /\ \A d \in Clients : WellFormed(op'[d])
  BY DEF Typed, TypeOK, Become, WellFormed

(* What is noticed are pairs, and an operation's hands are full of them.   *)
LEMMA NoticingTyped ==
  ASSUME Typed, NEW more \in SUBSET (Apps \X Services), noticed' = Noticing(more)
  PROVE  noticed' \in SUBSET (Apps \X Services)
  BY DEF Noticing, Typed, TypeOK

LEMMA TornTyped ==
  ASSUME NEW o, WellFormed(o)
  PROVE  Torn(o) \in SUBSET (Apps \X Services)
  BY DEF Torn, Operation, Pending, WellFormed, AtTarget

LEMMA InHandTyped ==
  ASSUME NEW o, WellFormed(o)
  PROVE  InHand(o) \in SUBSET (Apps \X Services)
<1>1. Provisioner(o) /\ o.pc \in {"exec", "save"} => o.target \in Apps
  BY DEF WellFormed, AtTarget, Provisioner
<1>2. QED
  BY <1>1, TornTyped DEF InHand

(* Steps that leave the services alone.                                    *)
LEMMA BeginTyped ==
  ASSUME Typed, NEW c \in Clients, Begin(c)
  PROVE  Typed'
<1>1. Idle \in Operation /\ registry \in Registry
  BY IdleWellFormed DEF WellFormed, Typed, TypeOK
<1>2. CASE BeginSetup(c)
  <2>1. PICK T \in (SUBSET Apps) \ {{}}, S \in (SUBSET Services) \ {{}} :
          Become(c, [Idle EXCEPT !.pc = "check", !.kind = "setup", !.loaded = registry,
                                 !.services = S, !.request = T, !.targets = T,
                                 !.id = requests + 1])
    BY <1>2 DEF BeginSetup
  <2> DEFINE o == [Idle EXCEPT !.pc = "check", !.kind = "setup", !.loaded = registry,
                               !.services = S, !.request = T, !.targets = T,
                               !.id = requests + 1]
  <2>2. requests + 1 \in Nat
    BY DEF Typed, TypeOK
  <2>3. WellFormed(o)
    BY <1>1, <2>2 DEF Operation, WellFormed, Working, Provisioner, AllKinds
  <2>4. QED
    BY <1>2, <2>1, <2>2, <2>3, BecomeTyped DEF BeginSetup, Typed, TypeOK
<1>3. CASE BeginAdd(c)
  <2>1. PICK T \in (SUBSET Apps) \ {{}}, S \in (SUBSET Services) \ {{}} :
          /\ \A a \in T : registry[a] # None
          /\ Become(c, [Idle EXCEPT
               !.pc = "check", !.kind = "add", !.loaded = registry, !.services = S,
               !.request = T, !.id = requests + 1,
               !.targets = {a \in T : \E s \in S : registry[a][s] = NoConfig}])
    BY <1>3 DEF BeginAdd
  <2> DEFINE U == {a \in T : \E s \in S : registry[a][s] = NoConfig}
             o == [Idle EXCEPT !.pc = "check", !.kind = "add", !.loaded = registry,
                               !.services = S, !.request = T, !.id = requests + 1,
                               !.targets = U]
  <2>2. requests + 1 \in Nat /\ U \in SUBSET Apps /\ \A a \in U : registry[a] # None
    BY <2>1 DEF Typed, TypeOK
  <2>3. Become(c, o)
    BY <2>1
  <2> HIDE DEF U
  <2>4. WellFormed(o)
    BY <1>1, <2>2 DEF Operation, WellFormed, Working, Provisioner, AllKinds
  <2>5. QED
    BY <1>3, <2>2, <2>3, <2>4, BecomeTyped DEF BeginAdd, Typed, TypeOK
<1>4. CASE BeginRemove(c)
  <2>1. PICK a \in Apps :
          /\ registry[a] # None
          /\ \E p \in AfterService(Enter([Idle EXCEPT !.kind = "remove", !.loaded = registry,
                                                      !.request = {a}], a)) : Become(c, p)
    BY <1>4 DEF BeginRemove
  <2> DEFINE o == [Idle EXCEPT !.kind = "remove", !.loaded = registry, !.request = {a}]
  <2>2. o \in Operation /\ o.kind = "remove" /\ o.loaded = registry /\ o.targets = {}
    BY <1>1 DEF Operation, AllKinds, Idle
  <2>3. PICK p \in AfterService(Enter(o, a)) : Become(c, p)
    BY <2>1
  <2> HIDE DEF o
  <2>4. Pending(o, a) \in SUBSET Services /\ o.loaded[a] \in Entry
    BY <1>1, <2>1, <2>2 DEF Pending, Registry
  <2>5. Enter(o, a) \in Operation /\ AtTarget(Enter(o, a))
    BY <2>1, <2>2, <2>4 DEF Enter, Operation, AtTarget, Working
  <2>6. WellFormed(p)
    BY <2>3, <2>5, AfterServiceWellFormed
  <2>7. noticed' \in SUBSET (Apps \X Services)
    BY <1>4 DEF BeginRemove, Typed, TypeOK
  <2>8. QED
    BY <1>4, <2>3, <2>6, <2>7, BecomeTyped DEF BeginRemove, Typed, TypeOK
<1>5. CASE BeginDetach(c)
  <2>1. PICK a \in Apps, S \in (SUBSET (Services \cap detachable)) \ {{}} :
          /\ registry[a] # None
          /\ Become(c, [Idle EXCEPT
               !.pc = "save", !.kind = "detach", !.loaded = registry, !.services = S,
               !.request = {a}, !.target = a,
               !.entry = [s \in Services |-> IF s \in S THEN NoConfig ELSE registry[a][s]]])
    BY <1>5 DEF BeginDetach
  <2> DEFINE e == [s \in Services |-> IF s \in S THEN NoConfig ELSE registry[a][s]]
             o == [Idle EXCEPT !.pc = "save", !.kind = "detach", !.loaded = registry,
                               !.services = S, !.request = {a}, !.target = a, !.entry = e]
  <2>2. registry[a] \in Entry
    BY <1>1, <2>1 DEF Registry
  <2>3. e \in Entry
    BY <2>2 DEF Entry, NoConfig
  <2>4. Become(c, o)
    BY <2>1
  <2> HIDE DEF e
  <2>5. WellFormed(o)
    BY <1>1, <2>3 DEF Operation, WellFormed, Provisioner, AllKinds
  <2>6. QED
    BY <1>5, <2>4, <2>5, BecomeTyped DEF BeginDetach, Typed, TypeOK
<1>6. CASE BeginReconcile(c)
  <2> DEFINE o == [Idle EXCEPT !.kind = "reconcile", !.loaded = registry,
                               !.request = {a \in Apps : registry[a] # None}]
             U == {a \in o.request : Pending(o, a) # {}}
  <2>1. PICK p \in NextTarget([o EXCEPT !.targets = U]) : Become(c, p)
    BY <1>6 DEF BeginReconcile
  <2>2. /\ o \in Operation /\ o.kind = "reconcile" /\ o.loaded = registry
        /\ o.request = {a \in Apps : registry[a] # None}
    BY <1>1 DEF Operation, AllKinds
  <2> HIDE DEF o
  <2>3. U \in SUBSET Apps /\ \A a \in U : o.loaded[a] # None
    BY <2>2
  <2> HIDE DEF U
  <2>4. [o EXCEPT !.targets = U] \in Operation /\ Working([o EXCEPT !.targets = U])
    BY <2>2, <2>3 DEF Operation, Working
  <2>5. WellFormed(p)
    BY <2>1, <2>4, NextTargetWellFormed
  <2>6. QED
    BY <1>6, <2>1, <2>5, BecomeTyped DEF BeginReconcile, Typed, TypeOK
<1>7. CASE BeginEncrypt(c)
  <2> DEFINE o == [Idle EXCEPT !.pc = "save", !.kind = "encrypt", !.loaded = registry]
  <2>1. WellFormed(o)
    BY <1>1 DEF Operation, WellFormed, Provisioner, AllKinds
  <2>2. QED
    BY <1>7, <2>1, BecomeTyped DEF BeginEncrypt, Typed, TypeOK
<1>8. QED
  BY <1>2, <1>3, <1>4, <1>5, <1>6, <1>7 DEF Begin

(* One command: the resource and users.acl after it.                       *)
LEMMA ApplyTyped ==
  ASSUME Typed, NEW c \in Clients, AtCommand(c), Apply(op[c])
  PROVE  /\ res' \in [Apps -> [Services -> Resource]]
         /\ aclFile' \in [Apps -> SUBSET Nat]
<1> DEFINE o == op[c]
<1>1. /\ o \in Operation /\ AtTarget(o) /\ o.target \in Apps
      /\ o.service \in Services /\ o.step \in 1 .. Len(Commands(o))
  BY DEF Typed, AtCommand, WellFormed, AtTarget
<1>2. Secret(o) \in Nat
  BY <1>1 DEF Secret, Operation, AtTarget, Working, Provisioner, Registry, Entry
<1>3. res[o.target][o.service] \in Resource
  BY <1>1 DEF Typed, TypeOK
<1>4. Effect(Command(o), res[o.target][o.service], Secret(o), o.seen) \in Resource
  BY <1>2, <1>3, EffectTyped
<1>5. res' \in [Apps -> [Services -> Resource]]
  BY <1>1, <1>4 DEF Apply, Typed, TypeOK
<1>6. CASE Command(o) = "ACL SAVE"
  <2>1. Commands(o) \in Seq(OtherCommands) => Command(o) # "ACL SAVE"
    BY <1>1, CommandOfList DEF Command
  <2>2. o.service = "redis"
    BY <1>1, <1>6, <2>1, SavedByRedis DEF Commands
  <2>3. \A a \in Apps : res[a]["redis"].secrets \in SUBSET Nat
    BY <1>1, <2>2 DEF Typed, TypeOK, Resource
  <2>4. QED
    BY <1>6, <2>3, <1>5 DEF Apply, Users
<1>7. CASE Command(o) # "ACL SAVE"
  BY <1>5, <1>7 DEF Apply, Typed, TypeOK
<1>8. QED
  BY <1>5, <1>6, <1>7

LEMMA ExecTyped ==
  ASSUME Typed, NEW c \in Clients, ExecOk(c) \/ ExecFails(c)
  PROVE  Typed'
<1> DEFINE o == op[c]
<1>1. AtCommand(c) /\ WellFormed(o) /\ o.pc = "exec"
  BY DEF ExecOk, ExecFails, AtCommand, Typed
<1>2. Resources(o) \in Resource
  BY <1>1 DEF Resources, Typed, TypeOK, WellFormed, AtTarget
<1>3. CASE ExecOk(c)
  <2>1. PICK p \in AfterCommand(o, Resources(o)) : Become(c, p)
    BY <1>3 DEF ExecOk
  <2>2. WellFormed(p)
    BY <1>1, <1>2, <2>1, AfterCommandWellFormed
  <2>3. /\ Apply(o) /\ damaged' = damaged \ Settled(o)
        /\ noticed' = Noticing({})
        /\ UNCHANGED <<registry, requests>>
    BY <1>3 DEF ExecOk
  <2>4. noticed' \in SUBSET (Apps \X Services)
    BY <2>3, NoticingTyped
  <2>5. QED
    BY <1>1, <2>1, <2>2, <2>3, <2>4, ApplyTyped, BecomeTyped DEF Typed, TypeOK
<1>4. CASE ExecFails(c)
  <2>1. PICK p \in AfterFailure(o) : Become(c, p)
    BY <1>4 DEF ExecFails
  <2>2. WellFormed(p)
    BY <1>1, <1>2, <2>1, AfterFailureWellFormed
  <2>3. /\ Apply(o) \/ UNCHANGED <<res, aclFile>>
        /\ UNCHANGED <<registry, requests, damaged>>
    BY <1>4 DEF ExecFails
  <2>4. noticed' \in SUBSET (Apps \X Services)
    <3>1. <<o.target, o.service>> \in Apps \X Services
      BY <1>1 DEF WellFormed, AtTarget
    <3>2. PICK more \in SUBSET (Apps \X Services) : noticed' = Noticing(more)
      BY <1>4, <3>1 DEF ExecFails
    <3>3. QED
      BY <3>2, NoticingTyped
  <2>5. QED
    BY <1>1, <2>1, <2>2, <2>3, <2>4, ApplyTyped, BecomeTyped DEF Typed, TypeOK
<1>5. QED
  BY <1>3, <1>4

(* A saved copy is a registry, and the entries an add has not reached yet  *)
(* are still there.                                                        *)
LEMMA SavedTyped ==
  ASSUME NEW o \in Operation
  PROVE  /\ Saved(o) \in Registry
         /\ Working(o) /\ Provisioner(o) =>
              /\ [o EXCEPT !.loaded = Saved(o)] \in Operation
              /\ Working([o EXCEPT !.loaded = Saved(o)])
<1>1. o.loaded \in Registry /\ o.entry \in Entry
  BY DEF Operation
<1>2. Saved(o) \in Registry
  BY <1>1 DEF Saved, Registry
<1>3. [o EXCEPT !.loaded = Saved(o)] \in Operation
  BY <1>2 DEF Operation
<1>4. o.entry # None
  BY <1>1, NoneAssumption DEF Entry
<1>5. ASSUME Working(o), Provisioner(o)
      PROVE  Working([o EXCEPT !.loaded = Saved(o)])
  <2>1. Saved(o) = [o.loaded EXCEPT ![o.target] = o.entry]
    BY <1>5 DEF Saved, Provisioner
  <2>2. \A a \in Apps : o.loaded[a] # None => Saved(o)[a] # None
    BY <1>1, <1>4, <2>1 DEF Registry
  <2>3. o.targets \in SUBSET Apps
    BY DEF Operation
  <2> DEFINE saved == Saved(o)
  <2> HIDE DEF saved
  <2>4. Working([o EXCEPT !.loaded = saved])
    BY <1>5, <2>2, <2>3 DEF Working, Operation, saved
  <2>5. QED
    BY <2>4 DEF saved
<1>6. QED
  BY <1>2, <1>3, <1>5

LEMMA ProceedTyped ==
  ASSUME Typed, NEW c \in Clients, Proceed(c)
  PROVE  Typed'
<1> DEFINE o == op[c]
<1>1. o \in Operation /\ WellFormed(o)
  BY DEF Typed, WellFormed
<1>2. CASE CheckContainers(c)
  <2>1. Working(o)
    BY <1>1, <1>2 DEF CheckContainers, WellFormed
  <2>2. ASSUME NEW p \in NextTarget(o), Become(c, p) PROVE Typed'
    BY <1>1, <1>2, <2>1, <2>2, NextTargetWellFormed, BecomeTyped
       DEF CheckContainers, Typed, TypeOK
  <2>3. [o EXCEPT !.ok = FALSE] \in Operation
    BY <1>1 DEF Operation
  <2>4. ASSUME Become(c, Finish([o EXCEPT !.ok = FALSE])) PROVE Typed'
    BY <1>2, <2>3, <2>4, FinishWellFormed, BecomeTyped DEF CheckContainers, Typed, TypeOK
  <2>5. QED
    BY <1>2, <2>2, <2>4 DEF CheckContainers
<1>3. CASE ExecOk(c) \/ ExecFails(c)
  BY <1>3, ExecTyped
<1>4. CASE Save(c)
  <2>1. registry' \in Registry
    BY <1>1, <1>4, SavedTyped DEF Save
  <2>2. CASE Provisioner(o)
    <3>1. Working(o)
      BY <1>1, <1>4, <2>2 DEF Save, WellFormed, AtTarget, Provisioner
    <3>2. PICK p \in NextTarget([o EXCEPT !.loaded = Saved(o)]) : Become(c, p)
      BY <1>4, <2>2 DEF Save
    <3>3. WellFormed(p)
      BY <1>1, <2>2, <3>1, <3>2, SavedTyped, NextTargetWellFormed
    <3>4. QED
      BY <1>4, <2>1, <3>2, <3>3, BecomeTyped DEF Save, Typed, TypeOK
  <2>3. CASE ~Provisioner(o)
    BY <1>1, <1>4, <2>1, <2>3, FinishWellFormed, BecomeTyped DEF Save, Typed, TypeOK
  <2>4. QED
    BY <2>2, <2>3
<1>5. CASE SaveFails(c)
  <2>1. [o EXCEPT !.ok = FALSE] \in Operation
    BY <1>1 DEF Operation
  <2>2. Torn(o) \in SUBSET (Apps \X Services)
    BY <1>1, TornTyped
  <2>3. noticed' \in SUBSET (Apps \X Services)
    BY <1>1, <1>5, InHandTyped, NoticingTyped DEF SaveFails
  <2>4. QED
    BY <1>5, <2>1, <2>2, <2>3, FinishWellFormed, BecomeTyped DEF SaveFails, Typed, TypeOK
<1>6. CASE Return(c)
  BY <1>6, IdleWellFormed, BecomeTyped DEF Return, Typed, TypeOK
<1>7. QED
  BY <1>2, <1>3, <1>4, <1>5, <1>6 DEF Proceed

LEMMA OutsideTyped ==
  ASSUME Typed,
         \/ \E c \in Clients : Crash(c)
         \/ \E s \in Services : Wipe(s)
         \/ RestartRedis
  PROVE  Typed'
<1>1. Blank \in Resource
  BY DEF Blank, Resource
<1>2. ASSUME Disturb
      PROVE  op' \in [Clients -> Operation] /\ \A d \in Clients : WellFormed(op'[d])
  <2>1. ASSUME NEW o, WellFormed(o) PROVE WellFormed([o EXCEPT !.quiet = FALSE])
    <3> DEFINE p == [o EXCEPT !.quiet = FALSE]
    <3>1. p \in Operation
      BY <2>1 DEF WellFormed, Operation
    <3>2. Commands(p) = Commands(o)
      BY <2>1 DEF WellFormed, Operation, Commands, Provisioner
    <3>3. QED
      BY <2>1, <3>1, <3>2 DEF WellFormed, Operation, AtTarget, Working
  <2>2. \A d \in Clients : WellFormed(op'[d])
    BY <1>2, <2>1 DEF Disturb, Typed
  <2>3. QED
    BY <1>2, <2>2 DEF Disturb, WellFormed
<1>3. ASSUME NEW c \in Clients, Crash(c) PROVE Typed'
  <2>1. WellFormed(op[c])
    BY DEF Typed
  <2>2. noticed' \in SUBSET (Apps \X Services)
    BY <1>3, <2>1, InHandTyped, NoticingTyped DEF Crash
  <2>3. QED
    BY <1>3, <2>1, <2>2, IdleWellFormed, TornTyped, BecomeTyped DEF Crash, Typed, TypeOK
<1>4. ASSUME NEW s \in Services, Wipe(s) PROVE Typed'
  <2>1. res' \in [Apps -> [Services -> Resource]]
    BY <1>1, <1>4 DEF Wipe, Typed, TypeOK
  <2>2. aclFile' \in [Apps -> SUBSET Nat]
    BY <1>4 DEF Wipe, Typed, TypeOK
  <2>3. damaged' \in SUBSET (Apps \X Services)
    BY <1>4 DEF Wipe, Typed, TypeOK
  <2>4. noticed' \in SUBSET (Apps \X Services)
    BY <1>4, NoticingTyped DEF Wipe
  <2>5. QED
    BY <1>2, <1>4, <2>1, <2>2, <2>3, <2>4 DEF Wipe, Typed, TypeOK
<1>5. CASE RestartRedis
  <2>1. \A a \in Apps :
          [Blank EXCEPT !.secrets = aclFile[a], !.granted = (aclFile[a] # {})] \in Resource
    <3> SUFFICES ASSUME NEW a \in Apps
                 PROVE  [Blank EXCEPT !.secrets = aclFile[a],
                                      !.granted = (aclFile[a] # {})] \in Resource
      OBVIOUS
    <3> DEFINE granted == aclFile[a] # {}
    <3>1. granted \in BOOLEAN /\ aclFile[a] \in SUBSET Nat
      BY DEF Typed, TypeOK
    <3> HIDE DEF granted
    <3>2. [Blank EXCEPT !.secrets = aclFile[a], !.granted = granted] \in Resource
      BY <1>1, <3>1 DEF Resource
    <3>3. QED
      BY <3>2 DEF granted
  <2>2. res' \in [Apps -> [Services -> Resource]]
    BY <1>5, <2>1 DEF RestartRedis, Typed, TypeOK
  <2>3. /\ damaged' \in SUBSET (Apps \X Services)
        /\ noticed' \in SUBSET (Apps \X Services)
    <3> DEFINE hit == {a \in Apps : WorkedOn(a, "redis")}
    <3>1. hit \subseteq Apps
      OBVIOUS
    <3>2. /\ "redis" \in Services
          /\ damaged' = damaged \cup {<<a, "redis">> : a \in hit}
          /\ noticed' = Noticing({<<a, "redis">> : a \in hit})
      BY <1>5 DEF RestartRedis
    <3> HIDE DEF hit
    <3>3. {<<a, "redis">> : a \in hit} \in SUBSET (Apps \X Services)
      BY <3>1, <3>2
    <3>4. QED
      BY <3>2, <3>3, NoticingTyped DEF Typed, TypeOK
  <2>4. QED
    BY <1>2, <1>5, <2>2, <2>3 DEF RestartRedis, Typed, TypeOK
<1>6. QED
  BY <1>3, <1>4, <1>5

LEMMA TypedNext == Typed /\ [Next]_vars => Typed'
<1> SUFFICES ASSUME Typed, [Next]_vars PROVE Typed'
  OBVIOUS
<1>1. CASE UNCHANGED vars
  BY <1>1 DEF vars, Typed, TypeOK
<1>2. CASE Next
  BY <1>2, BeginTyped, ProceedTyped, OutsideTyped DEF Next
<1>3. QED
  BY <1>1, <1>2

(***************************************************************************)
(* Every variable of the engine keeps its type, for any apps, services,    *)
(* clients and requests, whatever fails, crashes or is lost: in particular *)
(* no operation reads an entry that is not there, runs a command past the  *)
(* last one or saves anything but a registry.                              *)
(***************************************************************************)
THEOREM ProvisioningTypeOK == Spec => []TypeOK
<1>1. Spec => []Typed
  BY TypedInit, TypedNext, PTL DEF Spec
<1>2. Typed => TypeOK
  BY DEF Typed
<1>3. QED
  BY <1>1, <1>2, PTL

=============================================================================
