---------------------------- MODULE Provisioning ----------------------------
(***************************************************************************)
(* The provisioning engine (internal/shelfcore) over the app registry      *)
(* (internal/registry) and the backing services (internal/services).       *)
(*                                                                         *)
(* A client is one command of the CLI, one request of the web app or the   *)
(* reconcile job of docker-compose.yml: each constructs its own Engine and *)
(* nothing locks the registry.  An operation loads the whole registry once,*)
(* runs its docker exec commands one at a time, and saves the whole copy   *)
(* it loaded.  Every docker exec, every load and every save is a step, so  *)
(* the steps of two clients interleave.                                    *)
(*                                                                         *)
(* Here a save replaces the registry in one step: module RegistryFile      *)
(* looks inside it.                                                        *)
(***************************************************************************)
EXTENDS ServiceCommands, FiniteSets

CONSTANTS
  Apps,         \* names of apps, siblings <app>-<env> included
  Services,     \* the services that requests name
  Clients,      \* the processes and handlers that run an Engine
  Kinds,        \* the operations they issue
  MaxRequests,  \* bound on the requests that generate secrets (setup, add)
  ExecMayFail,  \* commands, container checks and saves may report an error
  MayCrash,     \* a client may be killed between two steps
  MayLose,      \* a volume may be wiped, redis may be restarted
  None          \* no entry, no app, no service

AllKinds == {"setup", "add", "remove", "detach", "reconcile", "encrypt"}

ASSUME ServicesAssumption == Services \subseteq AllServices
ASSUME KindsAssumption == Kinds \subseteq AllKinds
ASSUME FlagsAssumption ==
  ExecMayFail \in BOOLEAN /\ MayCrash \in BOOLEAN /\ MayLose \in BOOLEAN
ASSUME NoneAssumption ==
  /\ None \notin Apps
  /\ None \notin Services
  /\ None \notin [Services -> Nat]
ASSUME MaxRequestsAssumption == MaxRequests \in Nat

VARIABLES
  registry,  \* apps.json: app -> its entry, None when it has none
  res,       \* the live resource of each app in each service
  aclFile,   \* users.acl of redis: app -> the secrets that were saved
  op,        \* client -> the operation it is running
  requests,  \* number of requests that generated secrets so far
  damaged,   \* history: <<app, service>> that lost its resource to a wipe,
             \* a restart in the middle of its commands or a removal that
             \* never reached its save
  noticed    \* history: <<app, service>> with something left in it, of which
             \* a command or a save reported an error, or whose operation was
             \* killed or met a restart of redis

vars == <<registry, res, aclFile, op, requests, damaged, noticed>>

(***************************************************************************)
(* An AppEntry has one pointer per service: the number of the request that *)
(* generated the secret it holds, NoConfig when it is nil.                 *)
(***************************************************************************)
NoConfig == 0
Entry == [Services -> Nat]
EmptyEntry == [s \in Services |-> NoConfig]
Registry == [Apps -> Entry \cup {None}]
EmptyRegistry == [a \in Apps |-> None]

Registered(a, s) == registry[a] # None /\ registry[a][s] # NoConfig

(***************************************************************************)
(* A client's operation: the copy of the registry it loaded, the targets   *)
(* it has not reached, and for the current target the entry it builds, the *)
(* services still to do and the next command of the current one.           *)
(***************************************************************************)
Operation ==
  [pc       : {"idle", "check", "exec", "save", "done"},
   kind     : AllKinds \cup {None},
   loaded   : Registry,
   services : SUBSET Services,         \* named in the request
   request  : SUBSET Apps,             \* targets of the request
   targets  : SUBSET Apps,             \* targets not reached yet
   target   : Apps \cup {None},
   entry    : Entry,
   todo     : SUBSET Services,         \* services of the target not reached yet
   service  : Services \cup {None},
   step     : Nat,                     \* next command of the service
   seen     : BOOLEAN,                 \* answer of Ensure's last list command
   id       : Nat,                     \* the secret Provision generates
   ok       : BOOLEAN,                 \* no error reported so far
   quiet    : BOOLEAN]                 \* history: nothing lost since the load

Idle ==
  [pc |-> "idle", kind |-> None, loaded |-> EmptyRegistry, services |-> {},
   request |-> {}, targets |-> {}, target |-> None, entry |-> EmptyEntry,
   todo |-> {}, service |-> None, step |-> 1, seen |-> FALSE, id |-> 0,
   ok |-> TRUE, quiet |-> TRUE]

Provisioner(o) == o.kind \in {"setup", "add"}

(* The services the operation handles on a target, from the loaded copy.   *)
Pending(o, a) ==
  CASE o.kind = "setup"     -> o.services
    [] o.kind = "add"       -> {s \in o.services : o.loaded[a][s] = NoConfig}
    [] o.kind = "remove"    -> {s \in Services : o.loaded[a][s] # NoConfig}
    [] o.kind = "reconcile" -> {s \in ensured \cap Services : o.loaded[a][s] # NoConfig}
    [] OTHER                -> {}

(* The operation is over: it keeps its request and its result.             *)
Finish(o) ==
  [Idle EXCEPT !.pc = "done", !.kind = o.kind, !.loaded = o.loaded, !.services = o.services,
               !.request = o.request, !.id = o.id, !.ok = o.ok, !.quiet = o.quiet]

(***************************************************************************)
(* Between two commands an operation only touches its own memory, so what  *)
(* it does there belongs to the step before.  These operators give the     *)
(* records it may continue with.  The services of a request come in the    *)
(* order the user gave, the targets in that of --envs: any order.  Remove  *)
(* follows orderedServices; Ensure does rabbitmq before mongodb.           *)
(***************************************************************************)
NextService(o) ==
  {[o EXCEPT !.pc = "exec", !.service = s, !.todo = @ \ {s}, !.step = 1, !.seen = FALSE] :
     s \in {s \in o.todo : Provisioner(o) \/ \A t \in o.todo : ~Before(t, s)}}

(* A target that is set up starts with an empty entry.                     *)
Enter(o, a) ==
  [o EXCEPT !.target = a, !.targets = @ \ {a}, !.todo = Pending(o, a),
            !.entry = IF o.kind = "setup" THEN EmptyEntry ELSE o.loaded[a]]

NextTarget(o) ==
  IF o.targets = {}
  THEN {Finish(o)}
  ELSE UNION {NextService(Enter(o, a)) : a \in o.targets}

AfterService(o) ==
  IF o.todo # {} THEN NextService(o)
  ELSE IF o.kind = "reconcile" THEN NextTarget(o)
  ELSE {[o EXCEPT !.pc = "save"]}

Commands(o) ==
  CASE Provisioner(o)    -> Provision(o.service)
    [] o.kind = "remove" -> Teardown(o.service)
    [] OTHER             -> Ensure(o.service)

Command(o) == Commands(o)[o.step]
LastCommand(o) == o.step = Len(Commands(o))

(* Provision uses the secret it generated, Ensure the one in its copy.     *)
Secret(o) == IF Provisioner(o) THEN o.id ELSE o.loaded[o.target][o.service]

(* After a command that did not fail: setServiceConfig follows the last    *)
(* one of a Provision.                                                     *)
AfterCommand(o, r) ==
  IF ~LastCommand(o)
  THEN {[o EXCEPT !.step = @ + 1, !.seen = Seen(Command(o), r, o.seen)]}
  ELSE AfterService(IF Provisioner(o) THEN [o EXCEPT !.entry[o.service] = o.id] ELSE o)

-----------------------------------------------------------------------------
Init ==
  /\ registry = EmptyRegistry
  /\ res = [a \in Apps |-> [s \in Services |-> Blank]]
  /\ aclFile = [a \in Apps |-> {}]
  /\ op = [c \in Clients |-> Idle]
  /\ requests = 0
  /\ damaged = {}
  /\ noticed = {}

Become(c, o) == op' = [op EXCEPT ![c] = o]

(* A client may take a request of this kind.                               *)
Free(c, kind) ==
  /\ kind \in Kinds
  /\ op[c].pc = "idle"

(* Mutant.                                                                 *)
SomeAbsent(T) == \E a \in T : registry[a] = None
AllAbsent(T) == \A a \in T : registry[a] = None

(* SetupApp: every target must be absent from the loaded registry.         *)
BeginSetup(c) ==
  \E T \in (SUBSET Apps) \ {{}}, S \in (SUBSET Services) \ {{}} :
    /\ Free(c, "setup")
    /\ requests < MaxRequests
    /\ AllAbsent(T)
    /\ requests' = requests + 1
    /\ Become(c, [Idle EXCEPT !.pc = "check", !.kind = "setup", !.loaded = registry,
                              !.services = S, !.request = T, !.targets = T,
                              !.id = requests + 1])
    /\ UNCHANGED <<registry, res, aclFile, damaged, noticed>>

(* AddServices: every target must be present; a target that has all the    *)
(* services already is passed over without a save.                         *)
BeginAdd(c) ==
  \E T \in (SUBSET Apps) \ {{}}, S \in (SUBSET Services) \ {{}} :
    /\ Free(c, "add")
    /\ requests < MaxRequests
    /\ \A a \in T : registry[a] # None
    /\ requests' = requests + 1
    /\ Become(c, [Idle EXCEPT
         !.pc = "check", !.kind = "add", !.loaded = registry, !.services = S,
         !.request = T, !.id = requests + 1,
         !.targets = {a \in T : \E s \in S : registry[a][s] = NoConfig}])
    /\ UNCHANGED <<registry, res, aclFile, damaged, noticed>>

(* containerCheck of SetupApp and AddServices.                             *)
CheckContainers(c) ==
  /\ op[c].pc = "check"
  /\ \/ \E o \in NextTarget(op[c]) : Become(c, o)
     \/ ExecMayFail /\ Become(c, Finish([op[c] EXCEPT !.ok = FALSE]))
  /\ UNCHANGED <<registry, res, aclFile, requests, damaged, noticed>>

BeginRemove(c) ==
  \E a \in Apps :
    /\ Free(c, "remove")
    /\ registry[a] # None
    /\ LET o == [Idle EXCEPT !.kind = "remove", !.loaded = registry, !.request = {a}]
       IN  /\ \E p \in AfterService(Enter(o, a)) : Become(c, p)
         /\ noticed' = noticed \ ({a} \X Pending(o, a))
    /\ UNCHANGED <<registry, res, aclFile, requests, damaged>>

(* DetachServices: signoz has nothing to tear down; the entry is saved     *)
(* even when the addon was not attached.                                   *)
BeginDetach(c) ==
  \E a \in Apps, S \in (SUBSET (Services \cap detachable)) \ {{}} :
    /\ Free(c, "detach")
    /\ registry[a] # None
    /\ Become(c, [Idle EXCEPT
         !.pc = "save", !.kind = "detach", !.loaded = registry, !.services = S,
         !.request = {a}, !.target = a,
         !.entry = [s \in Services |-> IF s \in S THEN NoConfig ELSE registry[a][s]]])
    /\ UNCHANGED <<registry, res, aclFile, requests, damaged, noticed>>

(* Reconcile visits the apps of the loaded registry that have a service it *)
(* has an Ensure for, in some order of their names.                        *)
BeginReconcile(c) ==
  /\ Free(c, "reconcile")
  /\ LET o == [Idle EXCEPT !.kind = "reconcile", !.loaded = registry,
                           !.request = {a \in Apps : registry[a] # None}]
     IN  \E p \in NextTarget([o EXCEPT !.targets = {a \in o.request : Pending(o, a) # {}}]) :
           Become(c, p)
  /\ UNCHANGED <<registry, res, aclFile, requests, damaged, noticed>>

(* EncryptInPlace rewrites what it read.                                   *)
BeginEncrypt(c) ==
  /\ Free(c, "encrypt")
  /\ Become(c, [Idle EXCEPT !.pc = "save", !.kind = "encrypt", !.loaded = registry])
  /\ UNCHANGED <<registry, res, aclFile, requests, damaged, noticed>>

-----------------------------------------------------------------------------
(* The next command of the current service.                                *)
AtCommand(c) == op[c].pc = "exec"

Resources(o) == res[o.target][o.service]

(* The users ACL SAVE writes.                                              *)
Users == [a \in Apps |-> res[a]["redis"].secrets]

(* Something of an app is left in a service, in memory (R) or on file (F). *)
Remains(R, F, a, s) == R[a][s] # Blank \/ (s = "redis" /\ F[a] # {})

(* The services in which a removal reports whatever goes wrong.            *)
Heeded == IF ExecMayFail THEN Services \ Discarding ELSE Services

(* What is noticed in them after a step in which more is.                  *)
Noticing(more) ==
  {p \in noticed \cup more : p[2] \in Heeded /\ Remains(res', aclFile', p[1], p[2])}

Apply(o) ==
  /\ Accepts(Command(o), Resources(o), o.seen)
  /\ res' = [res EXCEPT ![o.target][o.service] =
                           Effect(Command(o), @, Secret(o), o.seen)]
  /\ aclFile' = IF Command(o) = "ACL SAVE" THEN Users ELSE aclFile

(* Starting a Provision or completing an Ensure settles earlier damage.    *)
Settled(o) ==
  IF \/ Provisioner(o) /\ o.step = 1
     \/ o.kind = "reconcile" /\ LastCommand(o)
  THEN {<<o.target, o.service>>} ELSE {}

ExecOk(c) ==
  LET o == op[c] IN
  /\ AtCommand(c)
  /\ Apply(o)
  /\ \E p \in AfterCommand(o, Resources(o)) : Become(c, p)
  /\ damaged' = damaged \ Settled(o)
  /\ noticed' = Noticing({})
  /\ UNCHANGED <<registry, requests>>

(* After a failed command the service is given up and the failure noted,   *)
(* but a Teardown goes on after a command whose error it discards.         *)
(* Two mutants first.                                                      *)
FailureSwallowed(o) == o
FailureIgnored(o) == AfterCommand([o EXCEPT !.ok = FALSE], Resources(o))
Failed(o) == [o EXCEPT !.ok = FALSE]
Discards(o) == o.kind = "remove" /\ Command(o) \in BestEffort
AfterFailure(o) ==
  IF Discards(o)
  THEN AfterCommand(o, Resources(o))
  ELSE AfterService(Failed(o))

(* The command reports an error: the service refused it, or docker exec    *)
(* failed before or after the command took effect.                         *)
ExecFails(c) ==
  LET o == op[c] IN
  /\ AtCommand(c)
  /\ \/ ~Accepts(Command(o), Resources(o), o.seen) /\ UNCHANGED <<res, aclFile>>
     \/ ExecMayFail /\ Fallible(Command(o), o.seen) /\ UNCHANGED <<res, aclFile>>
     \/ ExecMayFail /\ Fallible(Command(o), o.seen) /\ Apply(o)
  /\ \E p \in AfterFailure(o) : Become(c, p)
  /\ noticed' =
       Noticing(IF Discards(o) \/ op'[c].ok THEN {} ELSE {<<o.target, o.service>>})
  /\ UNCHANGED <<registry, requests, damaged>>

(* Resources of a removal that was under way.                              *)
Torn(o) ==
  IF o.kind = "remove" /\ o.pc \in {"exec", "save"}
  THEN {o.target} \X (Pending(o, o.target) \ o.todo) ELSE {}

(* What an operation that ends early had in hand: a setup or add what its  *)
(* target does not have in the registry, a removal what it has torn at.    *)
InHand(o) ==
  IF Provisioner(o) /\ o.pc \in {"exec", "save"}
  THEN {o.target} \X {s \in Services : ~Registered(o.target, s)}
  ELSE Torn(o)

(* The registry an operation saves; a mutant first.                        *)
SavedAlone(o) ==
  [EmptyRegistry EXCEPT ![o.target] = IF o.kind = "remove" THEN None ELSE o.entry]
Saved(o) ==
  CASE o.kind = "remove"  -> [o.loaded EXCEPT ![o.target] = None]
    [] o.kind = "encrypt" -> o.loaded
    [] OTHER              -> [o.loaded EXCEPT ![o.target] = o.entry]

(* Store.Save of the operation's copy.  Setup and add save after every     *)
(* target and go on to the next with the copy they saved.                  *)
Save(c) ==
  LET o == op[c] IN
  /\ o.pc = "save"
  /\ registry' = Saved(o)
  /\ IF Provisioner(o)
     THEN \E p \in NextTarget([o EXCEPT !.loaded = Saved(o)]) : Become(c, p)
     ELSE Become(c, Finish(o))
  /\ UNCHANGED <<res, aclFile, requests, damaged, noticed>>

SaveFails(c) ==
  /\ ExecMayFail
  /\ op[c].pc = "save"
  /\ Become(c, Finish([op[c] EXCEPT !.ok = FALSE]))
  /\ damaged' = damaged \cup Torn(op[c])
  /\ UNCHANGED <<registry, res, aclFile, requests>>
  /\ noticed' = Noticing(InHand(op[c]))

(* The operation reports to its caller.                                    *)
Return(c) ==
  /\ op[c].pc = "done"
  /\ Become(c, Idle)
  /\ UNCHANGED <<registry, res, aclFile, requests, damaged, noticed>>

-----------------------------------------------------------------------------
(* The client's process is killed.                                         *)
Crash(c) ==
  /\ MayCrash
  /\ op[c].pc \notin {"idle", "done"}
  /\ Become(c, Idle)
  /\ damaged' = damaged \cup Torn(op[c])
  /\ UNCHANGED <<registry, res, aclFile, requests>>
  /\ noticed' = Noticing(InHand(op[c]))

Disturb == op' = [c \in Clients |-> IF op[c].pc = "idle" THEN op[c]
                                    ELSE [op[c] EXCEPT !.quiet = FALSE]]

(* The data volume of a service is lost.                                   *)
Wipe(s) ==
  /\ MayLose
  /\ \E a \in Apps : res[a][s] # Blank
  /\ res' = [a \in Apps |-> [res[a] EXCEPT ![s] = Blank]]
  /\ aclFile' = IF s = "redis" THEN [a \in Apps |-> {}] ELSE aclFile
  /\ damaged' = damaged \cup {<<a, s>> : a \in {a \in Apps : res[a][s] # Blank}}
  /\ noticed' = Noticing({})
  /\ Disturb
  /\ UNCHANGED <<registry, requests>>

(* The redis container restarts and reads its users from users.acl.  That   *)
(* is no damage but to an account an operation is just working on: what is  *)
(* registered has been saved.                                               *)
WorkedOn(a, s) ==
  \E c \in Clients : op[c].pc = "exec" /\ op[c].target = a /\ op[c].service = s

RestartRedis ==
  /\ MayLose
  /\ "redis" \in Services
  /\ \E a \in Apps : res[a]["redis"].secrets # aclFile[a]
  /\ res' = [a \in Apps |-> [res[a] EXCEPT !["redis"] =
                [Blank EXCEPT !.secrets = aclFile[a], !.granted = (aclFile[a] # {})]]]
  /\ UNCHANGED <<registry, aclFile, requests>>
  /\ LET interrupted == {<<a, "redis">> : a \in {a \in Apps : WorkedOn(a, "redis")}}
     IN  damaged' = damaged \cup interrupted /\ noticed' = Noticing(interrupted)
  /\ Disturb

-----------------------------------------------------------------------------
Begin(c) ==
  \/ BeginSetup(c) \/ BeginAdd(c) \/ BeginRemove(c)
  \/ BeginDetach(c) \/ BeginReconcile(c) \/ BeginEncrypt(c)

Proceed(c) ==
  \/ CheckContainers(c) \/ ExecOk(c) \/ ExecFails(c)
  \/ Save(c) \/ SaveFails(c) \/ Return(c)

Next ==
  \/ \E c \in Clients : Begin(c) \/ Proceed(c) \/ Crash(c)
  \/ \E s \in Services : Wipe(s)
  \/ RestartRedis

Spec == Init /\ [][Next]_vars

-----------------------------------------------------------------------------
TypeOK ==
  /\ registry \in Registry
  /\ res \in [Apps -> [Services -> Resource]]
  /\ aclFile \in [Apps -> SUBSET Nat]
  /\ op \in [Clients -> Operation]
  /\ requests \in Nat
  /\ damaged \in SUBSET (Apps \X Services)
  /\ noticed \in SUBSET (Apps \X Services)

BeingRemoved(a) ==
  \E c \in Clients : op[c].kind = "remove" /\ op[c].target = a
                     /\ op[c].pc \in {"exec", "save"}

(***************************************************************************)
(* The registry is the source of truth: every credential it lists opens    *)
(* the live resource, whatever failed or was interrupted before and        *)
(* however often redis restarted since, unless the resource was destroyed  *)
(* from outside and not ensured since, or a removal of the app has begun.  *)
(***************************************************************************)
RegisteredUsable ==
  \A a \in Apps, s \in Services :
    Registered(a, s) =>
      \/ Usable(s, res[a][s], registry[a][s])
      \/ <<a, s>> \in damaged
      \/ BeingRemoved(a)

(***************************************************************************)
(* A setup or add whose TargetResults name no failure has registered every *)
(* service of the request on every target, and each credential works (the  *)
(* page that creates an app does not show the failures).                   *)
(***************************************************************************)
SetupDelivers ==
  \A c \in Clients :
    op[c].pc = "done" /\ op[c].kind \in {"setup", "add"} /\ op[c].ok =>
      \A a \in op[c].request, s \in op[c].services :
        /\ Registered(a, s)
        /\ <<a, s>> \notin damaged => Usable(s, res[a][s], registry[a][s])

(***************************************************************************)
(* A Reconcile that reports no failure, with nothing lost meanwhile, has   *)
(* restored every rabbitmq and mongodb credential of the registry, however *)
(* many volumes were lost before it.                                       *)
(***************************************************************************)
ReconcileRestores ==
  \A c \in Clients :
    op[c].pc = "done" /\ op[c].kind = "reconcile" /\ op[c].ok /\ op[c].quiet =>
      \A a \in Apps, s \in Services \cap {"rabbitmq", "mongodb"} :
        Registered(a, s) => Usable(s, res[a][s], registry[a][s])

(***************************************************************************)
(* When nothing fails and no operation is under way, every account and     *)
(* every database, vhost or bucket belongs to a registered service: no     *)
(* update of the registry was lost and none of its resources leaked.       *)
(***************************************************************************)
NoOrphans ==
  (\A c \in Clients : op[c].pc \in {"idle", "done"}) =>
    \A a \in Apps, s \in Services : res[a][s] # Blank => Registered(a, s)

(***************************************************************************)
(* A removal that reported no error, with nothing lost meanwhile, left     *)
(* nothing behind in the services its entry listed, not even in users.acl, *)
(* from which a redis restart would bring it back.  What an earlier setup  *)
(* that failed left in other services stays, and where commands may fail   *)
(* so may what rabbitmq, aistor and mongodb refuse to delete.              *)
(***************************************************************************)
RemoveCleans ==
  \A c \in Clients :
    op[c].pc = "done" /\ op[c].kind = "remove" /\ op[c].ok /\ op[c].quiet =>
      \A a \in op[c].request, s \in Heeded :
        op[c].loaded[a][s] # NoConfig => ~Remains(res, aclFile, a, s)

(***************************************************************************)
(* Nothing leaks in silence: what is left of an app in a service its entry *)
(* does not list, while no operation is at work on the app, is there       *)
(* because an operation reported a failure of that very service, or was    *)
(* killed, failed to save its registry or met a restart of redis           *)
(* ("leftover resources can be cleaned up manually", remove.go: somebody   *)
(* has to know of them).  It holds over any number of setups, adds and     *)
(* removals that meet the leftovers of others; the services in which a     *)
(* removal discards errors are left out where commands may fail.           *)
(***************************************************************************)
LeaksAreNoticed ==
  \A a \in Apps, s \in Heeded :
    Remains(res, aclFile, a, s) =>
      \/ Registered(a, s)
      \/ <<a, s>> \in noticed
      \/ \E c \in Clients : op[c].target = a /\ op[c].pc \in {"exec", "save"}

(***************************************************************************)
(* The secret of an exclusive account: two clients never hold registered   *)
(* credentials one of which the other's provisioning invalidated.  While   *)
(* apps are only set up, extended and reconciled, every registered         *)
(* credential works under any interleaving; aistor is excluded, whose user *)
(* add replaces the secret of a concurrent setup.                          *)
(***************************************************************************)
ConcurrentSetupsUsable ==
  \A a \in Apps, s \in Services \ {"aistor"} :
    Registered(a, s) => Usable(s, res[a][s], registry[a][s])

(***************************************************************************)
(* A step changes the entry of at most one app, that of the operation that *)
(* takes it: saving a whole copy never carries another app's entry back.   *)
(***************************************************************************)
OnlyTargetChanges ==
  [][\A a \in Apps : registry'[a] # registry[a] =>
       \E c \in Clients : op[c].pc = "save" /\ op[c].target = a]_vars

(***************************************************************************)
(* SetupApp fails fast when a target exists, so it never replaces an entry *)
(* ("if any target already exists ... nothing is mutated", setup.go).      *)
(***************************************************************************)
SetupNeverReplaces ==
  [][\A c \in Clients :
       op[c].kind = "setup" /\ op[c].pc = "save" /\ registry' # registry
         /\ op'[c].pc # "save"
       => registry[op[c].target] = None]_vars

(***************************************************************************)
(* The engine implements AtomicShelf for one client: whatever its commands *)
(* do in between, an app's services appear only in the saves of its setup  *)
(* and adds, a credential that works stops working only by the removal of  *)
(* the app or the loss of a volume, and only a reconcile or a restart of   *)
(* redis makes one work again ("the source of truth for provisioned        *)
(* state", docs/ARCHITECTURE.md).                                          *)
(***************************************************************************)
Condition(a, s) ==
  IF ~Registered(a, s) THEN "off"
  ELSE IF Usable(s, res[a][s], registry[a][s]) THEN "works"
  ELSE IF <<a, s>> \in damaged THEN "damaged" ELSE "closed"

Present == {a \in Apps : registry[a] # None}
Conditions == [a \in Apps |-> [s \in Services |-> Condition(a, s)]]
Leaving == {a \in Apps : BeingRemoved(a)}

Shelf == INSTANCE AtomicShelf WITH
  present <- Present, shelf <- Conditions, leaving <- Leaving,
  Addons <- detachable, Reloaded <- {"redis"}

ShelfSpec == Shelf!Spec

=============================================================================
