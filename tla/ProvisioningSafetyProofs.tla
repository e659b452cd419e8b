----------------------- MODULE ProvisioningSafetyProofs -----------------------
(***************************************************************************)
(* What Provisioning guarantees whoever runs one command at a time         *)
(* (OneClient), for any apps, services and number of requests, and what    *)
(* survives when clients interleave.                                       *)
(*                                                                         *)
(* The predicates below are about one operation o and the state it works   *)
(* on: the registry G, the resources R, users.acl F and the damage D.      *)
(***************************************************************************)
EXTENDS ProvisioningProofs

OneClient == \E c : Clients = {c}

(* The registry G lists the app's service.                                 *)
Lists(G, a, s) == G[a] # None /\ G[a][s] # NoConfig

(***************************************************************************)
(* Alone, an operation works on a copy that is the registry.  A setup      *)
(* finds its targets absent; what it or an add still has to provision is   *)
(* not in the entry it builds, and all that was listed is.                 *)
(***************************************************************************)
Ahead(o, G) ==
  /\ o.loaded = G
  /\ Provisioner(o) => o.id # NoConfig
  /\ o.kind = "setup" => \A a \in o.targets : G[a] = None

AtHand(o, G) ==
  /\ Ahead(o, G)
  /\ o.target \notin o.targets
  /\ o.todo \subseteq Pending(o, o.target)
  /\ o.kind = "setup" => G[o.target] = None
  /\ Provisioner(o) =>
       /\ \A s \in o.todo : o.entry[s] = NoConfig
       /\ \A s \in Services : Lists(G, o.target, s) => o.entry[s] = G[o.target][s]

Detaching(o, G) ==
  /\ o.loaded = G
  /\ o.target \in Apps /\ G[o.target] # None
  /\ \A s \in Services : o.entry[s] # NoConfig => o.entry[s] = G[o.target][s]
  /\ \A s \in Services \ detachable : o.entry[s] = G[o.target][s]

Saving(o, G) ==
  \/ o.kind \in {"setup", "add", "remove"} /\ AtHand(o, G) /\ o.todo = {}
  \/ o.kind = "detach" /\ Detaching(o, G)
  \/ o.kind = "encrypt" /\ o.loaded = G

Course(o, G) ==
  /\ o.pc = "check" => Provisioner(o) /\ Ahead(o, G)
  /\ o.pc = "exec" => /\ AtHand(o, G)
                      /\ o.service \in Pending(o, o.target) \ o.todo
                      /\ Provisioner(o) => o.entry[o.service] = NoConfig
  /\ o.pc = "save" => Saving(o, G)

(***************************************************************************)
(* A credential is sound when it works and would still work after a        *)
(* restart of redis.  What the registry lists is sound or damaged, or the  *)
(* removal under way has come to it; what a setup or add has entered is    *)
(* sound or damaged.                                                       *)
(***************************************************************************)
Sound(s, secret, r, saved) ==
  Usable(s, r, secret) /\ (s = "redis" => secret \in saved)

Fine(a, s, secret, R, F, D) ==
  <<a, s>> \in D \/ Sound(s, secret, R[a][s], F[a])

Kept(o, G, R, F, D) ==
  \A a \in Apps, s \in Services : Lists(G, a, s) =>
    <<a, s>> \in Torn(o) \/ Fine(a, s, G[a][s], R, F, D)

Built(o, R, F, D) ==
  \A s \in Services : o.entry[s] # NoConfig => Fine(o.target, s, o.entry[s], R, F, D)

(* What the commands of a Provision before the next one have done.         *)
HalfProvisioned(s, step, secret, r) ==
  /\ s \in HasStore /\ step > 1 => r.store
  /\ s \in HasStore /\ step > 2 => secret \in r.secrets
  /\ s = "redis" /\ step > 1 => secret \in r.secrets /\ r.granted
  /\ s = "rabbitmq" /\ step > 3 => r.granted

(* Those of an Ensure, which a wiped volume stops at the next grant.       *)
HalfEnsured(s, step, secret, r) ==
  s = "rabbitmq" =>
    /\ step = 5 => secret \in r.secrets \/ ~r.store
    /\ step = 6 => Usable(s, r, secret) \/ r.secrets = {}

Stage(o, R, D) ==
  LET r == R[o.target][o.service]
  IN  /\ Provisioner(o) => \/ <<o.target, o.service>> \in D
                           \/ HalfProvisioned(o.service, o.step, o.id, r)
      /\ o.kind = "reconcile" => HalfEnsured(o.service, o.step, Secret(o), r)

OnTrack(o, R, F, D) ==
  /\ Provisioner(o) /\ o.pc \in {"exec", "save"} => Built(o, R, F, D)
  /\ o.pc = "exec" => Stage(o, R, D)

Steady(o, G, R, F, D) == Kept(o, G, R, F, D) /\ OnTrack(o, R, F, D)

(***************************************************************************)
(* While no error was reported, what a setup or add is asked for is left   *)
(* to do, entered or registered, and what a reconcile is to ensure is left *)
(* to do or works.                                                         *)
(***************************************************************************)
Left(o, a, s) ==
  \/ o.pc \in {"check", "exec", "save"} /\ a \in o.targets
  \/ o.pc \in {"exec", "save"} /\ a = o.target /\ s \in o.todo
  \/ o.pc = "exec" /\ a = o.target /\ s = o.service

Delivering(o, G) ==
  Provisioner(o) /\ o.ok =>
    \A a \in o.request, s \in o.services :
      \/ Left(o, a, s)
      \/ a = o.target /\ o.pc \in {"exec", "save"} /\ o.entry[s] # NoConfig
      \/ Lists(G, a, s)

Ensured(o, G, R) ==
  o.kind = "reconcile" /\ o.pc # "idle" /\ o.ok /\ o.quiet =>
    \A a \in Apps, s \in Services \cap ensured :
      Lists(G, a, s) => Left(o, a, s) \/ Usable(s, R[a][s], G[a][s])

Courses == \A c \in Clients : Course(op[c], registry)
Steadies == \A c \in Clients : Steady(op[c], registry, res, aclFile, damaged)
Deliveries == \A c \in Clients : Delivering(op[c], registry)
Restorations == \A c \in Clients : Ensured(op[c], registry, res)

-----------------------------------------------------------------------------
(***************************************************************************)
(* What the operators between two commands do to a record, field by field. *)
(***************************************************************************)
SameJob(o, p) ==
  /\ p.kind = o.kind /\ p.loaded = o.loaded /\ p.services = o.services
  /\ p.request = o.request /\ p.id = o.id /\ p.ok = o.ok /\ p.quiet = o.quiet

SameTarget(o, p) ==
  SameJob(o, p) /\ p.target = o.target /\ p.targets = o.targets /\ p.entry = o.entry

(* It takes the next service of its target, saves, goes on to a target or  *)
(* is over.                                                                *)
Serves(o, p) ==
  /\ SameTarget(o, p) /\ p.pc = "exec" /\ p.step = 1
  /\ p.service \in o.todo /\ p.todo = o.todo \ {p.service}

Saves(o, p) ==
  SameTarget(o, p) /\ p.pc = "save" /\ o.todo = {} /\ p.todo = {} /\ o.kind # "reconcile"

Enters(o, p, a) ==
  /\ SameJob(o, p) /\ p.pc = "exec" /\ p.step = 1
  /\ p.target = a /\ p.targets = o.targets \ {a}
  /\ p.entry = IF o.kind = "setup" THEN EmptyEntry ELSE o.loaded[a]
  /\ p.service \in Pending(o, a) /\ p.todo = Pending(o, a) \ {p.service}

Ends(o, p) ==
  /\ SameJob(o, p) /\ p.pc = "done"
  /\ o.targets = {} /\ p.targets = {} /\ p.target = None /\ p.todo = {}

Onward(o, p) == Ends(o, p) \/ \E a \in o.targets : Enters(o, p, a)

LEMMA SamePending ==
  ASSUME NEW o, NEW p, SameJob(o, p), NEW a
  PROVE  Pending(p, a) = Pending(o, a) /\ (Provisioner(p) <=> Provisioner(o))
  BY DEF SameJob, Pending, Provisioner

LEMMA NextServiceServes ==
  ASSUME NEW o \in Operation, NEW p \in NextService(o)
  PROVE  Serves(o, p)
<1>1. PICK s \in o.todo :
        p = [o EXCEPT !.pc = "exec", !.service = s, !.todo = @ \ {s}, !.step = 1, !.seen = FALSE]
  BY DEF NextService
<1> QED
  BY <1>1 DEF Operation, Serves, SameTarget, SameJob

LEMMA FinishFields ==
  ASSUME NEW o \in Operation
  PROVE  LET p == Finish(o) IN
         /\ SameJob(o, p) /\ p.pc = "done"
         /\ p.targets = {} /\ p.target = None /\ p.todo = {}
  BY DEF Finish, Idle, Operation, SameJob

LEMMA NextTargetOnward ==
  ASSUME NEW o \in Operation, Working(o), NEW p \in NextTarget(o)
  PROVE  Onward(o, p)
<1>1. CASE o.targets = {}
  BY <1>1, FinishFields DEF NextTarget, Onward, Ends
<1>2. CASE o.targets # {}
  <2>1. PICK a \in o.targets : p \in NextService(Enter(o, a))
    BY <1>2 DEF NextTarget
  <2> DEFINE q == Enter(o, a)
  <2>2. q \in Operation
    BY EnterAtTarget
  <2>3. /\ SameJob(o, q) /\ q.target = a /\ q.targets = o.targets \ {a}
        /\ q.todo = Pending(o, a)
        /\ q.entry = IF o.kind = "setup" THEN EmptyEntry ELSE o.loaded[a]
    BY DEF Enter, Operation, SameJob
  <2>4. Serves(q, p)
    BY <2>1, <2>2, NextServiceServes
  <2> HIDE DEF q
  <2>5. Enters(o, p, a)
    BY <2>3, <2>4 DEF Serves, SameTarget, SameJob, Enters
  <2> QED
    BY <2>5 DEF Onward
<1> QED
  BY <1>1, <1>2

LEMMA AfterServiceMoves ==
  ASSUME NEW o \in Operation, AtTarget(o), NEW p \in AfterService(o)
  PROVE  \/ Serves(o, p) \/ Saves(o, p)
         \/ o.kind = "reconcile" /\ o.todo = {} /\ Onward(o, p)
<1>1. CASE o.todo # {}
  BY <1>1, NextServiceServes DEF AfterService
<1>2. CASE o.todo = {} /\ o.kind = "reconcile"
  BY <1>2, NextTargetOnward DEF AfterService, AtTarget
<1>3. CASE o.todo = {} /\ o.kind # "reconcile"
  BY <1>3 DEF AfterService, Saves, SameTarget, SameJob, Operation
<1> QED
  BY <1>1, <1>2, <1>3

(* A completed Provision enters its secret.                                *)
Completed(o) == IF Provisioner(o) THEN [o EXCEPT !.entry[o.service] = o.id] ELSE o

Advances(o, p) ==
  /\ SameTarget(o, p) /\ p.pc = "exec" /\ p.todo = o.todo /\ p.service = o.service
  /\ ~LastCommand(o) /\ p.step = o.step + 1

LEMMA CompletedFields ==
  ASSUME NEW o, WellFormed(o), o.pc = "exec"
  PROVE  LET q == Completed(o) IN
         /\ q \in Operation /\ AtTarget(q)
         /\ SameJob(o, q) /\ q.target = o.target /\ q.targets = o.targets
         /\ q.todo = o.todo
         /\ ~Provisioner(o) => q.entry = o.entry
         /\ Provisioner(o) => q.entry = [o.entry EXCEPT ![o.service] = o.id]
<1>1. o \in Operation /\ AtTarget(o) /\ o.service \in Services
  BY DEF WellFormed
<1>2. CASE Provisioner(o)
  <2> DEFINE e == [o.entry EXCEPT ![o.service] = o.id]
             q == [o EXCEPT !.entry = e]
  <2>1. e \in Entry /\ Completed(o) = q
    BY <1>1, <1>2 DEF Operation, Entry, Completed
  <2> HIDE DEF e
  <2>2. /\ q \in Operation /\ SameJob(o, q) /\ q.target = o.target
        /\ q.targets = o.targets /\ q.todo = o.todo /\ q.entry = e
    BY <1>1, <2>1 DEF Operation, SameJob
  <2>3. AtTarget(q)
    BY <1>1, <2>2 DEF AtTarget, Working, SameJob
  <2> QED
    BY <1>2, <2>1, <2>2, <2>3 DEF e
<1>3. CASE ~Provisioner(o)
  BY <1>1, <1>3 DEF Completed, SameJob
<1> QED
  BY <1>2, <1>3

LEMMA AfterCommandMoves ==
  ASSUME NEW o, WellFormed(o), o.pc = "exec", NEW r, NEW p \in AfterCommand(o, r)
  PROVE  \/ Advances(o, p)
         \/ LastCommand(o) /\ p \in AfterService(Completed(o))
<1>1. o \in Operation /\ o.step \in Nat
  BY DEF WellFormed, Operation
<1>2. CASE ~LastCommand(o)
  <2> DEFINE answer == Seen(Command(o), r, o.seen)
  <2>1. p = [o EXCEPT !.step = @ + 1, !.seen = answer]
    BY <1>2 DEF AfterCommand
  <2> HIDE DEF answer
  <2> QED
    BY <1>1, <1>2, <2>1 DEF Advances, SameTarget, SameJob, Operation
<1>3. CASE LastCommand(o)
  BY <1>3 DEF AfterCommand, Completed
<1> QED
  BY <1>2, <1>3

(* A failure leaves the entry as it is.                                    *)
LEMMA FailedFields ==
  ASSUME NEW o, WellFormed(o), o.pc = "exec"
  PROVE  LET q == Failed(o) IN
         /\ q \in Operation /\ AtTarget(q)
         /\ q.kind = o.kind /\ q.loaded = o.loaded /\ q.services = o.services
         /\ q.request = o.request /\ q.id = o.id /\ q.quiet = o.quiet /\ ~q.ok
         /\ q.target = o.target /\ q.targets = o.targets /\ q.entry = o.entry
         /\ q.todo = o.todo
  BY DEF WellFormed, Failed, Operation, AtTarget, Working

LEMMA AfterFailureMoves ==
  ASSUME NEW o, NEW p \in AfterFailure(o)
  PROVE  \/ Discards(o) /\ p \in AfterCommand(o, Resources(o))
         \/ ~Discards(o) /\ p \in AfterService(Failed(o))
  BY DEF AfterFailure

-----------------------------------------------------------------------------
(* The course of an operation.                                             *)

LEMMA ServesCourse ==
  ASSUME NEW G, NEW o, NEW p, AtHand(o, G), Serves(o, p)
  PROVE  Course(p, G)
<1>1. Pending(p, p.target) = Pending(o, o.target) /\ (Provisioner(p) <=> Provisioner(o))
  BY SamePending DEF Serves, SameTarget
<1> QED
  BY <1>1 DEF Serves, SameTarget, SameJob, AtHand, Ahead, Course

LEMMA SavesCourse ==
  ASSUME NEW G, NEW o, NEW p, AtHand(o, G), Working(o), Saves(o, p)
  PROVE  Course(p, G)
<1>1. Pending(p, p.target) = Pending(o, o.target) /\ (Provisioner(p) <=> Provisioner(o))
  BY SamePending DEF Saves, SameTarget
<1> QED
  BY <1>1 DEF Saves, SameTarget, SameJob, AtHand, Ahead, Course, Saving, Working

LEMMA EntersCourse ==
  ASSUME NEW G, NEW o \in Operation, NEW p, NEW a \in Apps, Ahead(o, G), Enters(o, p, a),
         o.kind = "setup" => G[a] = None
  PROVE  Course(p, G)
<1>1. Pending(p, p.target) = Pending(o, a) /\ (Provisioner(p) <=> Provisioner(o))
  BY SamePending DEF Enters
<1>2. Ahead(p, G) /\ p.target \notin p.targets /\ p.todo \subseteq Pending(p, p.target)
  BY <1>1 DEF Ahead, Enters, SameJob
<1>3. ASSUME o.kind = "setup"
      PROVE  /\ \A s \in Services : p.entry[s] = NoConfig
             /\ ~\E s \in Services : Lists(G, p.target, s)
  BY <1>3 DEF Enters, EmptyEntry, Lists
<1>4. ASSUME o.kind = "add"
      PROVE  /\ \A s \in Pending(o, a) : p.entry[s] = NoConfig
             /\ p.entry = G[a]
  BY <1>4 DEF Enters, Ahead, Pending
<1>5. ASSUME Provisioner(p)
      PROVE  /\ \A s \in Services : Lists(G, p.target, s) => p.entry[s] = G[p.target][s]
             /\ \A s \in Pending(o, a) : p.entry[s] = NoConfig
  <2>1. o.kind = "setup" => Pending(o, a) \subseteq Services
    BY DEF Pending, Operation
  <2> QED
    BY <1>1, <1>3, <1>4, <1>5, <2>1 DEF Provisioner, Enters
<1> QED
  BY <1>1, <1>2, <1>3, <1>4, <1>5 DEF AtHand, Course, Enters, SameJob, Provisioner

LEMMA OnwardCourse ==
  ASSUME NEW G, NEW o \in Operation, NEW p, Ahead(o, G), Onward(o, p)
  PROVE  Course(p, G)
<1>1. CASE Ends(o, p)
  BY <1>1 DEF Ends, Course
<1>2. CASE \E a \in o.targets : Enters(o, p, a)
  BY <1>2, EntersCourse DEF Ahead, Operation
<1> QED
  BY <1>1, <1>2 DEF Onward

LEMMA AfterServiceCourse ==
  ASSUME NEW G, NEW o \in Operation, AtTarget(o), AtHand(o, G), NEW p \in AfterService(o)
  PROVE  Course(p, G)
BY AfterServiceMoves, ServesCourse, SavesCourse, OnwardCourse DEF AtHand, AtTarget

LEMMA AdvancesCourse ==
  ASSUME NEW G, NEW o, NEW p, Course(o, G), o.pc = "exec", Advances(o, p)
  PROVE  Course(p, G)
<1>1. Pending(p, p.target) = Pending(o, o.target) /\ (Provisioner(p) <=> Provisioner(o))
  BY SamePending DEF Advances, SameTarget
<1> QED
  BY <1>1 DEF Advances, SameTarget, SameJob, AtHand, Ahead, Course

LEMMA CompletedAtHand ==
  ASSUME NEW G, NEW o, WellFormed(o), Course(o, G), o.pc = "exec"
  PROVE  AtHand(Completed(o), G)
<1> DEFINE q == Completed(o)
<1>1. /\ SameJob(o, q) /\ q.target = o.target /\ q.targets = o.targets
      /\ q.todo = o.todo
      /\ Provisioner(o) => q.entry = [o.entry EXCEPT ![o.service] = o.id]
  BY CompletedFields
<1> HIDE DEF q
<1>2. Pending(q, q.target) = Pending(o, o.target) /\ (Provisioner(q) <=> Provisioner(o))
  BY <1>1, SamePending
<1>3. /\ AtHand(o, G) /\ o.service \in Services /\ o.entry \in Entry
      /\ o.service \notin o.todo /\ (Provisioner(o) => o.entry[o.service] = NoConfig)
  BY DEF Course, WellFormed, Operation
<1>4. Ahead(q, G)
  BY <1>1, <1>2, <1>3 DEF AtHand, Ahead, SameJob
<1>5. ASSUME Provisioner(o)
      PROVE  /\ \A s \in o.todo : q.entry[s] = NoConfig
             /\ \A s \in Services : Lists(G, o.target, s) => q.entry[s] = G[o.target][s]
  <2>1. \A s \in Services \ {o.service} : q.entry[s] = o.entry[s]
    BY <1>1, <1>3, <1>5 DEF Entry
  <2>2. ~Lists(G, o.target, o.service)
    BY <1>3, <1>5 DEF AtHand, Lists
  <2>3. o.todo \subseteq Services
    BY DEF WellFormed, Operation
  <2> QED
    BY <1>3, <1>5, <2>1, <2>2, <2>3 DEF AtHand
<1>6. AtHand(q, G)
  BY <1>1, <1>2, <1>3, <1>4, <1>5 DEF AtHand, SameJob
<1> QED
  BY <1>6 DEF q

LEMMA FailedAtHand ==
  ASSUME NEW G, NEW o, WellFormed(o), Course(o, G), o.pc = "exec"
  PROVE  AtHand(Failed(o), G)
<1> DEFINE q == Failed(o)
<1>1. /\ q.kind = o.kind /\ q.loaded = o.loaded /\ q.services = o.services
      /\ q.id = o.id /\ q.target = o.target /\ q.targets = o.targets
      /\ q.entry = o.entry /\ q.todo = o.todo
  BY FailedFields
<1> HIDE DEF q
<1>2. Pending(q, q.target) = Pending(o, o.target) /\ (Provisioner(q) <=> Provisioner(o))
  BY <1>1 DEF Pending, Provisioner
<1>3. AtHand(q, G)
  BY <1>1, <1>2 DEF Course, AtHand, Ahead
<1> QED
  BY <1>3 DEF q

LEMMA AfterCommandCourse ==
  ASSUME NEW G, NEW o, WellFormed(o), Course(o, G), o.pc = "exec",
         NEW r, NEW p \in AfterCommand(o, r)
  PROVE  Course(p, G)
<1>1. Completed(o) \in Operation /\ AtTarget(Completed(o))
  BY CompletedFields
<1> QED
  BY <1>1, AfterCommandMoves, AdvancesCourse, CompletedAtHand, AfterServiceCourse

LEMMA AfterFailureCourse ==
  ASSUME NEW G, NEW o, WellFormed(o), Course(o, G), o.pc = "exec", NEW p \in AfterFailure(o)
  PROVE  Course(p, G)
<1>1. Failed(o) \in Operation /\ AtTarget(Failed(o))
  BY FailedFields
<1> QED
  BY <1>1, AfterFailureMoves, AfterCommandCourse, FailedAtHand, AfterServiceCourse

-----------------------------------------------------------------------------
(* The records an operation begins with.                                   *)
StartsProvisioner(p) ==
  /\ p.pc = "check" /\ Provisioner(p) /\ p.kind \in Kinds
  /\ p.loaded = registry /\ p.id # NoConfig /\ p.services \subseteq Services
  /\ p.kind = "setup" => p.targets = p.request /\ \A a \in p.targets : registry[a] = None
  /\ p.kind = "add" => \A a \in p.request :
       registry[a] # None /\ (a \in p.targets \/ \A s \in p.services : registry[a][s] # NoConfig)

StartsRemove(p) ==
  /\ "remove" \in Kinds
  /\ \E q \in Operation :
       /\ AtTarget(q) /\ q.kind = "remove" /\ q.loaded = registry /\ q.targets = {}
       /\ q.request = {q.target} /\ q.todo = Pending(q, q.target) /\ q.ok /\ q.quiet
       /\ p \in AfterService(q)

StartsDetach(p) ==
  "detach" \in Kinds /\ p.pc = "save" /\ p.kind = "detach" /\ Detaching(p, registry)

StartsReconcile(p) ==
  /\ "reconcile" \in Kinds
  /\ \E q \in Operation :
       /\ Working(q) /\ q.kind = "reconcile" /\ q.loaded = registry
       /\ q.targets = {a \in Apps : registry[a] # None /\ Pending(q, a) # {}}
       /\ p \in NextTarget(q)

StartsEncrypt(p) ==
  "encrypt" \in Kinds /\ p.pc = "save" /\ p.kind = "encrypt" /\ p.loaded = registry

LEMMA BeginMoves ==
  ASSUME Typed, NEW c \in Clients, Begin(c)
  PROVE  /\ op[c].pc = "idle"
         /\ UNCHANGED <<registry, res, aclFile, damaged>>
         /\ \E p : /\ Become(c, p)
                   /\ \/ StartsProvisioner(p) \/ StartsRemove(p) \/ StartsDetach(p)
                      \/ StartsReconcile(p) \/ StartsEncrypt(p)
<1>0. op[c].pc = "idle" /\ UNCHANGED <<registry, res, aclFile, damaged>>
  BY DEF Begin, BeginSetup, BeginAdd, BeginRemove, BeginDetach, BeginReconcile,
         BeginEncrypt, Free
<1>1. Idle \in Operation /\ registry \in Registry /\ requests + 1 # NoConfig
  BY IdleWellFormed DEF WellFormed, Typed, TypeOK, NoConfig
<1>8. /\ BeginSetup(c) => "setup" \in Kinds
      /\ BeginAdd(c) => "add" \in Kinds
      /\ BeginRemove(c) => "remove" \in Kinds
      /\ BeginDetach(c) => "detach" \in Kinds
      /\ BeginReconcile(c) => "reconcile" \in Kinds
      /\ BeginEncrypt(c) => "encrypt" \in Kinds
  BY DEF BeginSetup, BeginAdd, BeginRemove, BeginDetach, BeginReconcile, BeginEncrypt, Free
<1>2. CASE BeginSetup(c)
  <2>1. PICK T \in (SUBSET Apps) \ {{}}, S \in (SUBSET Services) \ {{}} :
          /\ \A a \in T : registry[a] = None
          /\ Become(c, [Idle EXCEPT !.pc = "check", !.kind = "setup", !.loaded = registry,
                                    !.services = S, !.request = T, !.targets = T,
                                    !.id = requests + 1])
    BY <1>2 DEF BeginSetup, AllAbsent
  <2> DEFINE p == [Idle EXCEPT !.pc = "check", !.kind = "setup", !.loaded = registry,
                               !.services = S, !.request = T, !.targets = T,
                               !.id = requests + 1]
  <2>2. /\ p.pc = "check" /\ p.kind = "setup" /\ p.loaded = registry /\ p.services = S
        /\ p.request = T /\ p.targets = T /\ p.id = requests + 1
    BY DEF Idle
  <2>3. Become(c, p)
    BY <2>1
  <2> HIDE DEF p
  <2>4. StartsProvisioner(p)
    BY <1>1, <1>8, <1>2, <2>1, <2>2 DEF StartsProvisioner, Provisioner
  <2> QED
    BY <1>0, <2>3, <2>4
<1>3. CASE BeginAdd(c)
  <2>1. PICK T \in (SUBSET Apps) \ {{}}, S \in (SUBSET Services) \ {{}} :
          /\ \A a \in T : registry[a] # None
          /\ Become(c, [Idle EXCEPT
               !.pc = "check", !.kind = "add", !.loaded = registry, !.services = S,
               !.request = T, !.id = requests + 1,
               !.targets = {a \in T : \E s \in S : registry[a][s] = NoConfig}])
    BY <1>3 DEF BeginAdd
  <2> DEFINE U == {a \in T : \E s \in S : registry[a][s] = NoConfig}
             p == [Idle EXCEPT !.pc = "check", !.kind = "add", !.loaded = registry,
                               !.services = S, !.request = T, !.id = requests + 1,
                               !.targets = U]
  <2>2. /\ p.pc = "check" /\ p.kind = "add" /\ p.loaded = registry /\ p.services = S
        /\ p.request = T /\ p.targets = U /\ p.id = requests + 1
    BY DEF Idle
  <2>3. Become(c, p)
    BY <2>1
  <2> HIDE DEF p
  <2>4. StartsProvisioner(p)
    BY <1>1, <1>8, <1>3, <2>1, <2>2 DEF StartsProvisioner, Provisioner
  <2> QED
    BY <1>0, <2>3, <2>4
<1>4. CASE BeginRemove(c)
  <2>1. PICK a \in Apps :
          /\ registry[a] # None
          /\ \E p \in AfterService(Enter([Idle EXCEPT !.kind = "remove", !.loaded = registry,
                                                      !.request = {a}], a)) : Become(c, p)
    BY <1>4 DEF BeginRemove
  <2> DEFINE o == [Idle EXCEPT !.kind = "remove", !.loaded = registry, !.request = {a}]
             q == Enter(o, a)
  <2>2. /\ o \in Operation /\ o.kind = "remove" /\ o.loaded = registry /\ o.targets = {}
        /\ o.request = {a} /\ o.ok /\ o.quiet
    BY <1>1 DEF Operation, AllKinds, Idle
  <2>3. PICK p \in AfterService(q) : Become(c, p)
    BY <2>1
  <2> HIDE DEF o
  <2>4. Pending(o, a) \in SUBSET Services /\ o.loaded[a] \in Entry
    BY <1>1, <2>1, <2>2 DEF Pending, Registry
  <2>5. q \in Operation /\ AtTarget(q)
    BY <2>1, <2>2, <2>4 DEF Enter, Operation, AtTarget, Working
  <2>6. /\ q.kind = "remove" /\ q.loaded = registry /\ q.targets = {}
        /\ q.request = {q.target} /\ q.todo = Pending(o, a) /\ q.target = a /\ q.ok
        /\ q.quiet
    BY <2>2 DEF Enter, Operation
  <2> HIDE DEF q
  <2>7. Pending(o, a) = Pending(q, a)
    BY <2>2, <2>6 DEF Pending
  <2>8. StartsRemove(p)
    BY <1>8, <1>4, <2>3, <2>5, <2>6, <2>7 DEF StartsRemove
  <2> QED
    BY <1>0, <2>3, <2>8
<1>5. CASE BeginDetach(c)
  <2>1. PICK a \in Apps, S \in (SUBSET (Services \cap detachable)) \ {{}} :
          /\ registry[a] # None
          /\ Become(c, [Idle EXCEPT
               !.pc = "save", !.kind = "detach", !.loaded = registry, !.services = S,
               !.request = {a}, !.target = a,
               !.entry = [s \in Services |-> IF s \in S THEN NoConfig ELSE registry[a][s]]])
    BY <1>5 DEF BeginDetach
  <2> DEFINE e == [s \in Services |-> IF s \in S THEN NoConfig ELSE registry[a][s]]
             p == [Idle EXCEPT !.pc = "save", !.kind = "detach", !.loaded = registry,
                               !.services = S, !.request = {a}, !.target = a, !.entry = e]
  <2>2. /\ p.pc = "save" /\ p.kind = "detach" /\ p.loaded = registry /\ p.target = a
        /\ p.entry = e
    BY DEF Idle
  <2>3. /\ Become(c, p)
        /\ \A s \in Services : e[s] # NoConfig => e[s] = registry[a][s]
        /\ \A s \in Services \ detachable : e[s] = registry[a][s]
    BY <2>1
  <2> HIDE DEF p, e
  <2>4. StartsDetach(p)
    BY <1>8, <1>5, <2>1, <2>2, <2>3 DEF StartsDetach, Detaching
  <2> QED
    BY <1>0, <2>3, <2>4
<1>6. CASE BeginReconcile(c)
  <2> DEFINE o == [Idle EXCEPT !.kind = "reconcile", !.loaded = registry,
                               !.request = {a \in Apps : registry[a] # None}]
             U == {a \in o.request : Pending(o, a) # {}}
             q == [o EXCEPT !.targets = U]
  <2>1. PICK p \in NextTarget(q) : Become(c, p)
    BY <1>6 DEF BeginReconcile
  <2>2. /\ o \in Operation /\ o.kind = "reconcile" /\ o.loaded = registry
        /\ o.request = {a \in Apps : registry[a] # None}
    BY <1>1 DEF Operation, AllKinds
  <2> HIDE DEF o
  <2>3. U = {a \in Apps : registry[a] # None /\ Pending(o, a) # {}}
    BY <2>2
  <2> HIDE DEF U
  <2>4. /\ q \in Operation /\ Working(q) /\ q.kind = "reconcile" /\ q.loaded = registry
        /\ q.targets = U
    BY <2>2, <2>3 DEF Operation, Working
  <2>5. \A a : Pending(q, a) = Pending(o, a)
    BY <2>2, <2>4 DEF Pending
  <2> HIDE DEF q
  <2>6. StartsReconcile(p)
    BY <1>8, <1>6, <2>1, <2>3, <2>4, <2>5 DEF StartsReconcile
  <2> QED
    BY <1>0, <2>1, <2>6
<1>7. CASE BeginEncrypt(c)
  <2> DEFINE p == [Idle EXCEPT !.pc = "save", !.kind = "encrypt", !.loaded = registry]
  <2>1. Become(c, p) /\ StartsEncrypt(p)
    BY <1>8, <1>7 DEF BeginEncrypt, StartsEncrypt, Idle
  <2> QED
    BY <1>0, <2>1
<1> QED
  BY <1>2, <1>3, <1>4, <1>5, <1>6, <1>7 DEF Begin

(* Alone, the client that takes a step is the only one there is.           *)
LEMMA AloneMoves ==
  ASSUME OneClient, Typed, NEW c \in Clients, NEW p, Become(c, p)
  PROVE  op'[c] = p /\ \A d \in Clients : d = c
  BY DEF OneClient, Typed, TypeOK, Become

LEMMA BeginCourse ==
  ASSUME OneClient, Typed, Courses, NEW c \in Clients, Begin(c)
  PROVE  Courses'
<1>1. registry' = registry
  BY BeginMoves
<1>2. PICK p : /\ Become(c, p)
               /\ \/ StartsProvisioner(p) \/ StartsRemove(p) \/ StartsDetach(p)
                  \/ StartsReconcile(p) \/ StartsEncrypt(p)
  BY BeginMoves
<1>3. ASSUME StartsProvisioner(p) PROVE Course(p, registry)
  BY <1>3 DEF StartsProvisioner, Course, Ahead
<1>4. ASSUME StartsRemove(p) PROVE Course(p, registry)
  <2>1. PICK q \in Operation :
          /\ AtTarget(q) /\ q.kind = "remove" /\ q.loaded = registry /\ q.targets = {}
          /\ q.todo = Pending(q, q.target) /\ p \in AfterService(q)
    BY <1>4 DEF StartsRemove
  <2>2. AtHand(q, registry)
    BY <2>1 DEF AtHand, Ahead, Provisioner
  <2> QED
    BY <2>1, <2>2, AfterServiceCourse
<1>5. ASSUME StartsDetach(p) PROVE Course(p, registry)
  BY <1>5 DEF StartsDetach, Course, Saving
<1>6. ASSUME StartsReconcile(p) PROVE Course(p, registry)
  <2>1. PICK q \in Operation :
          Working(q) /\ q.kind = "reconcile" /\ q.loaded = registry /\ p \in NextTarget(q)
    BY <1>6 DEF StartsReconcile
  <2>2. Ahead(q, registry)
    BY <2>1 DEF Ahead, Provisioner
  <2> QED
    BY <2>1, <2>2, NextTargetOnward, OnwardCourse
<1>7. ASSUME StartsEncrypt(p) PROVE Course(p, registry)
  BY <1>7 DEF StartsEncrypt, Course, Saving
<1>8. Course(p, registry)
  BY <1>2, <1>3, <1>4, <1>5, <1>6, <1>7
<1> QED
  BY <1>1, <1>2, <1>8, AloneMoves DEF Courses

(***************************************************************************)
(* Save, for an operation whose copy is the registry: one entry changes.   *)
(***************************************************************************)
SavesEntry(o, p) ==
  /\ Provisioner(o) /\ AtHand(o, registry) /\ o.todo = {} /\ o.target \in Apps
  /\ registry' = [registry EXCEPT ![o.target] = o.entry]
  /\ \E q \in Operation :
       /\ q.kind = o.kind /\ q.loaded = registry' /\ q.services = o.services
       /\ q.request = o.request /\ q.id = o.id /\ q.ok = o.ok /\ q.quiet = o.quiet
       /\ q.targets = o.targets
       /\ Working(q) /\ Onward(q, p)

SavesRemoval(o, p) ==
  /\ o.kind = "remove" /\ AtHand(o, registry) /\ o.todo = {} /\ o.target \in Apps
  /\ registry' = [registry EXCEPT ![o.target] = None]
  /\ p = Finish(o)

SavesDetach(o, p) ==
  /\ o.kind = "detach" /\ Detaching(o, registry)
  /\ registry' = [registry EXCEPT ![o.target] = o.entry]
  /\ p = Finish(o)

SavesSame(o, p) == o.kind = "encrypt" /\ registry' = registry /\ p = Finish(o)

LEMMA SaveMoves ==
  ASSUME Typed, Courses, NEW c \in Clients, Save(c)
  PROVE  /\ UNCHANGED <<res, aclFile, damaged>>
         /\ \E p : /\ Become(c, p)
                   /\ \/ SavesEntry(op[c], p) \/ SavesRemoval(op[c], p)
                      \/ SavesDetach(op[c], p) \/ SavesSame(op[c], p)
<1> DEFINE o == op[c]
<1>1. /\ o.pc = "save" /\ registry' = Saved(o) /\ UNCHANGED <<res, aclFile, damaged>>
      /\ o \in Operation /\ WellFormed(o)
  BY DEF Save, Typed, WellFormed
<1>2. Saving(o, registry)
  BY <1>1 DEF Courses, Course
<1>3. o.kind \in {"setup", "add", "remove"} => AtTarget(o) /\ o.target \in Apps
  BY <1>1 DEF WellFormed, AtTarget
<1>4. CASE Provisioner(o)
  <2>1. AtHand(o, registry) /\ o.todo = {} /\ o.target \in Apps /\ Working(o)
    BY <1>2, <1>3, <1>4 DEF Saving, Provisioner, AtTarget
  <2>2. registry' = [registry EXCEPT ![o.target] = o.entry]
    BY <1>1, <1>4, <2>1 DEF Saved, AtHand, Ahead, Provisioner
  <2> DEFINE q == [o EXCEPT !.loaded = Saved(o)]
  <2>3. PICK p \in NextTarget(q) : Become(c, p)
    BY <1>4 DEF Save
  <2>4. q \in Operation /\ Working(q)
    BY <1>1, <1>4, <2>1, SavedTyped
  <2>5. /\ q.kind = o.kind /\ q.loaded = Saved(o) /\ q.services = o.services
        /\ q.request = o.request /\ q.id = o.id /\ q.ok = o.ok /\ q.quiet = o.quiet
        /\ q.targets = o.targets
    BY <1>1 DEF Operation
  <2> HIDE DEF q
  <2>6. Onward(q, p)
    BY <2>3, <2>4, NextTargetOnward
  <2>7. SavesEntry(o, p)
    BY <1>1, <1>4, <2>1, <2>2, <2>4, <2>5, <2>6 DEF SavesEntry
  <2> QED
    BY <1>1, <2>3, <2>7
<1>5. CASE ~Provisioner(o)
  <2>1. Become(c, Finish(o))
    BY <1>5 DEF Save
  <2>2. CASE o.kind = "remove"
    BY <1>1, <1>2, <1>3, <2>1, <2>2 DEF Saving, SavesRemoval, Saved, AtHand, Ahead
  <2>3. CASE o.kind = "detach"
    BY <1>1, <1>2, <2>1, <2>3 DEF Saving, SavesDetach, Saved, Detaching
  <2>4. CASE o.kind = "encrypt"
    BY <1>1, <1>2, <2>1, <2>4 DEF Saving, SavesSame, Saved
  <2> QED
    BY <1>2, <1>5, <2>2, <2>3, <2>4 DEF Saving, Provisioner
<1> QED
  BY <1>4, <1>5

LEMMA SaveCourse ==
  ASSUME OneClient, Typed, Courses, NEW c \in Clients, Save(c)
  PROVE  Courses'
<1> DEFINE o == op[c]
<1>0. o \in Operation
  BY DEF Typed, WellFormed
<1>1. PICK p : /\ Become(c, p)
               /\ \/ SavesEntry(o, p) \/ SavesRemoval(o, p)
                  \/ SavesDetach(o, p) \/ SavesSame(o, p)
  BY SaveMoves
<1>2. ASSUME SavesEntry(o, p) PROVE Course(p, registry')
  <2> DEFINE G == [registry EXCEPT ![o.target] = o.entry]
  <2>1. PICK q \in Operation :
          /\ q.kind = o.kind /\ q.loaded = registry' /\ q.id = o.id
          /\ q.targets = o.targets /\ Onward(q, p)
    BY <1>2 DEF SavesEntry
  <2>2. registry' = G /\ AtHand(o, registry) /\ registry \in Registry
    BY <1>2 DEF SavesEntry, Typed, TypeOK
  <2>3. \A a \in Apps \ {o.target} : G[a] = registry[a]
    BY <2>2 DEF Registry
  <2>4. o.targets \subseteq Apps \ {o.target}
    BY <1>0, <2>2 DEF AtHand, Operation
  <2>5. Ahead(q, G)
    BY <2>1, <2>2, <2>3, <2>4 DEF AtHand, Ahead, Provisioner
  <2> QED
    BY <2>1, <2>2, <2>5, OnwardCourse
<1>3. ASSUME p = Finish(o) PROVE Course(p, registry')
  BY <1>0, <1>3, FinishFields DEF Course
<1>4. Course(p, registry')
  BY <1>1, <1>2, <1>3 DEF SavesRemoval, SavesDetach, SavesSame
<1> QED
  BY <1>1, <1>4, AloneMoves DEF Courses

LEMMA ProceedCourse ==
  ASSUME OneClient, Typed, Courses, NEW c \in Clients, Proceed(c)
  PROVE  Courses'
<1> DEFINE o == op[c]
<1>1. o \in Operation /\ WellFormed(o) /\ Course(o, registry)
  BY DEF Typed, WellFormed, Courses
<1>2. ASSUME NEW p, Become(c, p), Course(p, registry), registry' = registry PROVE Courses'
  BY <1>2, AloneMoves DEF Courses
<1>3. ASSUME NEW q \in Operation PROVE Course(Finish(q), registry)
  BY FinishFields DEF Course
<1>4. CASE CheckContainers(c)
  <2>1. Working(o) /\ Ahead(o, registry)
    BY <1>1, <1>4 DEF CheckContainers, WellFormed, Course
  <2>2. \A p \in NextTarget(o) : Course(p, registry)
    BY <1>1, <2>1, NextTargetOnward, OnwardCourse
  <2>3. [o EXCEPT !.ok = FALSE] \in Operation
    BY <1>1 DEF Operation
  <2> QED
    BY <1>2, <1>3, <1>4, <2>2, <2>3 DEF CheckContainers
<1>5. CASE ExecOk(c)
  BY <1>1, <1>2, <1>5, AfterCommandCourse DEF ExecOk, AtCommand
<1>6. CASE ExecFails(c)
  BY <1>1, <1>2, <1>6, AfterFailureCourse DEF ExecFails, AtCommand
<1>7. CASE Save(c)
  BY <1>7, SaveCourse
<1>8. CASE SaveFails(c)
  <2>1. [o EXCEPT !.ok = FALSE] \in Operation
    BY <1>1 DEF Operation
  <2> QED
    BY <1>2, <1>3, <1>8, <2>1 DEF SaveFails
<1>9. CASE Return(c)
  <2>1. Course(Idle, registry)
    BY DEF Idle, Course
  <2> QED
    BY <1>2, <1>9, <2>1 DEF Return
<1> QED
  BY <1>4, <1>5, <1>6, <1>7, <1>8, <1>9 DEF Proceed

(* A loss leaves an operation as it is, but for its history.               *)
Upset(o) == IF o.pc = "idle" THEN o ELSE [o EXCEPT !.quiet = FALSE]

LEMMA UpsetFields ==
  ASSUME NEW o \in Operation
  PROVE  LET p == Upset(o) IN
         /\ p.pc = o.pc /\ p.kind = o.kind /\ p.loaded = o.loaded
         /\ p.services = o.services /\ p.request = o.request /\ p.targets = o.targets
         /\ p.target = o.target /\ p.entry = o.entry /\ p.todo = o.todo
         /\ p.service = o.service /\ p.step = o.step /\ p.id = o.id /\ p.ok = o.ok
         /\ p.quiet => o.pc = "idle"
         /\ \A a : Pending(p, a) = Pending(o, a)
         /\ Provisioner(p) <=> Provisioner(o)
         /\ o.pc = "idle" => p = o
<1> DEFINE p == Upset(o)
<1>1. /\ p.pc = o.pc /\ p.kind = o.kind /\ p.loaded = o.loaded
      /\ p.services = o.services /\ p.request = o.request /\ p.targets = o.targets
      /\ p.target = o.target /\ p.entry = o.entry /\ p.todo = o.todo
      /\ p.service = o.service /\ p.step = o.step /\ p.id = o.id /\ p.ok = o.ok
      /\ p.quiet => o.pc = "idle"
      /\ o.pc = "idle" => p = o
  BY DEF Upset, Operation
<1> HIDE DEF p
<1>2. (\A a : Pending(p, a) = Pending(o, a)) /\ (Provisioner(p) <=> Provisioner(o))
  BY <1>1 DEF Pending, Provisioner
<1>3. QED
  BY <1>1, <1>2 DEF p

(* Wipe and RestartRedis.                                                  *)
Losses == (\E s \in Services : Wipe(s)) \/ RestartRedis

LEMMA LossMoves ==
  ASSUME Typed, Losses
  PROVE  registry' = registry /\ \A d \in Clients : op'[d] = Upset(op[d])
  BY DEF Losses, Wipe, RestartRedis, Disturb, Upset

LEMMA CourseNext ==
  ASSUME OneClient, Typed, Courses, [Next]_vars
  PROVE  Courses'
<1>1. ASSUME NEW c \in Clients, Begin(c) PROVE Courses'
  BY <1>1, BeginCourse
<1>2. ASSUME NEW c \in Clients, Proceed(c) PROVE Courses'
  BY <1>2, ProceedCourse
<1>3. ASSUME NEW c \in Clients, Crash(c) PROVE Courses'
  <2>1. Course(Idle, registry)
    BY DEF Idle, Course
  <2> QED
    BY <1>3, <2>1, AloneMoves DEF Crash, Courses
<1>4. CASE Losses
  <2>1. ASSUME NEW d \in Clients PROVE Course(op'[d], registry)
    <3>1. op[d] \in Operation /\ Course(op[d], registry) /\ op'[d] = Upset(op[d])
      BY <1>4, LossMoves DEF Typed, WellFormed, Courses
    <3>2. Pending(op'[d], op[d].target) = Pending(op[d], op[d].target)
      BY <3>1, UpsetFields
    <3> QED
      BY <3>1, <3>2, UpsetFields DEF Course, AtHand, Ahead, Saving, Detaching
  <2> QED
    BY <1>4, <2>1, LossMoves DEF Courses
<1>5. CASE UNCHANGED vars
  BY <1>5 DEF vars, Courses
<1> QED
  BY <1>1, <1>2, <1>3, <1>4, <1>5 DEF Next, Losses

LEMMA CourseAlways ==
  ASSUME OneClient
  PROVE  Spec => [](Typed /\ Courses)
<1>1. Init => Courses
  BY DEF Init, Courses, Course, Idle
<1>2. Typed /\ Courses /\ [Next]_vars => Courses'
  BY CourseNext
<1> QED
  BY <1>1, <1>2, TypedInit, TypedNext, PTL DEF Spec

(***************************************************************************)
(* Whoever runs one command at a time loses no update: a save changes the  *)
(* entry of its target and of no other app, although it writes the whole   *)
(* copy of the registry that the operation loaded at its start.            *)
(***************************************************************************)
THEOREM SerialOnlyTargetChanges ==
  ASSUME OneClient
  PROVE  Spec => OnlyTargetChanges
<1> DEFINE Local == \A a \in Apps : registry'[a] # registry[a] =>
                      \E c \in Clients : op[c].pc = "save" /\ op[c].target = a
<1>1. ASSUME Typed, Courses, Next, NEW a \in Apps, registry'[a] # registry[a]
      PROVE  \E c \in Clients : op[c].pc = "save" /\ op[c].target = a
  <2>1. PICK c \in Clients : Save(c)
    BY <1>1, BeginMoves, LossMoves
       DEF Next, Losses, Proceed, CheckContainers, ExecOk, ExecFails, SaveFails, Return, Crash
  <2>2. registry' = registry \/ \E e : registry' = [registry EXCEPT ![op[c].target] = e]
    BY <1>1, <2>1, SaveMoves DEF SavesEntry, SavesRemoval, SavesDetach, SavesSame
  <2>3. registry \in Registry
    BY <1>1 DEF Typed, TypeOK
  <2>4. op[c].target = a
    BY <1>1, <2>2, <2>3 DEF Registry
  <2> QED
    BY <2>1, <2>4 DEF Save
<1>2. Typed /\ Courses /\ [Next]_vars => [Local]_vars
  BY <1>1
<1> HIDE DEF Local
<1>3. Spec => [][Local]_vars
  BY <1>2, CourseAlways, PTL DEF Spec
<1> QED
  BY <1>3 DEF OnlyTargetChanges, Local

(***************************************************************************)
(* The fail-fast check of SetupApp holds until its saves: a setup of       *)
(* several targets never replaces an entry, not even one it saved itself.  *)
(***************************************************************************)
THEOREM SerialSetupNeverReplaces ==
  ASSUME OneClient
  PROVE  Spec => SetupNeverReplaces
<1> DEFINE Fresh == \A c \in Clients :
             op[c].kind = "setup" /\ op[c].pc = "save" /\ registry' # registry
               /\ op'[c].pc # "save"
             => registry[op[c].target] = None
<1>1. Typed /\ Courses /\ [Next]_vars => [Fresh]_vars
  BY DEF Courses, Course, Saving, AtHand
<1> HIDE DEF Fresh
<1>2. Spec => [][Fresh]_vars
  BY <1>1, CourseAlways, PTL DEF Spec
<1> QED
  BY <1>2 DEF SetupNeverReplaces, Fresh

-----------------------------------------------------------------------------
(* Commands.  users.acl of the app after one of them.                      *)
SavedBy(cmd, r, saved) == IF cmd = "ACL SAVE" THEN r.secrets ELSE saved

LEMMA ProvisionLists ==
  /\ Provision("postgres") = PostgresProvision
  /\ PostgresProvision[1] = "CREATE DATABASE" /\ PostgresProvision[2] = "CREATE USER"
  /\ PostgresProvision[3] = "GRANT" /\ PostgresProvision[4] = "grantPermissions"
  /\ Provision("rabbitmq") = RabbitmqProvision
  /\ RabbitmqProvision[1] = "add_vhost" /\ RabbitmqProvision[2] = "add_user"
  /\ RabbitmqProvision[3] = "set_permissions" /\ RabbitmqProvision[4] = "set_user_tags"
  /\ Provision("aistor") = AistorProvision
  /\ AistorProvision[1] = "mb" /\ AistorProvision[2] = "user add"
  /\ AistorProvision[3] = "policy create" /\ AistorProvision[4] = "policy attach"
  /\ Len(PostgresProvision) = 4 /\ Len(RabbitmqProvision) = 4 /\ Len(AistorProvision) = 4
<1>1. /\ Provision("postgres") = PostgresProvision
      /\ Provision("rabbitmq") = RabbitmqProvision
      /\ Provision("aistor") = AistorProvision
  BY DEF Provision
<1>2. /\ PostgresProvision[1] = "CREATE DATABASE" /\ PostgresProvision[2] = "CREATE USER"
      /\ PostgresProvision[3] = "GRANT" /\ PostgresProvision[4] = "grantPermissions"
      /\ Len(PostgresProvision) = 4
  BY DEF PostgresProvision
<1>3. /\ RabbitmqProvision[1] = "add_vhost" /\ RabbitmqProvision[2] = "add_user"
      /\ RabbitmqProvision[3] = "set_permissions" /\ RabbitmqProvision[4] = "set_user_tags"
      /\ Len(RabbitmqProvision) = 4
  BY DEF RabbitmqProvision
<1>4. /\ AistorProvision[1] = "mb" /\ AistorProvision[2] = "user add"
      /\ AistorProvision[3] = "policy create" /\ AistorProvision[4] = "policy attach"
      /\ Len(AistorProvision) = 4
  BY DEF AistorProvision
<1> QED
  BY <1>1, <1>2, <1>3, <1>4

LEMMA OtherProvisionLists ==
  /\ Provision("redis") = RedisProvision /\ Len(RedisProvision) = 2
  /\ RedisProvision[1] = "ACL SETUSER" /\ RedisProvision[2] = "ACL SAVE"
  /\ Provision("mongodb") = MongodbProvision /\ Len(MongodbProvision) = 1
  /\ MongodbProvision[1] = "createUser"
  /\ Provision("signoz") = SignozStep /\ Len(SignozStep) = 1 /\ SignozStep[1] = "none"
<1>1. /\ Provision("redis") = RedisProvision
      /\ Provision("mongodb") = MongodbProvision
      /\ Provision("signoz") = SignozStep
  BY DEF Provision
<1>2. /\ RedisProvision[1] = "ACL SETUSER" /\ RedisProvision[2] = "ACL SAVE"
      /\ Len(RedisProvision) = 2
  BY DEF RedisProvision
<1>3. MongodbProvision[1] = "createUser" /\ Len(MongodbProvision) = 1
  BY DEF MongodbProvision
<1>4. SignozStep[1] = "none" /\ Len(SignozStep) = 1
  BY DEF SignozStep
<1> QED
  BY <1>1, <1>2, <1>3, <1>4

(* A command of a Provision that succeeds, after those before it.  The     *)
(* three services that have a store create it, then the account, and grant *)
(* in the third or the fourth command.                                     *)
LEMMA StoreProvisionStep ==
  ASSUME NEW s \in HasStore, NEW k \in 1 .. 4, NEW r \in Resource, NEW secret \in Nat, NEW seen,
         HalfProvisioned(s, k, secret, r)
  PROVE  LET q == Effect(Provision(s)[k], r, secret, seen)
         IN  /\ k # 4 => HalfProvisioned(s, k + 1, secret, q)
             /\ k = 4 => Usable(s, q, secret)
<1> DEFINE cmd == Provision(s)[k]
<1>1. s = "postgres" \/ s = "rabbitmq" \/ s = "aistor"
  BY DEF HasStore
<1>2. k = 1 \/ k = 2 \/ k = 3 \/ k = 4
  OBVIOUS
<1>3. k = 1 => cmd \in {"CREATE DATABASE", "add_vhost", "mb"}
  BY <1>1, ProvisionLists
<1>4. k = 2 => cmd \in {"CREATE USER", "add_user", "user add", "ensure user"}
  BY <1>1, ProvisionLists
<1>5. k = 3 => IF s = "rabbitmq" THEN cmd = "set_permissions"
               ELSE cmd \in {"GRANT", "policy create"}
  BY <1>1, ProvisionLists
<1>6. k = 4 => IF s = "rabbitmq" THEN cmd = "set_user_tags"
               ELSE cmd \in {"grantPermissions", "policy attach"}
  BY <1>1, ProvisionLists
<1> HIDE DEF cmd
<1> DEFINE q == Effect(cmd, r, secret, seen)
<1>7. k = 1 => q = [r EXCEPT !.store = TRUE]
  BY <1>3 DEF Effect
<1>8. k = 2 => q = [r EXCEPT !.secrets = {secret}]
  BY <1>4 DEF Effect
<1>9. k = 3 => q = IF s = "rabbitmq" THEN [r EXCEPT !.granted = TRUE] ELSE r
  <2>1. CASE s = "rabbitmq"
    BY <1>5, <2>1 DEF Effect
  <2>2. CASE s # "rabbitmq"
    BY <1>5, <2>2 DEF Effect
  <2> QED
    BY <2>1, <2>2
<1>10. k = 4 => q = IF s = "rabbitmq" THEN r ELSE [r EXCEPT !.granted = TRUE]
  <2>1. CASE s = "rabbitmq"
    BY <1>6, <2>1 DEF Effect
  <2>2. CASE s # "rabbitmq"
    BY <1>6, <2>2 DEF Effect
  <2> QED
    BY <2>1, <2>2
<1> HIDE DEF q
<1>11. k # 4 => HalfProvisioned(s, k + 1, secret, q)
  BY <1>1, <1>2, <1>7, <1>8, <1>9 DEF HalfProvisioned, Resource
<1>12. k = 4 => Usable(s, q, secret)
  BY <1>1, <1>10 DEF HalfProvisioned, Resource, Usable
<1> QED
  BY <1>11, <1>12 DEF q, cmd

LEMMA RedisProvisionStep ==
  ASSUME NEW k \in 1 .. 2, NEW r \in Resource, NEW secret \in Nat, NEW seen,
         NEW saved, HalfProvisioned("redis", k, secret, r)
  PROVE  LET cmd == Provision("redis")[k]
             q == Effect(cmd, r, secret, seen)
         IN  /\ k # 2 => HalfProvisioned("redis", k + 1, secret, q)
             /\ k = 2 => Sound("redis", secret, q, SavedBy(cmd, r, saved))
<1> DEFINE cmd == Provision("redis")[k]
           q == Effect(cmd, r, secret, seen)
<1>1. CASE k = 1
  <2>1. cmd = "ACL SETUSER"
    BY <1>1, OtherProvisionLists
  <2>2. q = AddPassword(r, secret)
    BY <2>1 DEF Effect
  <2> HIDE DEF q
  <2>3. HalfProvisioned("redis", 2, secret, q)
    BY <2>2 DEF HalfProvisioned, AddPassword, Resource, HasStore
  <2> QED
    BY <1>1, <2>3 DEF q
<1>2. CASE k = 2
  <2>1. cmd = "ACL SAVE"
    BY <1>2, OtherProvisionLists
  <2>2. q = r /\ SavedBy(cmd, r, saved) = r.secrets
    BY <2>1 DEF Effect, SavedBy
  <2>3. secret \in r.secrets /\ r.granted
    BY <1>2 DEF HalfProvisioned
  <2> QED
    BY <1>2, <2>2, <2>3 DEF Sound, Usable, HasStore
<1> QED
  BY <1>1, <1>2

LEMMA ProvisionStep ==
  ASSUME NEW s \in Services, NEW k \in 1 .. Len(Provision(s)), NEW r \in Resource,
         NEW secret \in Nat, NEW seen, NEW saved, HalfProvisioned(s, k, secret, r)
  PROVE  LET cmd == Provision(s)[k]
             q == Effect(cmd, r, secret, seen)
         IN  /\ k # Len(Provision(s)) => HalfProvisioned(s, k + 1, secret, q)
             /\ k = Len(Provision(s)) => Sound(s, secret, q, SavedBy(cmd, r, saved))
<1>1. CASE s \in HasStore
  <2>1. Len(Provision(s)) = 4
    BY <1>1, ProvisionLists DEF HasStore
  <2> QED
    BY <1>1, <2>1, StoreProvisionStep DEF Sound, HasStore
<1>2. CASE s = "redis"
  <2>1. Len(Provision(s)) = 2
    BY <1>2, OtherProvisionLists
  <2> QED
    BY <1>2, <2>1, RedisProvisionStep
<1>3. CASE s = "mongodb"
  <2>1. Len(Provision(s)) = 1 /\ Provision(s)[1] = "createUser"
    BY <1>3, OtherProvisionLists
  <2>2. Effect("createUser", r, secret, seen) = [r EXCEPT !.secrets = {secret}, !.granted = TRUE]
    BY DEF Effect
  <2>3. Usable(s, Effect("createUser", r, secret, seen), secret)
    BY <1>3, <2>2 DEF Usable, Resource, HasStore
  <2>4. k = 1
    BY <2>1
  <2> QED
    BY <1>3, <2>1, <2>3, <2>4 DEF Sound
<1>4. CASE s = "signoz"
  <2>1. Len(Provision(s)) = 1
    BY <1>4, OtherProvisionLists
  <2>2. k = 1
    BY <2>1
  <2> QED
    BY <1>4, <2>1, <2>2 DEF Sound, Usable
<1> QED
  BY <1>1, <1>2, <1>3, <1>4, ServicesAssumption DEF AllServices, HasStore

(* A command of an Ensure never harms a credential that works, and the     *)
(* last one leaves one that does.                                          *)
LEMMA EnsureLists ==
  /\ Ensure("rabbitmq") = RabbitmqEnsure /\ Len(RabbitmqEnsure) = 6
  /\ RabbitmqEnsure[1] = "list_vhosts" /\ RabbitmqEnsure[2] = "ensure vhost"
  /\ RabbitmqEnsure[3] = "list_users" /\ RabbitmqEnsure[4] = "ensure user"
  /\ RabbitmqEnsure[5] = "set_permissions" /\ RabbitmqEnsure[6] = "set_user_tags"
  /\ Ensure("mongodb") = MongodbEnsure /\ Len(MongodbEnsure) = 1
  /\ MongodbEnsure[1] = "getUser createUser updateUser"
<1>1. Ensure("rabbitmq") = RabbitmqEnsure /\ Ensure("mongodb") = MongodbEnsure
  BY DEF Ensure
<1>2. /\ RabbitmqEnsure[1] = "list_vhosts" /\ RabbitmqEnsure[2] = "ensure vhost"
      /\ RabbitmqEnsure[3] = "list_users" /\ RabbitmqEnsure[4] = "ensure user"
      /\ RabbitmqEnsure[5] = "set_permissions" /\ RabbitmqEnsure[6] = "set_user_tags"
      /\ Len(RabbitmqEnsure) = 6
  BY DEF RabbitmqEnsure
<1>3. Len(MongodbEnsure) = 1 /\ MongodbEnsure[1] = "getUser createUser updateUser"
  BY DEF MongodbEnsure
<1> QED
  BY <1>1, <1>2, <1>3

LEMMA RabbitmqEnsureStep ==
  ASSUME NEW k \in 1 .. 6, NEW r \in Resource, NEW secret \in Nat, NEW seen,
         Accepts(Ensure("rabbitmq")[k], r, seen)
  PROVE  LET q == Effect(Ensure("rabbitmq")[k], r, secret, seen)
         IN  /\ Usable("rabbitmq", r, secret) => Usable("rabbitmq", q, secret)
             /\ HalfEnsured("rabbitmq", k, secret, r) =>
                  IF k = 6 THEN Usable("rabbitmq", q, secret)
                  ELSE HalfEnsured("rabbitmq", k + 1, secret, q)
<1> DEFINE cmd == Ensure("rabbitmq")[k]
           q == Effect(cmd, r, secret, seen)
           Harmless == Usable("rabbitmq", r, secret) => Usable("rabbitmq", q, secret)
           Onwards(n) == HalfEnsured("rabbitmq", n, secret, q)
<1>1. CASE k = 1 \/ k = 3
  <2>1. cmd = "list_vhosts" \/ cmd = "list_users"
    BY <1>1, EnsureLists
  <2>2. q = r
    BY <2>1 DEF Effect
  <2>3. Harmless /\ Onwards(2) /\ Onwards(4)
    BY <2>2 DEF HalfEnsured
  <2> QED
    BY <1>1, <2>3
<1>2. CASE k = 2
  <2>1. cmd = "ensure vhost"
    BY <1>2, EnsureLists
  <2>2. q = r \/ q = [r EXCEPT !.store = TRUE]
    BY <2>1 DEF Effect
  <2> HIDE DEF q
  <2>3. Harmless /\ Onwards(3)
    BY <2>2 DEF HalfEnsured, Usable, Resource
  <2> QED
    BY <1>2, <2>3 DEF q
<1>3. CASE k = 4
  <2>1. cmd = "ensure user"
    BY <1>3, EnsureLists
  <2>2. q = [r EXCEPT !.secrets = {secret}]
    BY <2>1 DEF Effect
  <2> HIDE DEF q
  <2>3. Harmless /\ Onwards(5)
    BY <2>2 DEF HalfEnsured, Usable, Resource
  <2> QED
    BY <1>3, <2>3 DEF q
<1>4. CASE k = 5
  <2>1. cmd = "set_permissions"
    BY <1>4, EnsureLists
  <2>2. q = [r EXCEPT !.granted = TRUE] /\ r.store /\ r.secrets # {}
    BY <2>1 DEF Effect, Accepts
  <2>3. HalfEnsured("rabbitmq", 5, secret, r) => secret \in r.secrets
    BY <2>2 DEF HalfEnsured
  <2> HIDE DEF q
  <2>4. Harmless /\ (HalfEnsured("rabbitmq", 5, secret, r) => Onwards(6))
    BY <2>2, <2>3 DEF HalfEnsured, Usable, Resource
  <2> QED
    BY <1>4, <2>4 DEF q
<1>5. CASE k = 6
  <2>1. cmd = "set_user_tags"
    BY <1>5, EnsureLists
  <2>2. q = r /\ r.secrets # {}
    BY <2>1 DEF Effect, Accepts
  <2>3. HalfEnsured("rabbitmq", 6, secret, r) => Usable("rabbitmq", q, secret)
    BY <2>2 DEF HalfEnsured
  <2> QED
    BY <1>5, <2>2, <2>3
<1> QED
  BY <1>1, <1>2, <1>3, <1>4, <1>5

LEMMA EnsureStep ==
  ASSUME NEW s \in ensured, NEW k \in 1 .. Len(Ensure(s)), NEW r \in Resource,
         NEW secret \in Nat, NEW seen, Accepts(Ensure(s)[k], r, seen)
  PROVE  LET q == Effect(Ensure(s)[k], r, secret, seen)
         IN  /\ Usable(s, r, secret) => Usable(s, q, secret)
             /\ HalfEnsured(s, k, secret, r) =>
                  IF k = Len(Ensure(s)) THEN Usable(s, q, secret)
                  ELSE HalfEnsured(s, k + 1, secret, q)
<1>1. CASE s = "mongodb"
  <2>0. Ensure(s)[1] = "getUser createUser updateUser"
    BY <1>1, EnsureLists
  <2>1. Len(Ensure(s)) = 1
    BY <1>1, EnsureLists
  <2>2. k = 1
    BY <2>1
  <2>3. Effect("getUser createUser updateUser", r, secret, seen) =
          [r EXCEPT !.secrets = {secret}, !.granted = TRUE]
    BY DEF Effect
  <2>4. Usable(s, Effect("getUser createUser updateUser", r, secret, seen), secret)
    BY <1>1, <2>3 DEF Usable, Resource, HasStore
  <2> QED
    BY <2>0, <2>1, <2>2, <2>4
<1>2. CASE s = "rabbitmq"
  <2>1. Len(Ensure(s)) = 6
    BY <1>2, EnsureLists
  <2> QED
    BY <1>2, <2>1, RabbitmqEnsureStep
<1> QED
  BY <1>1, <1>2 DEF ensured

-----------------------------------------------------------------------------
(* One command, in the state: it touches the resource of its target and    *)
(* service, and ACL SAVE the users of every app.                           *)
LEMMA AtWork ==
  ASSUME Typed, NEW c \in Clients, AtCommand(c)
  PROVE  LET o == op[c] IN
         /\ o \in Operation /\ WellFormed(o) /\ o.pc = "exec" /\ AtTarget(o)
         /\ o.target \in Apps /\ o.service \in Services /\ o.step \in 1 .. Len(Commands(o))
         /\ Resources(o) \in Resource /\ Secret(o) \in Nat /\ o.seen \in BOOLEAN
<1> DEFINE o == op[c]
<1>1. /\ o \in Operation /\ WellFormed(o) /\ o.pc = "exec" /\ AtTarget(o)
      /\ o.target \in Apps /\ o.service \in Services /\ o.step \in 1 .. Len(Commands(o))
  BY DEF Typed, AtCommand, WellFormed, AtTarget
<1>2. Secret(o) \in Nat /\ o.seen \in BOOLEAN
  BY <1>1 DEF Secret, Operation, AtTarget, Working, Provisioner, Registry, Entry
<1>3. Resources(o) \in Resource
  BY <1>1 DEF Resources, Typed, TypeOK
<1> QED
  BY <1>1, <1>2, <1>3

LEMMA ApplyEffect ==
  ASSUME Typed, NEW c \in Clients, AtCommand(c), Apply(op[c])
  PROVE  LET o == op[c] IN
         /\ Accepts(Command(o), Resources(o), o.seen)
         /\ res'[o.target][o.service] = Effect(Command(o), Resources(o), Secret(o), o.seen)
         /\ \A a \in Apps, s \in Services :
              a # o.target \/ s # o.service => res'[a][s] = res[a][s]
         /\ Command(o) = "ACL SAVE" => o.service = "redis"
         /\ \A a \in Apps : aclFile'[a] = SavedBy(Command(o), res[a]["redis"], aclFile[a])
<1> DEFINE o == op[c]
           q == Effect(Command(o), Resources(o), Secret(o), o.seen)
<1>1. /\ o.target \in Apps /\ o.service \in Services /\ o.step \in 1 .. Len(Commands(o))
  BY AtWork
<1>2. Accepts(Command(o), Resources(o), o.seen)
  BY DEF Apply
<1>3. res' = [res EXCEPT ![o.target][o.service] = q]
  BY <1>1 DEF Apply, Resources, Typed, TypeOK
<1> HIDE DEF q
<1>4. res \in [Apps -> [Services -> Resource]]
  BY DEF Typed, TypeOK
<1>5. res'[o.target][o.service] = q
  BY <1>1, <1>3, <1>4
<1>6. \A a \in Apps, s \in Services : a # o.target \/ s # o.service => res'[a][s] = res[a][s]
  BY <1>1, <1>3, <1>4
<1>7. Command(o) = "ACL SAVE" => o.service = "redis"
  <2>1. Commands(o) \in Seq(OtherCommands) => Command(o) # "ACL SAVE"
    BY <1>1, CommandOfList DEF Command
  <2> QED
    BY <1>1, <2>1, SavedByRedis DEF Commands
<1>8. \A a \in Apps : aclFile'[a] = SavedBy(Command(o), res[a]["redis"], aclFile[a])
  BY DEF Apply, Users, SavedBy
<1> QED
  BY <1>2, <1>5, <1>6, <1>7, <1>8 DEF q

(* A credential that works elsewhere keeps working and is saved if it was. *)
LEMMA SoundElsewhere ==
  ASSUME Typed, NEW c \in Clients, AtCommand(c), Apply(op[c]),
         NEW a \in Apps, NEW s \in Services, a # op[c].target \/ s # op[c].service,
         NEW secret, Sound(s, secret, res[a][s], aclFile[a])
  PROVE  Sound(s, secret, res'[a][s], aclFile'[a])
<1>1. res'[a][s] = res[a][s]
  BY ApplyEffect
<1>2. aclFile'[a] = SavedBy(Command(op[c]), res[a]["redis"], aclFile[a])
  BY ApplyEffect
<1>3. s = "redis" => secret \in res[a][s].secrets /\ secret \in aclFile[a]
  BY DEF Sound, Usable
<1>4. s = "redis" => secret \in aclFile'[a]
  BY <1>2, <1>3 DEF SavedBy
<1> QED
  BY <1>1, <1>4 DEF Sound

(* The services an operation works on, by its kind.                        *)
LEMMA ServiceOf ==
  ASSUME Typed, Courses, NEW c \in Clients, AtCommand(c)
  PROVE  LET o == op[c] IN
         /\ AtHand(o, registry)
         /\ o.service \in Pending(o, o.target) \ o.todo
         /\ Provisioner(o) => /\ o.entry[o.service] = NoConfig
                              /\ ~Lists(registry, o.target, o.service)
                              /\ Commands(o) = Provision(o.service) /\ Secret(o) = o.id
         /\ o.kind = "reconcile" =>
              /\ o.service \in ensured /\ Commands(o) = Ensure(o.service)
              /\ Secret(o) = registry[o.target][o.service]
         /\ o.kind = "remove" => Commands(o) = Teardown(o.service)
         /\ o.kind \in {"setup", "add", "remove", "reconcile"}
<1> DEFINE o == op[c]
<1>1. /\ o.pc = "exec" /\ Course(o, registry) /\ Working(o)
      /\ o.service \in Services
  BY AtWork DEF Courses, AtTarget
<1>2. /\ AtHand(o, registry) /\ o.service \in Pending(o, o.target) \ o.todo
      /\ Provisioner(o) => o.entry[o.service] = NoConfig
      /\ o.kind \in {"setup", "add", "remove", "reconcile"}
  BY <1>1 DEF Course, Working
<1>3. ASSUME Provisioner(o) PROVE ~Lists(registry, o.target, o.service)
  <2>1. Lists(registry, o.target, o.service) =>
          o.entry[o.service] = registry[o.target][o.service]
    BY <1>1, <1>2, <1>3 DEF AtHand
  <2> QED
    BY <1>2, <1>3, <2>1 DEF Lists
<1>4. Provisioner(o) => Commands(o) = Provision(o.service) /\ Secret(o) = o.id
  BY DEF Commands, Secret, Provisioner
<1>5. o.kind = "reconcile" =>
        /\ o.service \in ensured /\ Commands(o) = Ensure(o.service)
        /\ Secret(o) = registry[o.target][o.service]
  BY <1>2 DEF Pending, Commands, Secret, Provisioner, AtHand, Ahead
<1>6. o.kind = "remove" => Commands(o) = Teardown(o.service)
  BY DEF Commands, Provisioner
<1> QED
  BY <1>2, <1>3, <1>4, <1>5, <1>6

(* What has begun to be torn down stays so until the removal is over.      *)
LEMMA TornGrows ==
  ASSUME NEW o, WellFormed(o), o.pc = "exec", NEW p,
         Advances(o, p) \/ \E q \in {Completed(o), Failed(o)} : p \in AfterService(q)
  PROVE  Torn(o) \subseteq Torn(p)
<1>1. CASE o.kind # "remove"
  BY <1>1 DEF Torn
<1>2. CASE o.kind = "remove"
  <2>1. /\ p.kind = "remove" /\ p.loaded = o.loaded /\ p.target = o.target
        /\ p.pc \in {"exec", "save"} /\ p.todo \subseteq o.todo
    <3>1. CASE Advances(o, p)
      BY <1>2, <3>1 DEF Advances, SameTarget, SameJob
    <3>2. ASSUME NEW q \in {Completed(o), Failed(o)}, p \in AfterService(q)
          PROVE  /\ p.kind = "remove" /\ p.loaded = o.loaded /\ p.target = o.target
                 /\ p.pc \in {"exec", "save"} /\ p.todo \subseteq o.todo
      <4>1. /\ q \in Operation /\ AtTarget(q) /\ q.kind = o.kind /\ q.loaded = o.loaded
            /\ q.target = o.target /\ q.todo = o.todo
        <5>1. CASE q = Completed(o)
          BY <5>1, CompletedFields DEF SameJob
        <5>2. CASE q = Failed(o)
          BY <5>2, FailedFields
        <5> QED
          BY <3>2, <5>1, <5>2
      <4>2. Serves(q, p) \/ Saves(q, p)
        BY <1>2, <3>2, <4>1, AfterServiceMoves
      <4> QED
        BY <1>2, <4>1, <4>2 DEF Serves, Saves, SameTarget, SameJob
    <3> QED
      BY <3>1, <3>2
  <2>2. Pending(p, p.target) = Pending(o, o.target)
    BY <1>2, <2>1 DEF Pending
  <2> QED
    BY <1>2, <2>1, <2>2 DEF Torn
<1> QED
  BY <1>1, <1>2

-----------------------------------------------------------------------------
(* The invariant of credentials, between two commands.                     *)
LEMMA FirstStage ==
  ASSUME NEW p, p.step = 1, NEW R, NEW D
  PROVE  Stage(p, R, D)
  BY DEF Stage, HalfProvisioned, HalfEnsured

LEMMA OnwardOnTrack ==
  ASSUME NEW o \in Operation, Working(o), NEW p, Onward(o, p), NEW R, NEW F, NEW D,
         o.kind = "add" => \A a \in o.targets, s \in Services :
           Lists(o.loaded, a, s) => Fine(a, s, o.loaded[a][s], R, F, D)
  PROVE  OnTrack(p, R, F, D)
<1>1. CASE Ends(o, p)
  BY <1>1 DEF Ends, OnTrack
<1>2. ASSUME NEW a \in o.targets, Enters(o, p, a) PROVE OnTrack(p, R, F, D)
  <2>1. Stage(p, R, D)
    BY <1>2, FirstStage DEF Enters
  <2>2. ASSUME o.kind = "setup" PROVE Built(p, R, F, D)
    BY <1>2, <2>2 DEF Enters, Built, EmptyEntry
  <2>3. ASSUME o.kind = "add" PROVE Built(p, R, F, D)
    <3>1. p.entry = o.loaded[a] /\ p.target = a
      BY <1>2, <2>3 DEF Enters
    <3>2. o.loaded[a] # None
      BY <2>3 DEF Working
    <3> QED
      BY <2>3, <3>1, <3>2 DEF Built, Lists
  <2>4. Provisioner(p) => o.kind \in {"setup", "add"}
    BY <1>2 DEF Enters, SameJob, Provisioner
  <2> QED
    BY <2>1, <2>2, <2>3, <2>4 DEF OnTrack
<1> QED
  BY <1>1, <1>2 DEF Onward

LEMMA AfterServiceOnTrack ==
  ASSUME NEW o \in Operation, AtTarget(o), NEW p \in AfterService(o), NEW R, NEW F, NEW D,
         Provisioner(o) => Built(o, R, F, D)
  PROVE  OnTrack(p, R, F, D)
<1>1. CASE Serves(o, p)
  <2>1. Stage(p, R, D)
    BY <1>1, FirstStage DEF Serves
  <2>2. Provisioner(p) => Built(p, R, F, D)
    BY <1>1 DEF Serves, SameTarget, SameJob, Provisioner, Built
  <2> QED
    BY <2>1, <2>2 DEF OnTrack
<1>2. CASE Saves(o, p)
  BY <1>2 DEF Saves, SameTarget, SameJob, Provisioner, Built, OnTrack
<1>3. CASE o.kind = "reconcile" /\ Onward(o, p)
  BY <1>3, OnwardOnTrack DEF AtTarget
<1> QED
  BY <1>1, <1>2, <1>3, AfterServiceMoves

(* A command and what it settles leave every other credential as it was,   *)
(* and one that is being ensured at least as it was.                       *)
Settling(o, D) == D \ Settled(o)

LEMMA FineElsewhere ==
  ASSUME Typed, NEW c \in Clients, AtCommand(c), Apply(op[c]),
         NEW a \in Apps, NEW s \in Services, a # op[c].target \/ s # op[c].service,
         NEW secret, Fine(a, s, secret, res, aclFile, damaged)
  PROVE  Fine(a, s, secret, res', aclFile', Settling(op[c], damaged))
<1>1. CASE <<a, s>> \in damaged
  BY <1>1 DEF Fine, Settling, Settled
<1>2. CASE Sound(s, secret, res[a][s], aclFile[a])
  BY <1>2, SoundElsewhere DEF Fine
<1> QED
  BY <1>1, <1>2 DEF Fine

LEMMA EnsureKeeps ==
  ASSUME Typed, Courses, Steadies, NEW c \in Clients, AtCommand(c), Apply(op[c]),
         op[c].kind = "reconcile"
  PROVE  LET o == op[c] IN
         /\ Fine(o.target, o.service, Secret(o), res, aclFile, damaged) =>
              Fine(o.target, o.service, Secret(o), res', aclFile', Settling(o, damaged))
         /\ IF LastCommand(o) THEN Usable(o.service, res'[o.target][o.service], Secret(o))
            ELSE HalfEnsured(o.service, o.step + 1, Secret(o), res'[o.target][o.service])
<1> DEFINE o == op[c]
           r == Resources(o)
           q == Effect(Command(o), r, Secret(o), o.seen)
<1>1. /\ o.service \in ensured /\ Commands(o) = Ensure(o.service)
      /\ o.step \in 1 .. Len(Commands(o)) /\ r \in Resource /\ Secret(o) \in Nat
      /\ o.service \in Services /\ o.target \in Apps
  BY AtWork, ServiceOf
<1>2. /\ Accepts(Ensure(o.service)[o.step], r, o.seen)
      /\ res'[o.target][o.service] = q /\ Command(o) = Ensure(o.service)[o.step]
  BY <1>1, ApplyEffect DEF Command
<1>3. HalfEnsured(o.service, o.step, Secret(o), r)
  BY DEF Steadies, Steady, OnTrack, AtCommand, Stage, Resources
<1>4. /\ Usable(o.service, r, Secret(o)) => Usable(o.service, q, Secret(o))
      /\ IF LastCommand(o) THEN Usable(o.service, q, Secret(o))
         ELSE HalfEnsured(o.service, o.step + 1, Secret(o), q)
  BY <1>1, <1>2, <1>3, EnsureStep DEF LastCommand
<1>5. o.service # "redis"
  BY <1>1 DEF ensured
<1>6. ~LastCommand(o) => Settled(o) = {}
  BY DEF Settled, Provisioner
<1> HIDE DEF q
<1>7. ASSUME Fine(o.target, o.service, Secret(o), res, aclFile, damaged)
      PROVE  Fine(o.target, o.service, Secret(o), res', aclFile', Settling(o, damaged))
  <2>1. CASE LastCommand(o)
    BY <1>2, <1>4, <1>5, <2>1 DEF Fine, Sound
  <2>2. CASE ~LastCommand(o)
    BY <1>2, <1>4, <1>5, <1>6, <1>7, <2>2 DEF Fine, Sound, Settling, Resources
  <2> QED
    BY <2>1, <2>2
<1> QED
  BY <1>2, <1>4, <1>7

LEMMA ProvisionBuilds ==
  ASSUME Typed, Courses, Steadies, NEW c \in Clients, AtCommand(c), Apply(op[c]),
         Provisioner(op[c])
  PROVE  LET o == op[c] IN
         IF LastCommand(o)
         THEN Fine(o.target, o.service, o.id, res', aclFile', Settling(o, damaged))
         ELSE \/ <<o.target, o.service>> \in Settling(o, damaged)
              \/ HalfProvisioned(o.service, o.step + 1, o.id, res'[o.target][o.service])
<1> DEFINE o == op[c]
           r == Resources(o)
           q == Effect(Command(o), r, Secret(o), o.seen)
<1>1. /\ Commands(o) = Provision(o.service) /\ Secret(o) = o.id
      /\ o.step \in 1 .. Len(Commands(o)) /\ r \in Resource /\ Secret(o) \in Nat
      /\ o.service \in Services /\ o.target \in Apps
  BY AtWork, ServiceOf
<1>2. /\ res'[o.target][o.service] = q /\ Command(o) = Provision(o.service)[o.step]
      /\ aclFile'[o.target] = SavedBy(Command(o), res[o.target]["redis"], aclFile[o.target])
  BY <1>1, ApplyEffect DEF Command
<1>3. \/ <<o.target, o.service>> \in damaged
      \/ HalfProvisioned(o.service, o.step, o.id, r)
  BY DEF Steadies, Steady, OnTrack, AtCommand, Stage, Resources
<1>4. o.step = 1 => HalfProvisioned(o.service, o.step, o.id, r)
  BY DEF HalfProvisioned
<1>5. CASE HalfProvisioned(o.service, o.step, o.id, r)
  <2>1. /\ o.step # Len(Commands(o)) => HalfProvisioned(o.service, o.step + 1, o.id, q)
        /\ o.step = Len(Commands(o)) =>
             Sound(o.service, o.id, q, SavedBy(Command(o), r, aclFile[o.target]))
    BY <1>1, <1>2, <1>5, ProvisionStep
  <2>2. o.service = "redis" => aclFile'[o.target] = SavedBy(Command(o), r, aclFile[o.target])
    BY <1>2 DEF Resources
  <2> HIDE DEF q
  <2>3. LastCommand(o) => Sound(o.service, o.id, q, aclFile'[o.target])
    BY <2>1, <2>2 DEF LastCommand, Sound
  <2> QED
    BY <1>2, <2>1, <2>3 DEF LastCommand, Fine
<1>6. CASE <<o.target, o.service>> \in damaged /\ o.step # 1
  BY <1>6 DEF Settling, Settled, Provisioner, Fine
<1> QED
  BY <1>3, <1>4, <1>5, <1>6

(* More damage asks for less.                                              *)
LEMMA SteadyGrows ==
  ASSUME NEW p, NEW G, NEW R, NEW F, NEW D, NEW E, D \subseteq E, Steady(p, G, R, F, D)
  PROVE  Steady(p, G, R, F, E)
<1>1. \A a, s, secret : Fine(a, s, secret, R, F, D) => Fine(a, s, secret, R, F, E)
  BY DEF Fine
<1>2. Kept(p, G, R, F, E)
  BY <1>1 DEF Steady, Kept
<1>3. Built(p, R, F, D) => Built(p, R, F, E)
  BY <1>1 DEF Built
<1>4. Stage(p, R, D) => Stage(p, R, E)
  BY DEF Stage
<1> QED
  BY <1>2, <1>3, <1>4 DEF Steady, OnTrack

(* The record after a command, whether it succeeded or not.                *)
Goes(o, p) == Advances(o, p) \/ \E q \in {Completed(o), Failed(o)} : p \in AfterService(q)

LEMMA ApplyKept ==
  ASSUME Typed, Courses, Steadies, NEW c \in Clients, AtCommand(c), Apply(op[c]),
         NEW p, Goes(op[c], p)
  PROVE  Kept(p, registry, res', aclFile', Settling(op[c], damaged))
<1> DEFINE o == op[c]
<1>1. /\ WellFormed(o) /\ o.pc = "exec" /\ o.target \in Apps /\ o.service \in Services
      /\ Kept(o, registry, res, aclFile, damaged)
  BY AtWork DEF Steadies, Steady
<1>2. Torn(o) \subseteq Torn(p)
  BY <1>1, TornGrows DEF Goes
<1>3. ASSUME NEW a \in Apps, NEW s \in Services, Lists(registry, a, s)
      PROVE  \/ <<a, s>> \in Torn(p)
             \/ Fine(a, s, registry[a][s], res', aclFile', Settling(o, damaged))
  <2>1. <<a, s>> \in Torn(o) \/ Fine(a, s, registry[a][s], res, aclFile, damaged)
    BY <1>1, <1>3 DEF Kept
  <2>2. CASE a # o.target \/ s # o.service
    BY <1>2, <2>1, <2>2, FineElsewhere
  <2>3. CASE a = o.target /\ s = o.service
    <3>1. ~Provisioner(o)
      BY <1>3, <2>3, ServiceOf
    <3>2. CASE o.kind = "reconcile"
      <4>1. Torn(o) = {} /\ Secret(o) = registry[a][s]
        BY <2>3, <3>2, ServiceOf DEF Torn
      <4> QED
        BY <2>1, <2>3, <3>2, <4>1, EnsureKeeps
    <3>3. CASE o.kind = "remove"
      <4>1. <<a, s>> \in Torn(o)
        BY <1>1, <2>3, <3>3, ServiceOf DEF Torn
      <4> QED
        BY <1>2, <4>1
    <3> QED
      BY <3>1, <3>2, <3>3, ServiceOf DEF Provisioner
  <2> QED
    BY <2>2, <2>3
<1> QED
  BY <1>3 DEF Kept

LEMMA ApplyBuilt ==
  ASSUME Typed, Courses, Steadies, NEW c \in Clients, AtCommand(c), Apply(op[c]),
         Provisioner(op[c])
  PROVE  /\ Built(op[c], res', aclFile', Settling(op[c], damaged))
         /\ LastCommand(op[c]) =>
              Built(Completed(op[c]), res', aclFile', Settling(op[c], damaged))
<1> DEFINE o == op[c]
           D == Settling(o, damaged)
<1>1. /\ WellFormed(o) /\ o.pc = "exec" /\ o.target \in Apps /\ o.service \in Services
      /\ o.entry \in Entry /\ o.entry[o.service] = NoConfig
      /\ Built(o, res, aclFile, damaged)
  BY AtWork, ServiceOf DEF Steadies, Steady, OnTrack, Operation
<1>2. Built(o, res', aclFile', D)
  <2>1. ASSUME NEW s \in Services, o.entry[s] # NoConfig
        PROVE  Fine(o.target, s, o.entry[s], res', aclFile', D)
    <3>1. s # o.service /\ Fine(o.target, s, o.entry[s], res, aclFile, damaged)
      BY <1>1, <2>1 DEF Built
    <3> QED
      BY <1>1, <3>1, FineElsewhere
  <2> QED
    BY <2>1 DEF Built
<1>3. ASSUME LastCommand(o) PROVE Built(Completed(o), res', aclFile', D)
  <2> DEFINE q == Completed(o)
  <2>1. Fine(o.target, o.service, o.id, res', aclFile', D)
    BY <1>3, ProvisionBuilds
  <2>2. q.target = o.target /\ q.entry = [o.entry EXCEPT ![o.service] = o.id]
    BY <1>1, CompletedFields
  <2>3. \A s \in Services : q.entry[s] = IF s = o.service THEN o.id ELSE o.entry[s]
    BY <1>1, <2>2 DEF Entry
  <2> HIDE DEF q, D
  <2>4. Built(q, res', aclFile', D)
    BY <1>2, <2>1, <2>2, <2>3 DEF Built
  <2> QED
    BY <2>4 DEF q
<1> QED
  BY <1>2, <1>3

(* Only a setup, an add and a reconcile have a track to keep to.           *)
LEMMA OffTrack ==
  ASSUME NEW p, p.kind \notin {"setup", "add", "reconcile"}, NEW R, NEW F, NEW D
  PROVE  OnTrack(p, R, F, D)
  BY DEF OnTrack, Stage, Provisioner

LEMMA ApplyOnTrack ==
  ASSUME Typed, Courses, Steadies, NEW c \in Clients, AtCommand(c), Apply(op[c]),
         NEW p \in AfterCommand(op[c], Resources(op[c]))
  PROVE  OnTrack(p, res', aclFile', Settling(op[c], damaged))
<1> DEFINE o == op[c]
           D == Settling(o, damaged)
<1>1. WellFormed(o) /\ o.pc = "exec"
  BY AtWork
<1>2. Completed(o) \in Operation /\ AtTarget(Completed(o)) /\ SameJob(o, Completed(o))
  BY <1>1, CompletedFields
<1>3. CASE Advances(o, p)
  <2>1. /\ p.kind = o.kind /\ p.loaded = o.loaded /\ p.target = o.target /\ p.id = o.id
        /\ p.entry = o.entry /\ p.service = o.service /\ p.step = o.step + 1
        /\ ~LastCommand(o)
    BY <1>3 DEF Advances, SameTarget, SameJob
  <2>2. Secret(p) = Secret(o) /\ (Provisioner(p) <=> Provisioner(o))
    BY <2>1 DEF Secret, Provisioner
  <2>3. Provisioner(p) => Built(p, res', aclFile', D)
    BY <2>1, <2>2, ApplyBuilt DEF Built
  <2>4. Provisioner(p) => \/ <<p.target, p.service>> \in D
                          \/ HalfProvisioned(p.service, p.step, p.id, res'[p.target][p.service])
    BY <2>1, <2>2, ProvisionBuilds
  <2>5. p.kind = "reconcile" =>
          HalfEnsured(p.service, p.step, Secret(p), res'[p.target][p.service])
    BY <2>1, <2>2, EnsureKeeps
  <2> QED
    BY <2>3, <2>4, <2>5 DEF OnTrack, Stage
<1>4. CASE LastCommand(o) /\ p \in AfterService(Completed(o))
  <2> DEFINE q == Completed(o)
             R == res'
             F == aclFile'
  <2>1. q \in Operation /\ AtTarget(q) /\ p \in AfterService(q)
    BY <1>2, <1>4
  <2>2. Provisioner(q) => Built(q, R, F, D)
    BY <1>2, <1>4, ApplyBuilt DEF SameJob, Provisioner
  <2> HIDE DEF D, q, R, F
  <2>3. OnTrack(p, R, F, D)
    BY <2>1, <2>2, AfterServiceOnTrack
  <2> QED
    BY <2>3 DEF R, F, D
<1> QED
  BY <1>1, <1>3, <1>4, AfterCommandMoves

LEMMA ExecOkSteady ==
  ASSUME OneClient, Typed, Courses, Steadies, NEW c \in Clients, ExecOk(c)
  PROVE  Steadies'
<1> DEFINE o == op[c]
<1>1. /\ AtCommand(c) /\ Apply(o) /\ registry' = registry
      /\ damaged' = Settling(o, damaged)
  BY DEF ExecOk, Settling
<1>2. PICK p \in AfterCommand(o, Resources(o)) : Become(c, p)
  BY DEF ExecOk
<1>3. WellFormed(o) /\ o.pc = "exec"
  BY <1>1, AtWork
<1>4. Goes(o, p)
  BY <1>2, <1>3, AfterCommandMoves DEF Goes
<1>5. Kept(p, registry, res', aclFile', damaged')
  BY <1>1, <1>4, ApplyKept
<1>6. OnTrack(p, res', aclFile', damaged')
  BY <1>1, <1>2, ApplyOnTrack
<1>7. Steady(p, registry', res', aclFile', damaged')
  BY <1>1, <1>5, <1>6 DEF Steady
<1> QED
  BY <1>2, <1>7, AloneMoves DEF Steadies

LEMMA ExecFailsSteady ==
  ASSUME OneClient, Typed, Courses, Steadies, NEW c \in Clients, ExecFails(c)
  PROVE  Steadies'
<1> DEFINE o == op[c]
           q == Failed(o)
<1>1. AtCommand(c) /\ registry' = registry /\ damaged' = damaged
  BY DEF ExecFails
<1>2. PICK p \in AfterFailure(o) : Become(c, p)
  BY DEF ExecFails
<1>3. WellFormed(o) /\ o.pc = "exec" /\ o \in Operation
  BY <1>1, AtWork
<1>4. Goes(o, p)
  BY <1>2, <1>3, AfterFailureMoves, AfterCommandMoves DEF Goes
<1>5. /\ q \in Operation /\ AtTarget(q) /\ q.kind = o.kind /\ q.target = o.target
      /\ q.entry = o.entry
  BY <1>3, FailedFields
<1>6. /\ Kept(p, registry, res', aclFile', damaged)
      /\ Provisioner(o) => Built(o, res', aclFile', damaged)
  <2>1. CASE Apply(o)
    <3>1. Settling(o, damaged) \subseteq damaged
      BY DEF Settling
    <3>2. Kept(p, registry, res', aclFile', Settling(o, damaged))
      BY <1>1, <1>4, <2>1, ApplyKept
    <3>3. Provisioner(o) => Built(o, res', aclFile', Settling(o, damaged))
      BY <1>1, <2>1, ApplyBuilt
    <3> QED
      BY <3>1, <3>2, <3>3 DEF Kept, Built, Fine
  <2>2. CASE UNCHANGED <<res, aclFile>>
    <3>1. Steady(o, registry, res, aclFile, damaged)
      BY DEF Steadies
    <3>2. Torn(o) \subseteq Torn(p)
      BY <1>3, <1>4, TornGrows DEF Goes
    <3> QED
      BY <1>3, <2>2, <3>1, <3>2 DEF Steady, Kept, OnTrack
  <2> QED
    BY <2>1, <2>2 DEF ExecFails
<1>7. OnTrack(p, res', aclFile', damaged)
  <2>1. CASE Discards(o)
    <3>1. p.kind = "remove"
      <4>1. Completed(o) = o /\ AtTarget(o)
        BY <1>3, <2>1 DEF Discards, Completed, Provisioner, WellFormed
      <4>2. Advances(o, p) \/ p \in AfterService(o)
        BY <1>2, <1>3, <2>1, <4>1, AfterFailureMoves, AfterCommandMoves
      <4> QED
        BY <1>3, <2>1, <4>1, <4>2, AfterServiceMoves
           DEF Discards, Advances, Serves, Saves, SameTarget, SameJob
    <3> QED
      BY <3>1, OffTrack
  <2>2. CASE ~Discards(o)
    <3> DEFINE R == res'
               F == aclFile'
    <3>1. p \in AfterService(q)
      BY <1>2, <2>2, AfterFailureMoves
    <3>2. Provisioner(q) => Built(q, R, F, damaged)
      BY <1>5, <1>6 DEF Provisioner, Built
    <3> HIDE DEF q, R, F
    <3>3. OnTrack(p, R, F, damaged)
      BY <1>5, <3>1, <3>2, AfterServiceOnTrack
    <3> QED
      BY <3>3 DEF R, F
  <2> QED
    BY <2>1, <2>2
<1>8. Steady(p, registry', res', aclFile', damaged')
  BY <1>1, <1>6, <1>7 DEF Steady
<1> QED
  BY <1>2, <1>8, AloneMoves DEF Steadies

(* When nothing is being torn down, everything listed is fine.             *)
Healthy(G, R, F, D) ==
  \A a \in Apps, s \in Services : Lists(G, a, s) => Fine(a, s, G[a][s], R, F, D)

LEMMA HealthyKept ==
  ASSUME NEW o, NEW G, NEW R, NEW F, NEW D
  PROVE  /\ Healthy(G, R, F, D) => Kept(o, G, R, F, D)
         /\ Kept(o, G, R, F, D) /\ Torn(o) = {} => Healthy(G, R, F, D)
  BY DEF Healthy, Kept

LEMMA BeginSteady ==
  ASSUME OneClient, Typed, Courses, Steadies, NEW c \in Clients, Begin(c)
  PROVE  Steadies'
<1>1. op[c].pc = "idle" /\ UNCHANGED <<registry, res, aclFile, damaged>>
  BY BeginMoves
<1>2. PICK p : /\ Become(c, p)
               /\ \/ StartsProvisioner(p) \/ StartsRemove(p) \/ StartsDetach(p)
                  \/ StartsReconcile(p) \/ StartsEncrypt(p)
  BY BeginMoves
<1>3. Kept(p, registry, res, aclFile, damaged)
  <2>1. Torn(op[c]) = {}
    BY <1>1 DEF Torn
  <2> QED
    BY <2>1, HealthyKept DEF Steadies, Steady
<1>4. ASSUME StartsProvisioner(p) PROVE OnTrack(p, res, aclFile, damaged)
  BY <1>4 DEF StartsProvisioner, OnTrack
<1>5. ASSUME StartsRemove(p) PROVE OnTrack(p, res, aclFile, damaged)
  <2>1. PICK q \in Operation : AtTarget(q) /\ q.kind = "remove" /\ p \in AfterService(q)
    BY <1>5 DEF StartsRemove
  <2> QED
    BY <2>1, AfterServiceOnTrack DEF Provisioner
<1>6. ASSUME StartsReconcile(p) PROVE OnTrack(p, res, aclFile, damaged)
  <2>1. PICK q \in Operation : Working(q) /\ q.kind = "reconcile" /\ p \in NextTarget(q)
    BY <1>6 DEF StartsReconcile
  <2> QED
    BY <2>1, NextTargetOnward, OnwardOnTrack
<1>7. ASSUME StartsDetach(p) \/ StartsEncrypt(p) PROVE OnTrack(p, res, aclFile, damaged)
  BY <1>7, OffTrack DEF StartsDetach, StartsEncrypt
<1>8. Steady(p, registry, res, aclFile, damaged)
  BY <1>2, <1>3, <1>4, <1>5, <1>6, <1>7 DEF Steady
<1> QED
  BY <1>1, <1>2, <1>8, AloneMoves DEF Steadies

(* A client that stops leaves what it had begun to tear down damaged.      *)
LEMMA StopSteady ==
  ASSUME OneClient, Typed, Steadies, NEW c \in Clients, SaveFails(c) \/ Crash(c) \/ Return(c)
  PROVE  Steadies'
<1> DEFINE o == op[c]
           E == damaged \cup Torn(o)
<1>1. o \in Operation /\ Kept(o, registry, res, aclFile, damaged)
  BY DEF Typed, WellFormed, Steadies, Steady
<1>2. /\ UNCHANGED <<registry, res, aclFile>> /\ damaged' = E
      /\ \E p : Become(c, p) /\ p.pc \in {"idle", "done"}
  <2>1. Idle.pc = "idle"
    BY DEF Idle
  <2>2. CASE SaveFails(c)
    <3>1. [o EXCEPT !.ok = FALSE] \in Operation
      BY <1>1 DEF Operation
    <3> QED
      BY <2>2, <3>1, FinishFields DEF SaveFails
  <2>3. CASE Crash(c)
    BY <2>1, <2>3 DEF Crash
  <2>4. CASE Return(c)
    BY <2>1, <2>4 DEF Return, Torn
  <2> QED
    BY <2>2, <2>3, <2>4
<1>3. PICK p : Become(c, p) /\ p.pc \in {"idle", "done"}
  BY <1>2
<1>4. Healthy(registry, res, aclFile, E)
  BY <1>1 DEF Kept, Healthy, Fine
<1>5. OnTrack(p, res, aclFile, E)
  BY <1>3 DEF OnTrack
<1>6. Steady(p, registry', res', aclFile', damaged')
  BY <1>2, <1>4, <1>5, HealthyKept DEF Steady
<1> QED
  BY <1>3, <1>6, AloneMoves DEF Steadies

LEMMA CheckSteady ==
  ASSUME OneClient, Typed, Courses, Steadies, NEW c \in Clients, CheckContainers(c)
  PROVE  Steadies'
<1> DEFINE o == op[c]
<1>1. /\ o \in Operation /\ o.pc = "check" /\ Working(o) /\ o.loaded = registry
      /\ UNCHANGED <<registry, res, aclFile, damaged>>
  BY DEF CheckContainers, Typed, WellFormed, Courses, Course, Ahead
<1>2. Healthy(registry, res, aclFile, damaged)
  <2>1. Torn(o) = {}
    BY <1>1 DEF Torn
  <2> QED
    BY <2>1, HealthyKept DEF Steadies, Steady
<1>3. ASSUME NEW p \in NextTarget(o) PROVE OnTrack(p, res, aclFile, damaged)
  <2>1. Onward(o, p)
    BY <1>1, NextTargetOnward
  <2>2. o.targets \subseteq Apps
    BY <1>1 DEF Operation
  <2> QED
    BY <1>1, <1>2, <2>1, <2>2, OnwardOnTrack DEF Healthy
<1>4. OnTrack(Finish([o EXCEPT !.ok = FALSE]), res, aclFile, damaged)
  <2>1. [o EXCEPT !.ok = FALSE] \in Operation
    BY <1>1 DEF Operation
  <2> QED
    BY <2>1, FinishFields DEF OnTrack
<1>5. PICK p : Become(c, p) /\ OnTrack(p, res, aclFile, damaged)
  BY <1>3, <1>4 DEF CheckContainers
<1>6. Steady(p, registry, res, aclFile, damaged)
  BY <1>2, <1>5, HealthyKept DEF Steady
<1> QED
  BY <1>1, <1>5, <1>6, AloneMoves DEF Steadies

LEMMA SaveSteady ==
  ASSUME OneClient, Typed, Courses, Steadies, NEW c \in Clients, Save(c)
  PROVE  Steadies'
<1> DEFINE o == op[c]
           G == registry'
<1>1. /\ UNCHANGED <<res, aclFile, damaged>> /\ o \in Operation /\ o.pc = "save"
      /\ Kept(o, registry, res, aclFile, damaged) /\ OnTrack(o, res, aclFile, damaged)
      /\ registry \in Registry
  BY SaveMoves DEF Save, Typed, TypeOK, WellFormed, Steadies, Steady
<1>2. PICK p : /\ Become(c, p)
               /\ \/ SavesEntry(o, p) \/ SavesRemoval(o, p)
                  \/ SavesDetach(o, p) \/ SavesSame(o, p)
  BY SaveMoves
<1>3. Healthy(G, res, aclFile, damaged)
  <2>1. CASE SavesEntry(o, p)
    <3>1. /\ G = [registry EXCEPT ![o.target] = o.entry] /\ o.target \in Apps
          /\ Built(o, res, aclFile, damaged) /\ Torn(o) = {}
      BY <1>1, <2>1 DEF SavesEntry, OnTrack, Torn, Provisioner
    <3>2. Healthy(registry, res, aclFile, damaged)
      BY <1>1, <3>1, HealthyKept
    <3> QED
      BY <1>1, <3>1, <3>2 DEF Registry, Healthy, Lists, Built
  <2>2. CASE SavesRemoval(o, p)
    <3>1. G = [registry EXCEPT ![o.target] = None] /\ o.target \in Apps /\ o.kind = "remove"
      BY <2>2 DEF SavesRemoval
    <3>2. \A a \in Apps, s \in Services : <<a, s>> \in Torn(o) => a = o.target
      BY DEF Torn
    <3> QED
      BY <1>1, <3>1, <3>2 DEF Registry, Healthy, Kept, Lists
  <2>3. CASE SavesDetach(o, p)
    <3>1. /\ G = [registry EXCEPT ![o.target] = o.entry] /\ Torn(o) = {}
          /\ Detaching(o, registry)
      BY <2>3 DEF SavesDetach, Torn
    <3>2. Healthy(registry, res, aclFile, damaged)
      BY <1>1, <3>1, HealthyKept
    <3> QED
      BY <1>1, <3>1, <3>2 DEF Registry, Healthy, Lists, Detaching
  <2>4. CASE SavesSame(o, p)
    <3>1. G = registry /\ Torn(o) = {}
      BY <2>4 DEF SavesSame, Torn
    <3> QED
      BY <1>1, <3>1, HealthyKept
  <2> QED
    BY <1>2, <2>1, <2>2, <2>3, <2>4
<1> HIDE DEF G
<1>4. OnTrack(p, res, aclFile, damaged)
  <2>1. CASE SavesEntry(o, p)
    <3>1. PICK q \in Operation : q.loaded = G /\ Working(q) /\ Onward(q, p)
      BY <2>1 DEF SavesEntry, G
    <3>2. q.targets \subseteq Apps
      BY DEF Operation
    <3> QED
      BY <1>3, <3>1, <3>2, OnwardOnTrack DEF Healthy
  <2>2. CASE p = Finish(o)
    BY <1>1, <2>2, FinishFields DEF OnTrack
  <2> QED
    BY <1>2, <2>1, <2>2 DEF SavesRemoval, SavesDetach, SavesSame
<1>5. Steady(p, G, res, aclFile, damaged)
  BY <1>3, <1>4, HealthyKept DEF Steady
<1> QED
  BY <1>1, <1>2, <1>5, AloneMoves DEF Steadies, G

(* A loss: what it takes is damaged or was not there, and a restart of     *)
(* redis takes no account that has been saved.                             *)
LEMMA LossFine ==
  ASSUME Typed, Losses, NEW a \in Apps, NEW t \in Services, NEW secret,
         Fine(a, t, secret, res, aclFile, damaged)
  PROVE  Fine(a, t, secret, res', aclFile', damaged')
<1>1. ASSUME NEW s \in Services, Wipe(s) PROVE Fine(a, t, secret, res', aclFile', damaged')
  <2>1. /\ \A u \in Services : res'[a][u] = IF u = s THEN Blank ELSE res[a][u]
        /\ s # "redis" => aclFile' = aclFile
        /\ damaged \subseteq damaged' /\ (res[a][s] # Blank => <<a, s>> \in damaged')
    BY <1>1 DEF Wipe, Typed, TypeOK
  <2>2. Usable(t, Blank, secret) => t # "redis"
    BY DEF Usable, Blank
  <2> QED
    BY <2>1, <2>2 DEF Fine, Sound
<1>2. ASSUME RestartRedis PROVE Fine(a, t, secret, res', aclFile', damaged')
  <2> DEFINE q == [Blank EXCEPT !.secrets = aclFile[a], !.granted = (aclFile[a] # {})]
  <2>1. /\ \A u \in Services : res'[a][u] = IF u = "redis" THEN q ELSE res[a][u]
        /\ aclFile' = aclFile /\ damaged \subseteq damaged'
    BY <1>2 DEF RestartRedis, Typed, TypeOK
  <2>2. secret \in aclFile[a] => Usable("redis", q, secret)
    BY DEF Blank, Usable, HasStore
  <2> HIDE DEF q
  <2> QED
    BY <2>1, <2>2 DEF Fine, Sound
<1> QED
  BY <1>1, <1>2 DEF Losses

LEMMA LossStage ==
  ASSUME Typed, Losses, NEW c \in Clients, AtCommand(c), Stage(op[c], res, damaged)
  PROVE  Stage(op[c], res', damaged')
<1> DEFINE o == op[c]
           a == o.target
           t == o.service
<1>1. a \in Apps /\ t \in Services /\ o.pc = "exec"
  BY AtWork
<1>2. \/ res'[a][t] = res[a][t] /\ damaged \subseteq damaged'
      \/ <<a, t>> \in damaged' /\ (t # "redis" => res'[a][t] = Blank)
  <2>1. ASSUME NEW s \in Services, Wipe(s)
        PROVE  \/ res'[a][t] = res[a][t] /\ damaged \subseteq damaged'
               \/ <<a, t>> \in damaged' /\ res'[a][t] = Blank
    <3>1. /\ res'[a][t] = IF t = s THEN Blank ELSE res[a][t]
          /\ damaged \subseteq damaged' /\ (res[a][s] # Blank => <<a, s>> \in damaged')
      BY <1>1, <2>1 DEF Wipe, Typed, TypeOK
    <3> QED
      BY <3>1
  <2>2. ASSUME RestartRedis
        PROVE  \/ res'[a][t] = res[a][t] /\ damaged \subseteq damaged'
               \/ <<a, t>> \in damaged' /\ t = "redis"
    <3>1. /\ t # "redis" => res'[a][t] = res[a][t]
          /\ damaged \subseteq damaged' /\ (WorkedOn(a, "redis") => <<a, "redis">> \in damaged')
      BY <1>1, <2>2 DEF RestartRedis, Typed, TypeOK
    <3>2. t = "redis" => WorkedOn(a, "redis")
      BY <1>1 DEF WorkedOn
    <3> QED
      BY <3>1, <3>2
  <2> QED
    BY <2>1, <2>2 DEF Losses
<1>3. HalfEnsured(t, o.step, Secret(o), Blank)
  BY DEF HalfEnsured, Blank
<1>4. t = "redis" => HalfEnsured(t, o.step, Secret(o), res'[a][t])
  BY DEF HalfEnsured
<1> QED
  BY <1>2, <1>3, <1>4 DEF Stage

LEMMA LossSteady ==
  ASSUME Typed, Courses, Steadies, Losses
  PROVE  Steadies'
<1> SUFFICES ASSUME NEW c \in Clients
             PROVE  Steady(op'[c], registry', res', aclFile', damaged')
  BY DEF Steadies
<1> DEFINE o == op[c]
           p == Upset(o)
<1>1. /\ o \in Operation /\ WellFormed(o) /\ op'[c] = p /\ registry' = registry
      /\ Kept(o, registry, res, aclFile, damaged) /\ OnTrack(o, res, aclFile, damaged)
  BY LossMoves DEF Typed, WellFormed, Steadies, Steady
<1>2. /\ p.pc = o.pc /\ p.kind = o.kind /\ p.loaded = o.loaded /\ p.target = o.target
      /\ p.entry = o.entry /\ p.todo = o.todo /\ p.service = o.service /\ p.step = o.step
      /\ p.id = o.id /\ Pending(p, o.target) = Pending(o, o.target)
      /\ Provisioner(p) <=> Provisioner(o)
  BY <1>1, UpsetFields
<1> HIDE DEF p
<1>3. Torn(p) = Torn(o) /\ Secret(p) = Secret(o)
  BY <1>2 DEF Torn, Secret
<1>4. Kept(p, registry, res', aclFile', damaged')
  BY <1>1, <1>3, LossFine DEF Kept
<1>5. Provisioner(p) /\ p.pc \in {"exec", "save"} => Built(p, res', aclFile', damaged')
  <2>1. Provisioner(o) /\ o.pc \in {"exec", "save"} => o.target \in Apps
    BY <1>1 DEF WellFormed, AtTarget, Provisioner
  <2> QED
    BY <1>1, <1>2, <2>1, LossFine DEF OnTrack, Built
<1>6. p.pc = "exec" => Stage(p, res', damaged')
  <2>1. o.pc = "exec" => Stage(o, res', damaged')
    BY <1>1, LossStage DEF OnTrack, AtCommand
  <2> QED
    BY <1>2, <1>3, <2>1 DEF Stage
<1> QED
  BY <1>1, <1>4, <1>5, <1>6 DEF Steady, OnTrack

LEMMA SteadyNext ==
  ASSUME OneClient, Typed, Courses, Steadies, [Next]_vars
  PROVE  Steadies'
<1>1. ASSUME NEW c \in Clients, Proceed(c) PROVE Steadies'
  BY <1>1, CheckSteady, ExecOkSteady, ExecFailsSteady, SaveSteady, StopSteady DEF Proceed
<1>2. CASE UNCHANGED vars
  BY <1>2 DEF vars, Steadies
<1> QED
  BY <1>1, <1>2, BeginSteady, StopSteady, LossSteady DEF Next, Losses

LEMMA SteadyAlways ==
  ASSUME OneClient
  PROVE  Spec => [](Typed /\ Courses /\ Steadies)
<1>1. Init => Steadies
  <2>1. ASSUME Init, NEW c \in Clients
        PROVE  Steady(op[c], registry, res, aclFile, damaged)
    <3>1. op[c].pc = "idle" /\ \A a \in Apps : registry[a] = None
      BY <2>1 DEF Init, Idle, EmptyRegistry
    <3> QED
      BY <3>1 DEF Steady, Kept, Lists, OnTrack
  <2> QED
    BY <2>1 DEF Steadies
<1>2. Typed /\ Courses /\ Steadies /\ [Next]_vars => Steadies'
  BY SteadyNext
<1> QED
  BY <1>1, <1>2, CourseAlways, PTL DEF Spec

(***************************************************************************)
(* The registry is the source of truth for whoever runs one command at a   *)
(* time: every credential it lists opens the live resource, whatever       *)
(* failed, was killed or was lost before, unless its resource was          *)
(* destroyed and not ensured since or a removal of the app has begun.      *)
(***************************************************************************)
THEOREM SerialRegisteredUsable ==
  ASSUME OneClient
  PROVE  Spec => []RegisteredUsable
<1>1. Typed /\ Steadies => RegisteredUsable
  <2> SUFFICES ASSUME Typed, Steadies, NEW a \in Apps, NEW s \in Services, Registered(a, s)
               PROVE  \/ Usable(s, res[a][s], registry[a][s])
                      \/ <<a, s>> \in damaged
                      \/ BeingRemoved(a)
    BY DEF RegisteredUsable
  <2>1. PICK c \in Clients : Steady(op[c], registry, res, aclFile, damaged)
    BY DEF Steadies, OneClient
  <2>2. \/ <<a, s>> \in Torn(op[c])
        \/ Fine(a, s, registry[a][s], res, aclFile, damaged)
    BY <2>1 DEF Steady, Kept, Lists, Registered
  <2>3. <<a, s>> \in Torn(op[c]) => BeingRemoved(a)
    BY DEF Torn, BeingRemoved
  <2> QED
    BY <2>2, <2>3 DEF Fine, Sound
<1> QED
  BY <1>1, SteadyAlways, PTL

-----------------------------------------------------------------------------
(* What a setup or an add delivers.                                        *)
LEMMA OnwardDelivering ==
  ASSUME NEW G, NEW o \in Operation, Working(o), Ahead(o, G), NEW p, Onward(o, p),
         o.ok => \A a \in o.request \ o.targets, s \in o.services : Lists(G, a, s)
  PROVE  Delivering(p, G)
<1> SUFFICES ASSUME Provisioner(p), p.ok, NEW a \in p.request, NEW s \in p.services
             PROVE  Left(p, a, s) \/ Lists(G, a, s)
  BY DEF Delivering
<1>1. CASE Ends(o, p)
  BY <1>1 DEF Ends, SameJob
<1>2. ASSUME NEW b \in o.targets, Enters(o, p, b) PROVE Left(p, a, s) \/ Lists(G, a, s)
  <2>1. /\ o.ok /\ a \in o.request /\ s \in o.services /\ Provisioner(o) /\ o.loaded = G
        /\ p.pc = "exec" /\ p.target = b /\ p.targets = o.targets \ {b}
        /\ p.service \in Pending(o, b) /\ p.todo = Pending(o, b) \ {p.service}
    BY <1>2 DEF Enters, SameJob, Provisioner, Ahead
  <2>2. CASE a = b
    <3>1. s \in Pending(o, b) \/ Lists(G, a, s)
      BY <2>1, <2>2 DEF Pending, Provisioner, Working, Lists
    <3> QED
      BY <2>1, <2>2, <3>1 DEF Left
  <2>3. CASE a # b
    BY <2>1, <2>3 DEF Left
  <2> QED
    BY <2>2, <2>3
<1> QED
  BY <1>1, <1>2 DEF Onward

LEMMA AdvancesDelivering ==
  ASSUME NEW G, NEW o, NEW p, o.pc = "exec", Advances(o, p), Delivering(o, G)
  PROVE  Delivering(p, G)
  BY DEF Advances, SameTarget, SameJob, Provisioner, Delivering, Left

LEMMA CompletedDelivering ==
  ASSUME NEW G, NEW o, WellFormed(o), Course(o, G), o.pc = "exec", Delivering(o, G),
         NEW p \in AfterService(Completed(o))
  PROVE  Delivering(p, G)
<1> DEFINE q == Completed(o)
<1>1. /\ q \in Operation /\ AtTarget(q)
      /\ SameJob(o, q) /\ q.target = o.target /\ q.targets = o.targets
      /\ q.todo = o.todo
      /\ Provisioner(o) => q.entry = [o.entry EXCEPT ![o.service] = o.id]
  BY CompletedFields
<1>2. Serves(q, p) \/ Saves(q, p) \/ (q.kind = "reconcile" /\ Onward(q, p))
  BY <1>1, AfterServiceMoves
<1> HIDE DEF q
<1> SUFFICES ASSUME Provisioner(p), p.ok, NEW a \in p.request, NEW s \in p.services
             PROVE  \/ Left(p, a, s)
                    \/ a = p.target /\ p.pc \in {"exec", "save"} /\ p.entry[s] # NoConfig
                    \/ Lists(G, a, s)
  BY DEF Delivering
<1>3. /\ Provisioner(o) /\ o.ok /\ a \in o.request /\ s \in o.services
      /\ Serves(q, p) \/ Saves(q, p)
      /\ p.entry = q.entry /\ p.target = o.target /\ p.targets = o.targets
  BY <1>1, <1>2 DEF Onward, Ends, Enters, Serves, Saves, SameTarget, SameJob, Provisioner
<1>4. /\ o.service \in Services /\ o.entry \in Entry /\ o.services \subseteq Services
      /\ o.id # NoConfig
  BY <1>3 DEF WellFormed, Operation, Course, AtHand, Ahead
<1>5. \A t \in Services : p.entry[t] = IF t = o.service THEN o.id ELSE o.entry[t]
  BY <1>1, <1>3, <1>4 DEF Entry
<1>6. \/ Left(o, a, s)
      \/ a = o.target /\ o.entry[s] # NoConfig
      \/ Lists(G, a, s)
  BY <1>3 DEF Delivering
<1>7. CASE Serves(q, p)
  BY <1>1, <1>3, <1>4, <1>5, <1>6, <1>7 DEF Serves, SameTarget, Left
<1>8. CASE Saves(q, p)
  BY <1>1, <1>3, <1>4, <1>5, <1>6, <1>8 DEF Saves, SameTarget, Left
<1> QED
  BY <1>3, <1>7, <1>8

(* Other operations, and those that reported an error, promise nothing.    *)
LEMMA OtherDelivering ==
  ASSUME NEW G, NEW p, ~Provisioner(p) \/ ~p.ok
  PROVE  Delivering(p, G)
  BY DEF Delivering

LEMMA GoesJob ==
  ASSUME NEW o, WellFormed(o), o.pc = "exec", NEW p, Goes(o, p)
  PROVE  p.kind = o.kind
<1>1. CASE Advances(o, p)
  BY <1>1 DEF Advances, SameTarget, SameJob
<1>2. ASSUME NEW q \in {Completed(o), Failed(o)}, p \in AfterService(q)
      PROVE  p.kind = o.kind
  <2>1. q \in Operation /\ AtTarget(q) /\ q.kind = o.kind
    <3>1. CASE q = Completed(o)
      BY <3>1, CompletedFields DEF SameJob
    <3>2. CASE q = Failed(o)
      BY <3>2, FailedFields
    <3> QED
      BY <1>2, <3>1, <3>2
  <2> QED
    BY <1>2, <2>1, AfterServiceMoves
       DEF Serves, Saves, Onward, Ends, Enters, SameTarget, SameJob
<1> QED
  BY <1>1, <1>2 DEF Goes

LEMMA FailedNotOk ==
  ASSUME NEW o, WellFormed(o), o.pc = "exec", NEW p \in AfterService(Failed(o))
  PROVE  ~p.ok
<1> DEFINE q == Failed(o)
<1>1. q \in Operation /\ AtTarget(q) /\ ~q.ok
  BY FailedFields
<1>2. Serves(q, p) \/ Saves(q, p) \/ Onward(q, p)
  BY <1>1, AfterServiceMoves
<1> HIDE DEF q
<1> QED
  BY <1>1, <1>2 DEF Onward, Ends, Enters, Serves, Saves, SameTarget, SameJob

LEMMA BeginDelivering ==
  ASSUME OneClient, Typed, NEW c \in Clients, Begin(c)
  PROVE  Deliveries'
<1>1. registry' = registry
  BY BeginMoves
<1>2. PICK p : /\ Become(c, p)
               /\ \/ StartsProvisioner(p) \/ StartsRemove(p) \/ StartsDetach(p)
                  \/ StartsReconcile(p) \/ StartsEncrypt(p)
  BY BeginMoves
<1>3. ASSUME StartsProvisioner(p) PROVE Delivering(p, registry)
  BY <1>3 DEF StartsProvisioner, Delivering, Left, Lists, Provisioner
<1>4. ASSUME StartsRemove(p) PROVE ~Provisioner(p)
  <2>1. PICK q \in Operation : AtTarget(q) /\ q.kind = "remove" /\ p \in AfterService(q)
    BY <1>4 DEF StartsRemove
  <2> QED
    BY <2>1, AfterServiceMoves DEF Serves, Saves, SameTarget, SameJob, Provisioner
<1>5. ASSUME StartsReconcile(p) PROVE ~Provisioner(p)
  <2>1. PICK q \in Operation : Working(q) /\ q.kind = "reconcile" /\ p \in NextTarget(q)
    BY <1>5 DEF StartsReconcile
  <2> QED
    BY <2>1, NextTargetOnward DEF Onward, Ends, Enters, SameJob, Provisioner
<1>6. ASSUME StartsDetach(p) \/ StartsEncrypt(p) PROVE ~Provisioner(p)
  BY <1>6 DEF StartsDetach, StartsEncrypt, Provisioner
<1>7. Delivering(p, registry)
  BY <1>2, <1>3, <1>4, <1>5, <1>6, OtherDelivering
<1> QED
  BY <1>1, <1>2, <1>7, AloneMoves DEF Deliveries

LEMMA ExecDelivering ==
  ASSUME OneClient, Typed, Courses, Deliveries, NEW c \in Clients, ExecOk(c) \/ ExecFails(c)
  PROVE  Deliveries'
<1> DEFINE o == op[c]
<1>1. AtCommand(c) /\ registry' = registry
  BY DEF ExecOk, ExecFails
<1>2. /\ WellFormed(o) /\ o.pc = "exec" /\ Course(o, registry) /\ Delivering(o, registry)
  BY <1>1, AtWork DEF Courses, Deliveries
<1>3. ASSUME NEW r, NEW p \in AfterCommand(o, r) PROVE Delivering(p, registry)
  BY <1>2, <1>3, AfterCommandMoves, AdvancesDelivering, CompletedDelivering
<1>4. ASSUME NEW p \in AfterFailure(o) PROVE Delivering(p, registry)
  BY <1>2, <1>3, <1>4, AfterFailureMoves, FailedNotOk, OtherDelivering
<1>5. PICK p : Become(c, p) /\ Delivering(p, registry)
  BY <1>3, <1>4 DEF ExecOk, ExecFails
<1> QED
  BY <1>1, <1>5, AloneMoves DEF Deliveries

LEMMA SaveDelivering ==
  ASSUME OneClient, Typed, Courses, Deliveries, NEW c \in Clients, Save(c)
  PROVE  Deliveries'
<1> DEFINE o == op[c]
           G == registry'
<1>1. o \in Operation /\ Delivering(o, registry) /\ registry \in Registry /\ o.pc = "save"
  BY DEF Save, Typed, TypeOK, WellFormed, Deliveries
<1>2. PICK p : /\ Become(c, p)
               /\ \/ SavesEntry(o, p) \/ SavesRemoval(o, p)
                  \/ SavesDetach(o, p) \/ SavesSame(o, p)
  BY SaveMoves
<1>3. ASSUME SavesEntry(o, p) PROVE Delivering(p, G)
  <2>1. /\ Provisioner(o) /\ AtHand(o, registry) /\ o.todo = {} /\ o.target \in Apps
        /\ G = [registry EXCEPT ![o.target] = o.entry]
    BY <1>3 DEF SavesEntry
  <2>2. PICK q \in Operation :
          /\ q.kind = o.kind /\ q.loaded = registry' /\ q.services = o.services
          /\ q.request = o.request /\ q.id = o.id /\ q.ok = o.ok
          /\ q.targets = o.targets /\ Working(q) /\ Onward(q, p)
    BY <1>3 DEF SavesEntry
  <2>3. o.entry # None /\ o.entry \in Entry /\ o.services \subseteq Services
        /\ o.targets \subseteq Apps /\ o.request \subseteq Apps
    BY <1>1, NoneAssumption DEF Operation, Entry
  <2>4. \A a \in Apps : G[a] = IF a = o.target THEN o.entry ELSE registry[a]
    BY <1>1, <2>1 DEF Registry
  <2>5. Ahead(q, G)
    BY <2>1, <2>2, <2>3, <2>4 DEF AtHand, Ahead, Provisioner
  <2>6. ASSUME q.ok, NEW a \in q.request \ q.targets, NEW s \in q.services
        PROVE  Lists(G, a, s)
    <3>1. /\ Left(o, a, s) \/ (a = o.target /\ o.entry[s] # NoConfig) \/ Lists(registry, a, s)
          /\ a \in Apps /\ s \in Services
      <4>1. o.ok /\ a \in o.request /\ s \in o.services
        BY <2>2, <2>6
      <4> QED
        BY <1>1, <2>1, <2>3, <4>1 DEF Delivering
    <3>2. ~Left(o, a, s)
      BY <1>1, <2>1, <2>2, <2>6 DEF Left
    <3>3. CASE a = o.target
      <4>1. o.entry[s] # NoConfig
        BY <2>1, <3>1, <3>2, <3>3 DEF AtHand, Lists
      <4> QED
        BY <2>3, <2>4, <3>1, <3>3, <4>1 DEF Lists
    <3>4. CASE a # o.target
      BY <2>4, <3>1, <3>2, <3>4 DEF Lists
    <3> QED
      BY <3>3, <3>4
  <2> HIDE DEF G
  <2> QED
    BY <2>2, <2>5, <2>6, OnwardDelivering
<1>4. ASSUME p = Finish(o), ~Provisioner(o) PROVE Delivering(p, G)
  BY <1>1, <1>4, FinishFields, OtherDelivering DEF SameJob, Provisioner
<1>5. Delivering(p, G)
  BY <1>2, <1>3, <1>4 DEF SavesRemoval, SavesDetach, SavesSame, Provisioner
<1> QED
  BY <1>2, <1>5, AloneMoves DEF Deliveries

LEMMA RestDelivering ==
  ASSUME OneClient, Typed, Courses, Deliveries, NEW c \in Clients,
         CheckContainers(c) \/ SaveFails(c) \/ Return(c) \/ Crash(c)
  PROVE  Deliveries'
<1> DEFINE o == op[c]
           q == [o EXCEPT !.ok = FALSE]
<1>1. o \in Operation /\ WellFormed(o) /\ Course(o, registry) /\ Delivering(o, registry)
  BY DEF Typed, WellFormed, Courses, Deliveries
<1>2. registry' = registry
  BY DEF CheckContainers, SaveFails, Return, Crash
<1>3. Delivering(Finish(q), registry) /\ Delivering(Idle, registry)
  <2>1. q \in Operation /\ ~q.ok
    BY <1>1 DEF Operation
  <2>2. ~Finish(q).ok
    BY <2>1, FinishFields DEF SameJob
  <2>3. Delivering(Idle, registry)
    BY DEF Idle, Delivering
  <2> QED
    BY <2>2, <2>3, OtherDelivering
<1>4. ASSUME CheckContainers(c), NEW p \in NextTarget(o) PROVE Delivering(p, registry)
  <2>1. Working(o) /\ Ahead(o, registry) /\ Onward(o, p) /\ o.pc = "check" /\ Provisioner(o)
    BY <1>1, <1>4, NextTargetOnward DEF CheckContainers, WellFormed, Course
  <2>2. o.ok => \A a \in o.request \ o.targets, s \in o.services : Lists(registry, a, s)
    BY <1>1, <2>1 DEF Delivering, Left
  <2> QED
    BY <1>1, <2>1, <2>2, OnwardDelivering
<1>5. PICK p : Become(c, p) /\ Delivering(p, registry)
  BY <1>3, <1>4 DEF CheckContainers, SaveFails, Return, Crash
<1> QED
  BY <1>2, <1>5, AloneMoves DEF Deliveries

LEMMA DeliveriesAlways ==
  ASSUME OneClient
  PROVE  Spec => [](Typed /\ Courses /\ Deliveries)
<1>1. Init => Deliveries
  BY DEF Init, Deliveries, Delivering, Idle
<1>2. ASSUME Typed, Courses, Deliveries, [Next]_vars PROVE Deliveries'
  <2>1. CASE Losses
    <3>1. ASSUME NEW c \in Clients PROVE Delivering(op'[c], registry)
      <4>1. op[c] \in Operation /\ op'[c] = Upset(op[c]) /\ Delivering(op[c], registry)
        BY <1>2, <2>1, LossMoves DEF Typed, WellFormed, Deliveries
      <4> QED
        BY <4>1, UpsetFields DEF Delivering, Left
    <3> QED
      BY <1>2, <2>1, <3>1, LossMoves DEF Deliveries
  <2>2. CASE UNCHANGED vars
    BY <1>2, <2>2 DEF vars, Deliveries
  <2>3. ASSUME NEW c \in Clients, Proceed(c) \/ Crash(c) PROVE Deliveries'
    BY <1>2, <2>3, ExecDelivering, SaveDelivering, RestDelivering DEF Proceed
  <2> QED
    BY <1>2, <2>1, <2>2, <2>3, BeginDelivering DEF Next, Losses
<1> QED
  BY <1>1, <1>2, CourseAlways, PTL DEF Spec

(***************************************************************************)
(* A setup or an add of whoever runs one command at a time, which reports  *)
(* no failure, has registered every service of the request on every        *)
(* target, and each credential works unless it was destroyed meanwhile.    *)
(***************************************************************************)
THEOREM SerialSetupDelivers ==
  ASSUME OneClient
  PROVE  Spec => []SetupDelivers
<1>1. ASSUME Typed, Steadies, Deliveries PROVE SetupDelivers
  <2> SUFFICES ASSUME NEW c \in Clients,
                      op[c].pc = "done", op[c].kind \in {"setup", "add"}, op[c].ok,
                      NEW a \in op[c].request, NEW s \in op[c].services
               PROVE  /\ Registered(a, s)
                      /\ <<a, s>> \notin damaged => Usable(s, res[a][s], registry[a][s])
    BY DEF SetupDelivers
  <2>1. a \in Apps /\ s \in Services
    BY <1>1 DEF Typed, WellFormed, Operation
  <2>2. Lists(registry, a, s)
    BY <1>1 DEF Deliveries, Delivering, Provisioner, Left
  <2>3. Torn(op[c]) = {}
    BY DEF Torn
  <2>4. Healthy(registry, res, aclFile, damaged)
    BY <1>1, <2>3, HealthyKept DEF Steadies, Steady
  <2> QED
    BY <2>1, <2>2, <2>4 DEF Healthy, Fine, Sound, Lists, Registered
<1> QED
  BY <1>1, SteadyAlways, DeliveriesAlways, PTL

-----------------------------------------------------------------------------
(* What a reconcile restores.                                              *)
LEMMA OtherEnsured ==
  ASSUME NEW G, NEW R, NEW p, p.kind # "reconcile" \/ ~p.ok \/ p.pc = "idle"
  PROVE  Ensured(p, G, R)
  BY DEF Ensured

LEMMA OnwardEnsured ==
  ASSUME NEW G, NEW R, NEW o \in Operation, o.loaded = G, o.kind = "reconcile",
         NEW p, Onward(o, p),
         o.ok /\ o.quiet => \A a \in Apps \ o.targets, s \in Services \cap ensured :
           Lists(G, a, s) => Usable(s, R[a][s], G[a][s])
  PROVE  Ensured(p, G, R)
<1> SUFFICES ASSUME p.ok, p.quiet, NEW a \in Apps, NEW s \in Services \cap ensured,
                    Lists(G, a, s), ~Usable(s, R[a][s], G[a][s])
             PROVE  Left(p, a, s)
  BY DEF Ensured
<1>1. a \in o.targets
  BY DEF Onward, Ends, Enters, SameJob
<1>2. PICK b \in o.targets : Enters(o, p, b)
  BY <1>1 DEF Onward, Ends
<1>3. s \in Pending(o, a)
  BY DEF Pending, Lists
<1> QED
  BY <1>1, <1>2, <1>3 DEF Enters, Left

LEMMA BeginEnsured ==
  ASSUME OneClient, Typed, NEW c \in Clients, Begin(c)
  PROVE  Restorations'
<1>1. registry' = registry /\ res' = res
  BY BeginMoves
<1>2. PICK p : /\ Become(c, p)
               /\ \/ StartsProvisioner(p) \/ StartsRemove(p) \/ StartsDetach(p)
                  \/ StartsReconcile(p) \/ StartsEncrypt(p)
  BY BeginMoves
<1>3. ASSUME StartsReconcile(p) PROVE Ensured(p, registry, res)
  <2>1. PICK q \in Operation :
          /\ Working(q) /\ q.kind = "reconcile" /\ q.loaded = registry
          /\ q.targets = {a \in Apps : registry[a] # None /\ Pending(q, a) # {}}
          /\ p \in NextTarget(q)
    BY <1>3 DEF StartsReconcile
  <2>2. \A a \in Apps, s \in Services \cap ensured : Lists(registry, a, s) => s \in Pending(q, a)
    BY <2>1 DEF Pending, Lists
  <2>3. \A a \in Apps \ q.targets, s \in Services \cap ensured : ~Lists(registry, a, s)
    BY <2>1, <2>2 DEF Lists
  <2>4. Onward(q, p)
    BY <2>1, NextTargetOnward
  <2> QED
    BY <2>1, <2>3, <2>4, OnwardEnsured
<1>4. ASSUME StartsRemove(p) PROVE p.kind # "reconcile"
  <2>1. PICK q \in Operation : AtTarget(q) /\ q.kind = "remove" /\ p \in AfterService(q)
    BY <1>4 DEF StartsRemove
  <2> QED
    BY <2>1, AfterServiceMoves DEF Serves, Saves, SameTarget, SameJob
<1>5. ASSUME StartsDetach(p) \/ StartsEncrypt(p) \/ StartsProvisioner(p)
      PROVE  p.kind # "reconcile"
  BY <1>5 DEF StartsDetach, StartsEncrypt, StartsProvisioner, Provisioner
<1>6. Ensured(p, registry, res)
  BY <1>2, <1>3, <1>4, <1>5, OtherEnsured
<1> QED
  BY <1>1, <1>2, <1>6, AloneMoves DEF Restorations

LEMMA ExecOkEnsured ==
  ASSUME OneClient, Typed, Courses, Steadies, Restorations, NEW c \in Clients, ExecOk(c)
  PROVE  Restorations'
<1> DEFINE o == op[c]
<1>1. AtCommand(c) /\ Apply(o) /\ registry' = registry
  BY DEF ExecOk
<1>2. PICK p \in AfterCommand(o, Resources(o)) : Become(c, p)
  BY DEF ExecOk
<1>3. WellFormed(o) /\ o.pc = "exec" /\ o \in Operation /\ Ensured(o, registry, res)
  BY <1>1, AtWork DEF Restorations
<1>4. Goes(o, p) /\ p.kind = o.kind
  BY <1>2, <1>3, AfterCommandMoves, GoesJob DEF Goes
<1>5. ASSUME o.kind = "reconcile" PROVE Ensured(p, registry, res')
  <2>1. /\ Completed(o) = o /\ AtTarget(o) /\ o.loaded = registry
        /\ Secret(o) = registry[o.target][o.service]
    BY <1>1, <1>3, <1>5, ServiceOf
       DEF Completed, Provisioner, WellFormed, AtHand, Ahead
  <2>2. ASSUME o.ok, o.quiet, NEW a \in Apps, NEW s \in Services \cap ensured,
               Lists(registry, a, s)
        PROVE  \/ a \in o.targets
               \/ a = o.target /\ s \in o.todo
               \/ a = o.target /\ s = o.service /\ ~LastCommand(o)
               \/ Usable(s, res'[a][s], registry[a][s])
    <3>1. Left(o, a, s) \/ Usable(s, res[a][s], registry[a][s])
      BY <1>3, <1>5, <2>2 DEF Ensured
    <3>2. CASE a = o.target /\ s = o.service
      BY <1>1, <1>5, <2>1, <3>2, EnsureKeeps
    <3>3. CASE a # o.target \/ s # o.service
      <4>1. res'[a][s] = res[a][s]
        BY <1>1, <3>3, ApplyEffect
      <4> QED
        BY <1>3, <3>1, <3>3, <4>1 DEF Left
    <3> QED
      BY <3>2, <3>3
  <2>3. CASE Advances(o, p)
    BY <2>2, <2>3 DEF Advances, SameTarget, SameJob, Ensured, Left
  <2>4. CASE LastCommand(o) /\ p \in AfterService(o)
    <3>1. CASE Serves(o, p)
      BY <2>2, <2>4, <3>1 DEF Serves, SameTarget, SameJob, Ensured, Left
    <3>2. CASE o.todo = {} /\ Onward(o, p)
      <4> DEFINE R == res'
      <4>1. o.ok /\ o.quiet => \A a \in Apps \ o.targets, s \in Services \cap ensured :
              Lists(registry, a, s) => Usable(s, R[a][s], registry[a][s])
        BY <2>2, <2>4, <3>2
      <4> HIDE DEF R
      <4>2. Ensured(p, registry, R)
        BY <1>3, <1>5, <2>1, <3>2, <4>1, OnwardEnsured
      <4> QED
        BY <4>2 DEF R
    <3> QED
      BY <1>3, <1>5, <2>1, <2>4, <3>1, <3>2, AfterServiceMoves DEF Saves
  <2> QED
    BY <1>2, <1>3, <2>1, <2>3, <2>4, AfterCommandMoves
<1>6. Ensured(p, registry, res')
  <2>1. p.kind # "reconcile" => Ensured(p, registry, res')
    BY DEF Ensured
  <2> QED
    BY <1>4, <1>5, <2>1
<1> QED
  BY <1>1, <1>2, <1>6, AloneMoves DEF Restorations

LEMMA RestEnsured ==
  ASSUME OneClient, Typed, Courses, Restorations, NEW c \in Clients,
         \/ CheckContainers(c) \/ ExecFails(c) \/ Save(c)
         \/ SaveFails(c) \/ Return(c) \/ Crash(c)
  PROVE  Restorations'
<1> DEFINE o == op[c]
           q == [o EXCEPT !.ok = FALSE]
           Other(p) == p.kind # "reconcile" \/ ~p.ok \/ p.pc = "idle"
<1>1. o \in Operation /\ WellFormed(o) /\ Course(o, registry)
  BY DEF Typed, WellFormed, Courses
<1>2. Other(Finish(q)) /\ Other(Idle)
  <2>1. q \in Operation /\ ~q.ok
    BY <1>1 DEF Operation
  <2>2. ~Finish(q).ok
    BY <2>1, FinishFields DEF SameJob
  <2> QED
    BY <2>2 DEF Idle
<1>3. CASE CheckContainers(c)
  <2>1. ASSUME NEW p \in NextTarget(o) PROVE Other(p)
    <3>1. Onward(o, p) /\ Provisioner(o)
      BY <1>1, <1>3, <2>1, NextTargetOnward DEF CheckContainers, WellFormed, Course
    <3> QED
      BY <3>1 DEF Onward, Ends, Enters, SameJob, Provisioner
  <2> QED
    BY <1>2, <1>3, <2>1, AloneMoves DEF CheckContainers, Restorations, Ensured
<1>4. CASE ExecFails(c)
  <2>1. PICK p \in AfterFailure(o) : Become(c, p)
    BY <1>4 DEF ExecFails
  <2>2. o.pc = "exec"
    BY <1>4 DEF ExecFails, AtCommand
  <2>3. Other(p)
    <3>1. CASE Discards(o)
      <4>1. Goes(o, p)
        BY <1>1, <2>1, <2>2, AfterFailureMoves, AfterCommandMoves DEF Goes
      <4> QED
        BY <1>1, <2>2, <3>1, <4>1, GoesJob DEF Discards
    <3>2. CASE ~Discards(o)
      BY <1>1, <2>1, <2>2, <3>2, AfterFailureMoves, FailedNotOk
    <3> QED
      BY <3>1, <3>2
  <2> QED
    BY <2>1, <2>3, AloneMoves DEF Restorations, Ensured
<1>5. CASE Save(c)
  <2>1. PICK p : /\ Become(c, p)
                 /\ \/ SavesEntry(o, p) \/ SavesRemoval(o, p)
                    \/ SavesDetach(o, p) \/ SavesSame(o, p)
    BY <1>5, SaveMoves
  <2>2. p.kind # "reconcile"
    <3>1. CASE SavesEntry(o, p)
      BY <3>1 DEF SavesEntry, Onward, Ends, Enters, SameJob, Provisioner
    <3>2. CASE p = Finish(o) /\ o.kind # "reconcile"
      BY <1>1, <3>2, FinishFields DEF SameJob
    <3> QED
      BY <2>1, <3>1, <3>2 DEF SavesRemoval, SavesDetach, SavesSame
  <2> QED
    BY <2>1, <2>2, AloneMoves DEF Restorations, Ensured
<1>6. CASE SaveFails(c) \/ Return(c) \/ Crash(c)
  BY <1>2, <1>6, AloneMoves DEF SaveFails, Return, Crash, Restorations, Ensured
<1> QED
  BY <1>3, <1>4, <1>5, <1>6

LEMMA RestorationsAlways ==
  ASSUME OneClient
  PROVE  Spec => [](Typed /\ Courses /\ Steadies /\ Restorations)
<1>1. Init => Restorations
  BY DEF Init, Restorations, Ensured, Idle
<1>2. ASSUME Typed, Courses, Steadies, Restorations, [Next]_vars PROVE Restorations'
  <2>1. CASE Losses
    <3>1. ASSUME NEW c \in Clients PROVE op'[c].quiet => op'[c].pc = "idle"
      <4>1. op[c] \in Operation /\ op'[c] = Upset(op[c])
        BY <1>2, <2>1, LossMoves DEF Typed, WellFormed
      <4> QED
        BY <4>1, UpsetFields
    <3> QED
      BY <3>1 DEF Restorations, Ensured
  <2>2. CASE UNCHANGED vars
    BY <1>2, <2>2 DEF vars, Restorations
  <2>3. ASSUME NEW c \in Clients, Proceed(c) \/ Crash(c) PROVE Restorations'
    BY <1>2, <2>3, ExecOkEnsured, RestEnsured DEF Proceed
  <2> QED
    BY <1>2, <2>1, <2>2, <2>3, BeginEnsured DEF Next, Losses
<1> QED
  BY <1>1, <1>2, SteadyAlways, PTL DEF Spec

(***************************************************************************)
(* A reconcile of whoever runs one command at a time, which reports no     *)
(* failure and during which nothing was lost, leaves every rabbitmq and    *)
(* mongodb credential of the registry working, whatever was lost before.   *)
(***************************************************************************)
THEOREM SerialReconcileRestores ==
  ASSUME OneClient
  PROVE  Spec => []ReconcileRestores
<1>1. Restorations => ReconcileRestores
  BY DEF Restorations, Ensured, ReconcileRestores, Left, Lists, Registered, ensured
<1> QED
  BY <1>1, RestorationsAlways, PTL

-----------------------------------------------------------------------------
(***************************************************************************)
(* Clients that interleave, as long as none removes an app and no volume   *)
(* is lost: every credential in the registry, in a copy of it or in an     *)
(* entry under construction works, except those of aistor, because what    *)
(* a command does to a resource only adds to it.                           *)
(***************************************************************************)
NothingTaken == "remove" \notin Kinds /\ ~MayLose

Guarded == Services \ {"aistor"}

Grows(r, q) ==
  /\ r.store => q.store
  /\ r.secrets \subseteq q.secrets
  /\ r.granted => q.granted

(* Only redis keeps several secrets of one account.                        *)
Single(s, r) == s # "redis" => \A x, y \in r.secrets : x = y

CopyWorks(G, R) ==
  \A a \in Apps, s \in Guarded : Lists(G, a, s) => Usable(s, R[a][s], G[a][s])

Safe(o, R) ==
  /\ o.pc # "idle" => o.kind \in Kinds
  /\ CopyWorks(o.loaded, R)
  /\ o.pc \in {"exec", "save"} /\ o.kind \in {"setup", "add", "detach"} =>
       /\ o.target \in Apps
       /\ \A s \in Guarded : o.entry[s] # NoConfig => Usable(s, R[o.target][s], o.entry[s])
  /\ o.pc = "exec" /\ Provisioner(o) /\ o.service \in Guarded =>
       HalfProvisioned(o.service, o.step, o.id, R[o.target][o.service])

OwnCourses == \A c \in Clients : Course(op[c], op[c].loaded)
Safeties ==
  /\ CopyWorks(registry, res)
  /\ \A c \in Clients : Safe(op[c], res)
  /\ \A a \in Apps, s \in Guarded : Single(s, res[a][s])

(* The commands of setups, adds and reconciles, by what they do.           *)
Quiet == {"GRANT", "ACL SAVE", "set_user_tags", "list_vhosts", "list_users", "none"}
Making == {"CREATE DATABASE", "add_vhost", "ensure vhost"}
Naming == {"CREATE USER", "add_user", "createUser"}
Granting == {"grantPermissions", "set_permissions"}
Ensuring == {"ensure user", "getUser createUser updateUser"}

LEMMA GuardedCommand ==
  ASSUME NEW s \in Guarded
  PROVE  /\ \A k \in 1 .. Len(Provision(s)) :
              \/ Provision(s)[k] \in Quiet \cup Making \cup Naming \cup Granting
              \/ Provision(s)[k] = "ACL SETUSER" /\ s = "redis"
         /\ s \in ensured => \A k \in 1 .. Len(Ensure(s)) :
              Ensure(s)[k] \in Quiet \cup Making \cup Granting \cup Ensuring
<1>1. ASSUME NEW k \in 1 .. Len(Provision(s))
      PROVE  \/ Provision(s)[k] \in Quiet \cup Making \cup Naming \cup Granting
             \/ Provision(s)[k] = "ACL SETUSER" /\ s = "redis"
  <2> DEFINE cmd == Provision(s)[k]
  <2>1. CASE s \in {"postgres", "rabbitmq"}
    <3>1. Len(Provision(s)) = 4
      BY <2>1, ProvisionLists
    <3>2. k = 1 \/ k = 2 \/ k = 3 \/ k = 4
      BY <3>1
    <3>3. cmd \in {"CREATE DATABASE", "CREATE USER", "GRANT", "grantPermissions",
                   "add_vhost", "add_user", "set_permissions", "set_user_tags"}
      BY <2>1, <3>2, ProvisionLists
    <3> QED
      BY <3>3 DEF Quiet, Making, Naming, Granting
  <2>2. CASE s = "redis"
    <3>1. Len(Provision(s)) = 2
      BY <2>2, OtherProvisionLists
    <3>2. k = 1 \/ k = 2
      BY <3>1
    <3>3. cmd \in {"ACL SETUSER", "ACL SAVE"}
      BY <2>2, <3>2, OtherProvisionLists
    <3> QED
      BY <2>2, <3>3 DEF Quiet
  <2>3. CASE s \in {"mongodb", "signoz"}
    <3>1. Len(Provision(s)) = 1
      BY <2>3, OtherProvisionLists
    <3>2. k = 1
      BY <3>1
    <3>3. cmd \in {"createUser", "none"}
      BY <2>3, <3>2, OtherProvisionLists
    <3> QED
      BY <3>3 DEF Quiet, Naming
  <2> QED
    BY <2>1, <2>2, <2>3, ServicesAssumption DEF Guarded, AllServices
<1>2. ASSUME s \in ensured, NEW k \in 1 .. Len(Ensure(s))
      PROVE  Ensure(s)[k] \in Quiet \cup Making \cup Granting \cup Ensuring
  <2> DEFINE cmd == Ensure(s)[k]
  <2>1. CASE s = "rabbitmq"
    <3>1. Len(Ensure(s)) = 6
      BY <2>1, EnsureLists
    <3>2. k = 1 \/ k = 2 \/ k = 3 \/ k = 4 \/ k = 5 \/ k = 6
      BY <3>1
    <3>3. cmd \in {"list_vhosts", "ensure vhost", "list_users", "ensure user",
                   "set_permissions", "set_user_tags"}
      BY <2>1, <3>2, EnsureLists
    <3> QED
      BY <3>3 DEF Quiet, Making, Granting, Ensuring
  <2>2. CASE s = "mongodb"
    <3>1. Len(Ensure(s)) = 1
      BY <2>2, EnsureLists
    <3>2. k = 1
      BY <3>1
    <3>3. cmd = "getUser createUser updateUser"
      BY <2>2, <3>2, EnsureLists
    <3> QED
      BY <3>3 DEF Ensuring
  <2> QED
    BY <1>2, <2>1, <2>2 DEF ensured
<1> QED
  BY <1>1, <1>2

LEMMA CommandGrows ==
  ASSUME NEW s \in Guarded, NEW cmd, NEW r \in Resource, NEW secret \in Nat, NEW seen,
         Accepts(cmd, r, seen), Single(s, r),
         \/ cmd \in Quiet \cup Making \cup Naming \cup Granting
         \/ cmd = "ACL SETUSER" /\ s = "redis"
         \/ cmd \in Ensuring /\ s \in ensured /\ secret \in r.secrets
  PROVE  LET q == Effect(cmd, r, secret, seen) IN Grows(r, q) /\ Single(s, q)
<1> DEFINE q == Effect(cmd, r, secret, seen)
<1>1. CASE cmd \in Quiet
  <2>1. q = r
    BY <1>1 DEF Quiet, Effect
  <2> QED
    BY <2>1 DEF Grows
<1>2. CASE cmd \in Making
  <2>1. q = r \/ q = [r EXCEPT !.store = TRUE]
    BY <1>2 DEF Making, Effect
  <2> HIDE DEF q
  <2>2. Grows(r, q) /\ Single(s, q)
    BY <2>1 DEF Grows, Single, Resource
  <2> QED
    BY <2>2 DEF q
<1>3. CASE cmd \in Naming
  <2>1. q = [r EXCEPT !.secrets = {secret}]
        \/ q = [r EXCEPT !.secrets = {secret}, !.granted = TRUE]
    BY <1>3 DEF Naming, Effect
  <2>2. r.secrets = {}
    BY <1>3 DEF Naming, Accepts
  <2> HIDE DEF q
  <2>3. Grows(r, q) /\ Single(s, q)
    BY <2>1, <2>2 DEF Grows, Single, Resource
  <2> QED
    BY <2>3 DEF q
<1>4. CASE cmd \in Granting
  <2>1. q = [r EXCEPT !.granted = TRUE]
    BY <1>4 DEF Granting, Effect
  <2> HIDE DEF q
  <2>2. Grows(r, q) /\ Single(s, q)
    BY <2>1 DEF Grows, Single, Resource
  <2> QED
    BY <2>2 DEF q
<1>5. CASE cmd = "ACL SETUSER" /\ s = "redis"
  <2>1. q = AddPassword(r, secret)
    BY <1>5 DEF Effect
  <2> HIDE DEF q
  <2>2. Grows(r, q) /\ Single(s, q)
    BY <1>5, <2>1 DEF Grows, Single, Resource, AddPassword
  <2> QED
    BY <2>2 DEF q
<1>6. CASE cmd \in Ensuring /\ s \in ensured /\ secret \in r.secrets
  <2>1. q = [r EXCEPT !.secrets = {secret}]
        \/ q = [r EXCEPT !.secrets = {secret}, !.granted = TRUE]
    BY <1>6 DEF Ensuring, Effect
  <2> HIDE DEF q
  <2>2. s # "redis"
    BY <1>6 DEF ensured
  <2>3. Grows(r, q) /\ Single(s, q)
    BY <1>6, <2>1, <2>2 DEF Grows, Single, Resource
  <2> QED
    BY <2>3 DEF q
<1> QED
  BY <1>1, <1>2, <1>3, <1>4, <1>5, <1>6

LEMMA UsableGrows ==
  ASSUME NEW s, NEW r, NEW q, Grows(r, q), NEW secret
  PROVE  /\ Usable(s, r, secret) => Usable(s, q, secret)
         /\ \A k \in Nat : HalfProvisioned(s, k, secret, r) => HalfProvisioned(s, k, secret, q)
  BY DEF Grows, Usable, HalfProvisioned

LEMMA SafeGrows ==
  ASSUME NEW o \in Operation, NEW R, NEW Q,
         \A a \in Apps, s \in Guarded : Grows(R[a][s], Q[a][s]),
         Safe(o, R), o.pc = "exec" => o.target \in Apps
  PROVE  Safe(o, Q)
<1>1. \A a \in Apps, s \in Guarded : \A secret :
        Usable(s, R[a][s], secret) => Usable(s, Q[a][s], secret)
  BY UsableGrows
<1>2. o.step \in Nat
  BY DEF Operation
<1>3. o.pc = "exec" /\ Provisioner(o) /\ o.service \in Guarded =>
        HalfProvisioned(o.service, o.step, o.id, Q[o.target][o.service])
  BY <1>2, UsableGrows DEF Safe
<1> QED
  BY <1>1, <1>3 DEF Safe, CopyWorks

(* A client that takes a step, while the resources only grow.              *)
LEMMA BecomeSafe ==
  ASSUME Typed, Safeties, NEW c \in Clients, NEW p, Become(c, p), Safe(p, res'),
         CopyWorks(registry', res'),
         \A a \in Apps, s \in Guarded : Grows(res[a][s], res'[a][s]) /\ Single(s, res'[a][s])
  PROVE  Safeties'
<1>1. ASSUME NEW d \in Clients PROVE Safe(op'[d], res')
  <2>1. CASE d = c
    BY <2>1 DEF Become, Typed, TypeOK
  <2>2. CASE d # c
    <3> DEFINE o == op[d]
               R == res
               Q == res'
    <3>1. op'[d] = o /\ o \in Operation /\ Safe(o, R) /\ (o.pc = "exec" => o.target \in Apps)
      BY <2>2 DEF Become, Typed, TypeOK, WellFormed, AtTarget, Safeties
    <3>2. \A a \in Apps, s \in Guarded : Grows(R[a][s], Q[a][s])
      OBVIOUS
    <3> HIDE DEF o, R, Q
    <3>3. Safe(o, Q)
      BY <3>1, <3>2, SafeGrows
    <3> QED
      BY <3>1, <3>3 DEF Q
  <2> QED
    BY <2>1, <2>2
<1> QED
  BY <1>1 DEF Safeties

LEMMA SameGrows ==
  ASSUME NEW R, NEW Q, Q = R
  PROVE  \A a \in Apps, s \in Guarded : Grows(R[a][s], Q[a][s])
  BY DEF Grows

(* The course of every operation, on its own copy.                         *)
LEMMA BecomeOwnCourse ==
  ASSUME Typed, OwnCourses, NEW c \in Clients, NEW p, Become(c, p), Course(p, p.loaded)
  PROVE  OwnCourses'
<1>1. \A d \in Clients : op'[d] = IF d = c THEN p ELSE op[d]
  BY DEF Become, Typed, TypeOK
<1> QED
  BY <1>1 DEF OwnCourses

LEMMA OverCourse ==
  ASSUME NEW p, p.pc \in {"idle", "done"}, NEW G
  PROVE  Course(p, G)
  BY DEF Course

LEMMA BeginOwnCourse ==
  ASSUME Typed, OwnCourses, NEW c \in Clients, Begin(c)
  PROVE  OwnCourses'
<1>1. PICK p : /\ Become(c, p)
               /\ \/ StartsProvisioner(p) \/ StartsRemove(p) \/ StartsDetach(p)
                  \/ StartsReconcile(p) \/ StartsEncrypt(p)
  BY BeginMoves
<1>2. ASSUME StartsProvisioner(p) PROVE Course(p, p.loaded)
  BY <1>2 DEF StartsProvisioner, Course, Ahead
<1>3. ASSUME StartsRemove(p) PROVE Course(p, p.loaded)
  <2>1. PICK q \in Operation :
          /\ AtTarget(q) /\ q.kind = "remove" /\ q.loaded = registry /\ q.targets = {}
          /\ q.todo = Pending(q, q.target) /\ p \in AfterService(q)
    BY <1>3 DEF StartsRemove
  <2>2. AtHand(q, registry)
    BY <2>1 DEF AtHand, Ahead, Provisioner
  <2>3. p.loaded = registry
    BY <2>1, AfterServiceMoves DEF Serves, Saves, SameTarget, SameJob
  <2> QED
    BY <2>1, <2>2, <2>3, AfterServiceCourse
<1>4. ASSUME StartsDetach(p) PROVE Course(p, p.loaded)
  BY <1>4 DEF StartsDetach, Course, Saving, Detaching
<1>5. ASSUME StartsReconcile(p) PROVE Course(p, p.loaded)
  <2>1. PICK q \in Operation :
          Working(q) /\ q.kind = "reconcile" /\ q.loaded = registry /\ p \in NextTarget(q)
    BY <1>5 DEF StartsReconcile
  <2>2. Ahead(q, registry) /\ Onward(q, p)
    BY <2>1, NextTargetOnward DEF Ahead, Provisioner
  <2>3. p.loaded = registry
    BY <2>1, <2>2 DEF Onward, Ends, Enters, SameJob
  <2> QED
    BY <2>2, <2>3, OnwardCourse
<1>6. ASSUME StartsEncrypt(p) PROVE Course(p, p.loaded)
  BY <1>6 DEF StartsEncrypt, Course, Saving
<1> QED
  BY <1>1, <1>2, <1>3, <1>4, <1>5, <1>6, BecomeOwnCourse

LEMMA SaveOwn ==
  ASSUME Typed, OwnCourses, NEW c \in Clients, Save(c)
  PROVE  LET o == op[c] IN
         /\ UNCHANGED <<res, aclFile>> /\ registry' = Saved(o) /\ Saving(o, o.loaded)
         /\ \E p : /\ Become(c, p)
                   /\ \/ ~Provisioner(o) /\ p = Finish(o)
                      \/ Provisioner(o) /\ \E q \in Operation :
                           /\ q.kind = o.kind /\ q.loaded = Saved(o)
                           /\ Working(q) /\ Ahead(q, Saved(o)) /\ Onward(q, p)
<1> DEFINE o == op[c]
           q == [o EXCEPT !.loaded = Saved(o)]
<1>1. /\ o.pc = "save" /\ registry' = Saved(o) /\ UNCHANGED <<res, aclFile>>
      /\ o \in Operation /\ WellFormed(o) /\ Saving(o, o.loaded)
  BY DEF Save, Typed, WellFormed, OwnCourses, Course
<1>2. ASSUME Provisioner(o), NEW p \in NextTarget(q)
      PROVE  /\ q \in Operation /\ q.kind = o.kind /\ q.loaded = Saved(o)
             /\ Working(q) /\ Ahead(q, Saved(o)) /\ Onward(q, p)
  <2>1. /\ AtHand(o, o.loaded) /\ o.target \in Apps /\ Working(o)
        /\ o.loaded \in Registry /\ o.targets \subseteq Apps
    BY <1>1, <1>2 DEF Saving, Provisioner, WellFormed, AtTarget, Operation
  <2>2. q \in Operation /\ Working(q)
    BY <1>1, <1>2, <2>1, SavedTyped
  <2>3. q.kind = o.kind /\ q.loaded = Saved(o) /\ q.id = o.id /\ q.targets = o.targets
    BY <1>1 DEF Operation
  <2>4. Onward(q, p)
    BY <1>2, <2>2, NextTargetOnward
  <2> HIDE DEF q
  <2>5. Saved(o) = [o.loaded EXCEPT ![o.target] = o.entry]
    BY <1>2 DEF Saved, Provisioner
  <2>6. \A a \in o.targets : Saved(o)[a] = o.loaded[a]
    BY <2>1, <2>5 DEF AtHand, Registry
  <2>7. Ahead(q, Saved(o))
    BY <2>1, <2>3, <2>6 DEF AtHand, Ahead, Provisioner
  <2> QED
    BY <2>2, <2>3, <2>4, <2>7
<1>3. CASE Provisioner(o)
  <2>1. PICK p \in NextTarget(q) : Become(c, p)
    BY <1>3 DEF Save
  <2> QED
    BY <1>1, <1>2, <1>3, <2>1
<1>4. CASE ~Provisioner(o)
  BY <1>1, <1>4 DEF Save
<1> QED
  BY <1>3, <1>4

LEMMA GoesLoaded ==
  ASSUME NEW o, WellFormed(o), o.pc = "exec", NEW p, Goes(o, p)
  PROVE  p.loaded = o.loaded
<1>1. CASE Advances(o, p)
  BY <1>1 DEF Advances, SameTarget, SameJob
<1>2. ASSUME NEW q \in {Completed(o), Failed(o)}, p \in AfterService(q)
      PROVE  p.loaded = o.loaded
  <2>1. q \in Operation /\ AtTarget(q) /\ q.loaded = o.loaded
    <3>1. CASE q = Completed(o)
      BY <3>1, CompletedFields DEF SameJob
    <3>2. CASE q = Failed(o)
      BY <3>2, FailedFields
    <3> QED
      BY <1>2, <3>1, <3>2
  <2> QED
    BY <1>2, <2>1, AfterServiceMoves
       DEF Serves, Saves, Onward, Ends, Enters, SameTarget, SameJob
<1> QED
  BY <1>1, <1>2 DEF Goes

LEMMA ProceedOwnCourse ==
  ASSUME Typed, OwnCourses, NEW c \in Clients, Proceed(c) \/ Crash(c)
  PROVE  OwnCourses'
<1> DEFINE o == op[c]
<1>1. o \in Operation /\ WellFormed(o) /\ Course(o, o.loaded)
  BY DEF Typed, WellFormed, OwnCourses
<1>2. ASSUME NEW q \in Operation, Become(c, Finish(q)) PROVE OwnCourses'
  <2>1. Course(Finish(q), Finish(q).loaded)
    BY <1>2, FinishFields, OverCourse
  <2> QED
    BY <1>2, <2>1, BecomeOwnCourse
<1>3. ASSUME Become(c, Idle) PROVE OwnCourses'
  <2>1. Course(Idle, Idle.loaded)
    BY OverCourse DEF Idle
  <2> QED
    BY <1>3, <2>1, BecomeOwnCourse
<1>4. [o EXCEPT !.ok = FALSE] \in Operation
  BY <1>1 DEF Operation
<1>5. CASE CheckContainers(c)
  <2>1. ASSUME NEW p \in NextTarget(o), Become(c, p) PROVE OwnCourses'
    <3>1. Onward(o, p) /\ Ahead(o, o.loaded)
      BY <1>1, <1>5, <2>1, NextTargetOnward DEF CheckContainers, WellFormed, Course
    <3>2. p.loaded = o.loaded
      BY <3>1 DEF Onward, Ends, Enters, SameJob
    <3> QED
      BY <1>1, <2>1, <3>1, <3>2, OnwardCourse, BecomeOwnCourse
  <2> QED
    BY <1>2, <1>4, <1>5, <2>1 DEF CheckContainers
<1>6. ASSUME o.pc = "exec", NEW p, Become(c, p),
             p \in AfterCommand(o, Resources(o)) \/ p \in AfterFailure(o)
      PROVE  OwnCourses'
  <2>1. Course(p, o.loaded)
    BY <1>1, <1>6, AfterCommandCourse, AfterFailureCourse
  <2>2. p.loaded = o.loaded
    BY <1>1, <1>6, AfterCommandMoves, AfterFailureMoves, GoesLoaded DEF Goes
  <2> QED
    BY <1>6, <2>1, <2>2, BecomeOwnCourse
<1>7. CASE Save(c)
  <2>1. PICK p : /\ Become(c, p)
                 /\ \/ ~Provisioner(o) /\ p = Finish(o)
                    \/ Provisioner(o) /\ \E q \in Operation :
                         /\ q.kind = o.kind /\ q.loaded = Saved(o)
                         /\ Working(q) /\ Ahead(q, Saved(o)) /\ Onward(q, p)
    BY <1>7, SaveOwn
  <2>2. ASSUME NEW q \in Operation, q.loaded = Saved(o), Ahead(q, Saved(o)), Onward(q, p)
        PROVE  Course(p, p.loaded)
    <3>1. p.loaded = Saved(o)
      BY <2>2 DEF Onward, Ends, Enters, SameJob
    <3> QED
      BY <2>2, <3>1, OnwardCourse
  <2> QED
    BY <1>1, <1>2, <2>1, <2>2, BecomeOwnCourse
<1> QED
  BY <1>2, <1>3, <1>4, <1>5, <1>6, <1>7
     DEF Proceed, ExecOk, ExecFails, AtCommand, SaveFails, Return, Crash

LEMMA UpsetCourse ==
  ASSUME NEW o \in Operation, Course(o, o.loaded)
  PROVE  Course(Upset(o), Upset(o).loaded)
<1> DEFINE p == Upset(o)
<1>1. /\ p.pc = o.pc /\ p.kind = o.kind /\ p.loaded = o.loaded /\ p.targets = o.targets
      /\ p.target = o.target /\ p.entry = o.entry /\ p.todo = o.todo
      /\ p.service = o.service /\ p.id = o.id
      /\ \A a : Pending(p, a) = Pending(o, a)
      /\ Provisioner(p) <=> Provisioner(o)
  BY UpsetFields
<1> HIDE DEF p
<1>2. Ahead(o, o.loaded) => Ahead(p, p.loaded)
  BY <1>1 DEF Ahead
<1>3. AtHand(o, o.loaded) => AtHand(p, p.loaded)
  BY <1>1, <1>2 DEF AtHand
<1>4. Saving(o, o.loaded) => Saving(p, p.loaded)
  BY <1>1, <1>3 DEF Saving, Detaching
<1> QED
  BY <1>1, <1>2, <1>3, <1>4 DEF Course, p

LEMMA OwnCourseAlways == Spec => [](Typed /\ OwnCourses)
<1>1. Init => OwnCourses
  BY DEF Init, OwnCourses, Course, Idle
<1>2. ASSUME Typed, OwnCourses, [Next]_vars PROVE OwnCourses'
  <2>1. CASE Losses
    <3>1. ASSUME NEW d \in Clients PROVE Course(op'[d], op'[d].loaded)
      <4>1. op[d] \in Operation /\ Course(op[d], op[d].loaded) /\ op'[d] = Upset(op[d])
        BY <1>2, <2>1, LossMoves DEF Typed, WellFormed, OwnCourses
      <4> QED
        BY <4>1, UpsetCourse
    <3> QED
      BY <3>1 DEF OwnCourses
  <2>2. CASE UNCHANGED vars
    BY <1>2, <2>2 DEF vars, OwnCourses
  <2> QED
    BY <1>2, <2>1, <2>2, BeginOwnCourse, ProceedOwnCourse DEF Next, Losses
<1> QED
  BY <1>1, <1>2, TypedInit, TypedNext, PTL DEF Spec

(* What an operation may go on with, when what it holds works.             *)
LEMMA OnwardSafe ==
  ASSUME NEW o \in Operation, Working(o), NEW R, CopyWorks(o.loaded, R), o.kind \in Kinds,
         NEW p, Onward(o, p)
  PROVE  Safe(p, R)
<1>1. p.kind = o.kind /\ p.loaded = o.loaded
  BY DEF Onward, Ends, Enters, SameJob
<1>2. ASSUME NEW a \in o.targets, Enters(o, p, a) PROVE Safe(p, R)
  <2>1. a \in Apps /\ p.target = a /\ p.step = 1 /\ p.pc = "exec"
    BY <1>2 DEF Operation, Enters
  <2>2. ASSUME o.kind = "setup", NEW s \in Guarded PROVE p.entry[s] = NoConfig
    BY <1>2, <2>2 DEF Enters, EmptyEntry, Guarded
  <2>3. ASSUME o.kind = "add", NEW s \in Guarded, p.entry[s] # NoConfig
        PROVE  Usable(s, R[a][s], p.entry[s])
    BY <1>2, <2>1, <2>3 DEF Enters, Working, CopyWorks, Lists
  <2>4. o.kind # "detach"
    BY DEF Working
  <2>5. HalfProvisioned(p.service, p.step, p.id, R[p.target][p.service])
    BY <2>1 DEF HalfProvisioned
  <2> QED
    BY <1>1, <2>1, <2>2, <2>3, <2>4, <2>5 DEF Safe
<1>3. CASE Ends(o, p)
  BY <1>1, <1>3 DEF Ends, Safe
<1> QED
  BY <1>2, <1>3 DEF Onward

LEMMA AfterServiceSafe ==
  ASSUME NEW o \in Operation, AtTarget(o), NEW R, CopyWorks(o.loaded, R), o.kind \in Kinds,
         Provisioner(o) => \A s \in Guarded :
           o.entry[s] # NoConfig => Usable(s, R[o.target][s], o.entry[s]),
         NEW p \in AfterService(o)
  PROVE  Safe(p, R)
<1>1. o.kind # "detach" /\ o.target \in Apps
  BY DEF AtTarget, Working
<1>2. CASE Serves(o, p)
  <2>1. HalfProvisioned(p.service, p.step, p.id, R[p.target][p.service])
    BY <1>2 DEF Serves, HalfProvisioned
  <2> QED
    BY <1>1, <1>2, <2>1 DEF Serves, SameTarget, SameJob, Safe, Provisioner
<1>3. CASE Saves(o, p)
  BY <1>1, <1>3 DEF Saves, SameTarget, SameJob, Safe, Provisioner
<1>4. CASE Onward(o, p)
  BY <1>4, OnwardSafe DEF AtTarget
<1> QED
  BY <1>2, <1>3, <1>4, AfterServiceMoves

(* One command: it only adds, whatever the other clients are doing.        *)
LEMMA AtGuarded ==
  ASSUME NothingTaken, Typed, OwnCourses, Safeties, NEW c \in Clients, AtCommand(c)
  PROVE  LET o == op[c] IN
         /\ o.kind \in Kinds
         /\ \/ Provisioner(o) /\ Commands(o) = Provision(o.service) /\ Secret(o) = o.id
            \/ /\ o.kind = "reconcile" /\ Commands(o) = Ensure(o.service)
               /\ o.service \in ensured
               /\ Usable(o.service, Resources(o), Secret(o))
<1> DEFINE o == op[c]
<1>1. /\ o.pc = "exec" /\ o \in Operation /\ AtTarget(o) /\ o.target \in Apps
      /\ o.service \in Services
  BY AtWork
<1>2. Safe(o, res) /\ Course(o, o.loaded)
  BY DEF Safeties, OwnCourses
<1>3. o.kind \in Kinds /\ o.kind \in {"setup", "add", "reconcile"}
  BY <1>1, <1>2 DEF Safe, NothingTaken, AtTarget, Working
<1>4. CASE Provisioner(o)
  BY <1>3, <1>4 DEF Commands, Secret
<1>5. CASE o.kind = "reconcile"
  <2>1. o.service \in Pending(o, o.target) /\ o.loaded[o.target] # None
    BY <1>1, <1>2, <1>5 DEF Course, AtTarget
  <2>2. o.service \in ensured /\ Lists(o.loaded, o.target, o.service)
    BY <1>5, <2>1 DEF Pending, Lists
  <2>3. o.service \in Guarded
    BY <1>1, <2>2 DEF ensured, Guarded
  <2>4. Usable(o.service, Resources(o), Secret(o))
    BY <1>1, <1>2, <1>5, <2>2, <2>3
       DEF Safe, CopyWorks, Resources, Secret, Provisioner
  <2> QED
    BY <1>3, <1>5, <2>2, <2>4 DEF Commands, Provisioner
<1> QED
  BY <1>3, <1>4, <1>5 DEF Provisioner

LEMMA ApplyGrows ==
  ASSUME NothingTaken, Typed, OwnCourses, Safeties, NEW c \in Clients, AtCommand(c),
         Apply(op[c]), NEW a \in Apps, NEW s \in Guarded
  PROVE  Grows(res[a][s], res'[a][s]) /\ Single(s, res'[a][s])
<1> DEFINE o == op[c]
           cmd == Command(o)
           r == Resources(o)
<1>1. /\ o.target \in Apps /\ o.service \in Services /\ o.step \in 1 .. Len(Commands(o))
      /\ r \in Resource /\ Secret(o) \in Nat
  BY AtWork
<1>2. s \in Services /\ Single(s, res[a][s])
  BY DEF Safeties, Guarded
<1>3. CASE a # o.target \/ s # o.service
  <2>1. res'[a][s] = res[a][s]
    BY <1>2, <1>3, ApplyEffect
  <2> QED
    BY <1>2, <2>1 DEF Grows
<1>4. CASE a = o.target /\ s = o.service
  <2>1. /\ Accepts(cmd, r, o.seen) /\ res'[a][s] = Effect(cmd, r, Secret(o), o.seen)
        /\ r = res[a][s]
    BY <1>4, ApplyEffect DEF Resources
  <2>2. \/ \E k \in 1 .. Len(Provision(s)) : cmd = Provision(s)[k]
        \/ /\ s \in ensured /\ Usable(s, r, Secret(o))
           /\ \E k \in 1 .. Len(Ensure(s)) : cmd = Ensure(s)[k]
    BY <1>1, <1>4, AtGuarded DEF Command
  <2>3. s \in ensured /\ Usable(s, r, Secret(o)) => Secret(o) \in r.secrets
    BY DEF ensured, Usable
  <2> HIDE DEF cmd, r
  <2>4. \/ cmd \in Quiet \cup Making \cup Naming \cup Granting
        \/ cmd = "ACL SETUSER" /\ s = "redis"
        \/ cmd \in Ensuring /\ s \in ensured /\ Secret(o) \in r.secrets
    BY <2>2, <2>3, GuardedCommand
  <2>5. Grows(r, Effect(cmd, r, Secret(o), o.seen))
        /\ Single(s, Effect(cmd, r, Secret(o), o.seen))
    BY <1>1, <1>2, <2>1, <2>4, CommandGrows
  <2> QED
    BY <2>1, <2>5
<1> QED
  BY <1>3, <1>4

LEMMA ProvisionSafe ==
  ASSUME NothingTaken, Typed, OwnCourses, Safeties, NEW c \in Clients, AtCommand(c),
         Apply(op[c]), Provisioner(op[c]), op[c].service \in Guarded
  PROVE  LET o == op[c] IN
         IF LastCommand(o) THEN Usable(o.service, res'[o.target][o.service], o.id)
         ELSE HalfProvisioned(o.service, o.step + 1, o.id, res'[o.target][o.service])
<1> DEFINE o == op[c]
           r == Resources(o)
           q == Effect(Command(o), r, Secret(o), o.seen)
<1>1. /\ Commands(o) = Provision(o.service) /\ Secret(o) = o.id
      /\ o.step \in 1 .. Len(Commands(o)) /\ r \in Resource /\ Secret(o) \in Nat
      /\ o.service \in Services /\ o.target \in Apps
  BY AtWork, AtGuarded DEF Provisioner
<1>2. res'[o.target][o.service] = q /\ Command(o) = Provision(o.service)[o.step]
  BY <1>1, ApplyEffect DEF Command
<1>3. HalfProvisioned(o.service, o.step, o.id, r)
  BY DEF Safeties, Safe, AtCommand, Resources
<1>4. /\ o.step # Len(Commands(o)) => HalfProvisioned(o.service, o.step + 1, o.id, q)
      /\ o.step = Len(Commands(o)) =>
           Sound(o.service, o.id, q, SavedBy(Command(o), r, aclFile[o.target]))
  BY <1>1, <1>2, <1>3, ProvisionStep
<1> HIDE DEF q
<1> QED
  BY <1>2, <1>4 DEF LastCommand, Sound

(* What an operation has entered keeps working through a command.          *)
LEMMA EntrySafe ==
  ASSUME NothingTaken, Typed, OwnCourses, Safeties, NEW c \in Clients, AtCommand(c),
         Apply(op[c]) \/ res' = res
  PROVE  LET o == op[c] IN
         /\ CopyWorks(o.loaded, res') /\ CopyWorks(registry, res')
         /\ \A a \in Apps, s \in Guarded : Grows(res[a][s], res'[a][s]) /\ Single(s, res'[a][s])
         /\ Provisioner(o) => \A s \in Guarded :
              o.entry[s] # NoConfig => Usable(s, res'[o.target][s], o.entry[s])
<1> DEFINE o == op[c]
<1>1. o.pc = "exec" /\ o.target \in Apps /\ Safe(o, res) /\ CopyWorks(registry, res)
  BY AtWork DEF Safeties
<1>2. \A a \in Apps, s \in Guarded : Grows(res[a][s], res'[a][s]) /\ Single(s, res'[a][s])
  <2>1. CASE Apply(o)
    BY <2>1, ApplyGrows
  <2>2. CASE res' = res
    BY <2>2 DEF Safeties, Grows
  <2> QED
    BY <2>1, <2>2
<1>3. \A a \in Apps, s \in Guarded : \A secret :
        Usable(s, res[a][s], secret) => Usable(s, res'[a][s], secret)
  <2>1. ASSUME NEW a \in Apps, NEW s \in Guarded, NEW secret, Usable(s, res[a][s], secret)
        PROVE  Usable(s, res'[a][s], secret)
    <3> DEFINE r == res[a][s]
               q == res'[a][s]
    <3>1. Grows(r, q) /\ Usable(s, r, secret)
      BY <1>2, <2>1
    <3> HIDE DEF r, q
    <3>2. Usable(s, q, secret)
      BY <3>1, UsableGrows
    <3> QED
      BY <3>2 DEF q
  <2> QED
    BY <2>1
<1>4. CopyWorks(o.loaded, res') /\ CopyWorks(registry, res')
  BY <1>1, <1>3 DEF Safe, CopyWorks
<1>5. ASSUME Provisioner(o), NEW s \in Guarded, o.entry[s] # NoConfig
      PROVE  Usable(s, res'[o.target][s], o.entry[s])
  BY <1>1, <1>3, <1>5 DEF Safe, Provisioner
<1> QED
  BY <1>2, <1>4, <1>5

LEMMA ExecOkSafe ==
  ASSUME NothingTaken, Typed, OwnCourses, Safeties, NEW c \in Clients, ExecOk(c)
  PROVE  Safeties'
<1> DEFINE o == op[c]
           q == Completed(o)
           R == res'
<1>1. AtCommand(c) /\ Apply(o) /\ registry' = registry
  BY DEF ExecOk
<1>2. PICK p \in AfterCommand(o, Resources(o)) : Become(c, p)
  BY DEF ExecOk
<1>3. /\ WellFormed(o) /\ o.pc = "exec" /\ o.target \in Apps /\ o.service \in Services
      /\ o.entry \in Entry
  BY <1>1, AtWork DEF Operation
<1>4. /\ CopyWorks(o.loaded, R) /\ CopyWorks(registry, R)
      /\ Provisioner(o) => \A s \in Guarded :
           o.entry[s] # NoConfig => Usable(s, R[o.target][s], o.entry[s])
  BY <1>1, EntrySafe
<1>5. o.kind \in Kinds /\ o.kind \in {"setup", "add", "reconcile"}
  BY <1>1, AtGuarded DEF Provisioner
<1>6. ASSUME Provisioner(o), o.service \in Guarded
      PROVE  IF LastCommand(o) THEN Usable(o.service, R[o.target][o.service], o.id)
             ELSE HalfProvisioned(o.service, o.step + 1, o.id, R[o.target][o.service])
  BY <1>1, <1>6, ProvisionSafe
<1>7. /\ q \in Operation /\ AtTarget(q) /\ q.kind = o.kind /\ q.loaded = o.loaded
      /\ q.target = o.target
      /\ Provisioner(o) => q.entry = [o.entry EXCEPT ![o.service] = o.id]
  BY <1>3, CompletedFields DEF SameJob
<1> HIDE DEF R, q
<1>8. CASE Advances(o, p)
  <2>1. /\ p.kind = o.kind /\ p.loaded = o.loaded /\ p.target = o.target /\ p.id = o.id
        /\ p.entry = o.entry /\ p.service = o.service /\ p.step = o.step + 1
        /\ ~LastCommand(o)
    BY <1>8 DEF Advances, SameTarget, SameJob
  <2> QED
    <3>1. Safe(p, R)
      BY <1>3, <1>4, <1>5, <1>6, <2>1 DEF Safe, Provisioner
    <3> QED
      BY <1>1, <1>2, <1>4, <3>1, EntrySafe, BecomeSafe DEF R
<1>9. CASE LastCommand(o) /\ p \in AfterService(q)
  <2>1. ASSUME Provisioner(q), NEW s \in Guarded, q.entry[s] # NoConfig
        PROVE  Usable(s, R[q.target][s], q.entry[s])
    <3>1. Provisioner(o) /\ s \in Services
      BY <1>7, <2>1 DEF Provisioner, Guarded
    <3>2. q.entry[s] = IF s = o.service THEN o.id ELSE o.entry[s]
      BY <1>3, <1>7, <3>1 DEF Entry
    <3> QED
      BY <1>4, <1>6, <1>7, <1>9, <2>1, <3>1, <3>2
  <2>2. Safe(p, R)
    BY <1>4, <1>5, <1>7, <1>9, <2>1, AfterServiceSafe
  <2> QED
    BY <1>1, <1>2, <1>4, <2>2, EntrySafe, BecomeSafe DEF R
<1> QED
  BY <1>2, <1>3, <1>8, <1>9, AfterCommandMoves DEF q

LEMMA ExecFailsSafe ==
  ASSUME NothingTaken, Typed, OwnCourses, Safeties, NEW c \in Clients, ExecFails(c)
  PROVE  Safeties'
<1> DEFINE o == op[c]
           q == Failed(o)
           R == res'
<1>1. AtCommand(c) /\ (Apply(o) \/ res' = res) /\ registry' = registry
  BY DEF ExecFails
<1>2. PICK p \in AfterFailure(o) : Become(c, p)
  BY DEF ExecFails
<1>3. WellFormed(o) /\ o.pc = "exec"
  BY <1>1, AtWork
<1>4. /\ CopyWorks(o.loaded, R) /\ CopyWorks(registry, R)
      /\ Provisioner(o) => \A s \in Guarded :
           o.entry[s] # NoConfig => Usable(s, R[o.target][s], o.entry[s])
  BY <1>1, EntrySafe
<1>5. o.kind \in Kinds /\ o.kind \in {"setup", "add", "reconcile"}
  BY <1>1, AtGuarded DEF Provisioner
<1>6. /\ q \in Operation /\ AtTarget(q) /\ q.kind = o.kind /\ q.loaded = o.loaded
      /\ q.target = o.target /\ q.entry = o.entry /\ p \in AfterService(q)
  BY <1>2, <1>3, <1>5, FailedFields, AfterFailureMoves DEF Discards
<1> HIDE DEF R, q
<1>7. Safe(p, R)
  BY <1>4, <1>5, <1>6, AfterServiceSafe DEF Provisioner
<1> QED
  BY <1>1, <1>2, <1>4, <1>7, EntrySafe, BecomeSafe DEF R

(* Steps that leave the resources alone.                                   *)
LEMMA StillSafe ==
  ASSUME Typed, Safeties, res' = res, NEW c \in Clients, NEW p, Become(c, p),
         Safe(p, res), CopyWorks(registry', res)
  PROVE  Safeties'
<1>1. \A a \in Apps, s \in Guarded : Grows(res[a][s], res'[a][s]) /\ Single(s, res'[a][s])
  BY DEF Safeties, Grows
<1> QED
  BY <1>1, BecomeSafe

LEMMA OverSafe ==
  ASSUME NEW p, NEW R, p.pc = "done" \/ p.pc = "idle", p.pc # "idle" => p.kind \in Kinds,
         CopyWorks(p.loaded, R)
  PROVE  Safe(p, R)
  BY DEF Safe

LEMMA BeginSafe ==
  ASSUME NothingTaken, Typed, Safeties, NEW c \in Clients, Begin(c)
  PROVE  Safeties'
<1>1. registry' = registry /\ res' = res /\ CopyWorks(registry, res)
  BY BeginMoves DEF Safeties
<1>2. PICK p : /\ Become(c, p)
               /\ \/ StartsProvisioner(p) \/ StartsRemove(p) \/ StartsDetach(p)
                  \/ StartsReconcile(p) \/ StartsEncrypt(p)
  BY BeginMoves
<1>3. ASSUME StartsProvisioner(p) PROVE Safe(p, res)
  BY <1>1, <1>3 DEF StartsProvisioner, Safe
<1>4. ~StartsRemove(p)
  BY DEF NothingTaken, StartsRemove
<1>5. ASSUME StartsDetach(p) PROVE Safe(p, res)
  <2>1. /\ p.pc = "save" /\ p.kind = "detach" /\ p.kind \in Kinds /\ p.loaded = registry
        /\ p.target \in Apps /\ registry[p.target] # None
        /\ \A s \in Services : p.entry[s] # NoConfig => p.entry[s] = registry[p.target][s]
    BY <1>5 DEF StartsDetach, Detaching
  <2>2. \A s \in Guarded : p.entry[s] # NoConfig => Usable(s, res[p.target][s], p.entry[s])
    BY <1>1, <2>1 DEF CopyWorks, Lists, Guarded
  <2> QED
    BY <1>1, <2>1, <2>2 DEF Safe
<1>6. ASSUME StartsReconcile(p) PROVE Safe(p, res)
  <2>1. PICK q \in Operation :
          Working(q) /\ q.kind = "reconcile" /\ q.loaded = registry /\ p \in NextTarget(q)
    BY <1>6 DEF StartsReconcile
  <2>2. q.kind \in Kinds
    BY <1>6, <2>1 DEF StartsReconcile
  <2> QED
    BY <1>1, <2>1, <2>2, NextTargetOnward, OnwardSafe
<1>7. ASSUME StartsEncrypt(p) PROVE Safe(p, res)
  BY <1>1, <1>7 DEF StartsEncrypt, Safe, Provisioner
<1> QED
  BY <1>1, <1>2, <1>3, <1>4, <1>5, <1>6, <1>7, StillSafe

LEMMA SaveSafe ==
  ASSUME NothingTaken, Typed, OwnCourses, Safeties, NEW c \in Clients, Save(c)
  PROVE  Safeties'
<1> DEFINE o == op[c]
           G == Saved(o)
<1>1. /\ o.pc = "save" /\ o \in Operation /\ Safe(o, res) /\ o.loaded \in Registry
      /\ registry' = G /\ res' = res /\ Saving(o, o.loaded)
  BY SaveOwn DEF Save, Typed, WellFormed, Operation, Safeties
<1>2. o.kind \in Kinds /\ o.kind \in {"setup", "add", "detach", "encrypt"}
  BY <1>1 DEF Safe, Saving, NothingTaken
<1>3. CopyWorks(G, res)
  <2>1. CASE o.kind = "encrypt"
    BY <1>1, <2>1 DEF Saved, Safe
  <2>2. CASE o.kind \in {"setup", "add", "detach"}
    <3>1. /\ G = [o.loaded EXCEPT ![o.target] = o.entry] /\ o.target \in Apps
          /\ \A s \in Guarded : o.entry[s] # NoConfig => Usable(s, res[o.target][s], o.entry[s])
          /\ CopyWorks(o.loaded, res)
      BY <1>1, <2>2 DEF Saved, Safe
    <3>2. \A a \in Apps : G[a] = IF a = o.target THEN o.entry ELSE o.loaded[a]
      BY <1>1, <3>1 DEF Registry
    <3> HIDE DEF G
    <3> QED
      BY <3>1, <3>2 DEF CopyWorks, Lists
  <2> QED
    BY <1>2, <2>1, <2>2
<1>4. PICK p : /\ Become(c, p)
               /\ \/ ~Provisioner(o) /\ p = Finish(o)
                  \/ Provisioner(o) /\ \E q \in Operation :
                       /\ q.kind = o.kind /\ q.loaded = G /\ Working(q) /\ Onward(q, p)
  BY SaveOwn
<1>5. CASE p = Finish(o)
  BY <1>1, <1>2, <1>3, <1>4, <1>5, FinishFields, OverSafe, StillSafe DEF Safe, SameJob
<1>6. ASSUME NEW q \in Operation, q.kind = o.kind, q.loaded = G, Working(q), Onward(q, p)
      PROVE  Safeties'
  <2>1. Safe(p, res)
    BY <1>2, <1>3, <1>6, OnwardSafe
  <2> QED
    BY <1>1, <1>3, <1>4, <2>1, StillSafe
<1> QED
  BY <1>4, <1>5, <1>6

LEMMA RestSafe ==
  ASSUME NothingTaken, Typed, OwnCourses, Safeties, NEW c \in Clients,
         CheckContainers(c) \/ SaveFails(c) \/ Return(c) \/ Crash(c)
  PROVE  Safeties'
<1> DEFINE o == op[c]
           q == [o EXCEPT !.ok = FALSE]
<1>1. /\ o \in Operation /\ WellFormed(o) /\ Safe(o, res)
      /\ registry' = registry /\ res' = res /\ CopyWorks(registry, res)
  BY DEF Typed, WellFormed, Safeties, CheckContainers, SaveFails, Return, Crash
<1>2. ASSUME o.pc # "idle" PROVE Safe(Finish(q), res)
  <2>1. q \in Operation /\ q.kind = o.kind /\ q.loaded = o.loaded
    BY <1>1 DEF Operation
  <2> HIDE DEF q
  <2>2. Finish(q).pc = "done" /\ Finish(q).kind = o.kind /\ Finish(q).loaded = o.loaded
    BY <2>1, FinishFields DEF SameJob
  <2> QED
    BY <1>1, <1>2, <2>2, OverSafe DEF Safe
<1>3. Safe(Idle, res)
  <2>1. CopyWorks(EmptyRegistry, res)
    BY DEF CopyWorks, EmptyRegistry, Lists
  <2> QED
    BY <2>1, OverSafe DEF Idle
<1>4. ASSUME CheckContainers(c), NEW p \in NextTarget(o) PROVE Safe(p, res)
  <2>1. /\ Working(o) /\ Onward(o, p) /\ o.kind \in Kinds /\ CopyWorks(o.loaded, res)
    BY <1>1, <1>4, NextTargetOnward DEF CheckContainers, WellFormed, Safe
  <2> QED
    BY <1>1, <2>1, OnwardSafe
<1>5. PICK p : Become(c, p) /\ Safe(p, res)
  BY <1>2, <1>3, <1>4 DEF CheckContainers, SaveFails, Return, Crash
<1> QED
  BY <1>1, <1>5, StillSafe

LEMMA SafeAlways ==
  ASSUME NothingTaken
  PROVE  Spec => [](Typed /\ OwnCourses /\ Safeties)
<1>1. Init => Safeties
  <2>1. ASSUME Init, NEW c \in Clients PROVE Safe(op[c], res)
    BY <2>1 DEF Init, Idle, Safe, CopyWorks, EmptyRegistry, Lists
  <2>2. ASSUME Init
        PROVE  CopyWorks(registry, res) /\ \A a \in Apps, s \in Guarded : Single(s, res[a][s])
    BY <2>2 DEF Init, CopyWorks, EmptyRegistry, Lists, Single, Blank, Guarded
  <2> QED
    BY <2>1, <2>2 DEF Safeties
<1>2. ASSUME Typed, OwnCourses, Safeties, [Next]_vars PROVE Safeties'
  <2>1. ASSUME NEW c \in Clients, Proceed(c) \/ Crash(c) PROVE Safeties'
    BY <1>2, <2>1, ExecOkSafe, ExecFailsSafe, SaveSafe, RestSafe DEF Proceed
  <2>2. ~Losses
    BY DEF NothingTaken, Losses, Wipe, RestartRedis
  <2>3. CASE UNCHANGED vars
    BY <1>2, <2>3 DEF vars, Safeties
  <2> QED
    BY <1>2, <2>1, <2>2, <2>3, BeginSafe DEF Next, Losses
<1> QED
  BY <1>1, <1>2, OwnCourseAlways, PTL DEF Spec

(***************************************************************************)
(* While apps are only set up, extended, detached, reconciled and          *)
(* encrypted and no volume is lost, every registered credential works      *)
(* under any interleaving of any number of clients, whatever fails and     *)
(* whoever is killed, although nothing locks the registry: a lost update   *)
(* loses a credential but never makes one that is listed stale.            *)
(***************************************************************************)
THEOREM ConcurrentCredentialsWork ==
  ASSUME NothingTaken
  PROVE  Spec => []ConcurrentSetupsUsable
<1>1. Safeties => ConcurrentSetupsUsable
  BY DEF Safeties, CopyWorks, Guarded, ConcurrentSetupsUsable, Lists, Registered
<1> QED
  BY <1>1, SafeAlways, PTL

-----------------------------------------------------------------------------
(***************************************************************************)
(* What a removal leaves.  A resource is shaped: no grant without an       *)
(* account, no store where the service keeps none, nothing in signoz.      *)
(***************************************************************************)
Shaped(s, r) ==
  /\ r.granted => r.secrets # {}
  /\ s \notin HasStore => ~r.store
  /\ s = "signoz" => r = Blank

Shapes == \A a \in Apps, s \in Services : Shaped(s, res[a][s])

(* What the commands of a Teardown before the next one have done.          *)
HalfTorn(s, step, r) ==
  /\ s = "postgres" /\ step > 2 => ~r.store /\ ~r.granted
  /\ s = "redis" /\ step > 2 => r.secrets = {} /\ ~r.granted
  /\ s = "rabbitmq" /\ step > 1 => r.secrets = {} /\ ~r.granted
  /\ s = "aistor" /\ step > 1 => ~r.store
  /\ s = "aistor" /\ step > 2 => ~r.granted
  /\ s = "mongodb" /\ step > 1 => r.secrets = {} /\ ~r.granted

(***************************************************************************)
(* A removal that has reported no error, and lost nothing, has come        *)
(* through the services that it reports on.                                *)
(***************************************************************************)
Gone(a, s, R, F) == ~Remains(R, F, a, s)

Cleared(o, R, F) ==
  o.kind = "remove" /\ o.ok /\ o.quiet =>
    /\ o.targets = {}
    /\ o.pc = "exec" /\ o.service \in Heeded =>
         HalfTorn(o.service, o.step, R[o.target][o.service])
    /\ o.pc # "idle" => \A a \in o.request, s \in Heeded :
         o.loaded[a][s] # NoConfig => Left(o, a, s) \/ Gone(a, s, R, F)

Clearances == \A c \in Clients : Cleared(op[c], res, aclFile)

(***************************************************************************)
(* When nothing fails, what exists is registered or being provisioned, a   *)
(* Provision finds nothing of its own, and no removal is refused.          *)
(***************************************************************************)
Faultless == ~ExecMayFail /\ ~MayCrash /\ ~MayLose

Building(o, a, s) ==
  /\ Provisioner(o) /\ a = o.target
  /\ \/ o.pc \in {"exec", "save"} /\ o.entry[s] # NoConfig
     \/ o.pc = "exec" /\ s = o.service /\ o.step > 1

Accounted(o, G, R) ==
  \A a \in Apps, s \in Services : R[a][s] # Blank => Lists(G, a, s) \/ Building(o, a, s)

Fresh(s, step, r) == s \in HasStore /\ step = 2 => r.secrets = {}

Tidy(o, G, R) ==
  /\ Accounted(o, G, R)
  /\ o.pc = "exec" /\ Provisioner(o) => Fresh(o.service, o.step, R[o.target][o.service])
  /\ o.kind = "remove" /\ o.pc \in {"exec", "save"} => o.ok /\ o.quiet /\ o.target \in o.request
  /\ o.kind = "remove" /\ o.pc = "exec" /\ o.service = "rabbitmq" =>
       R[o.target][o.service].store

Tidies == damaged = {} /\ \A c \in Clients : Tidy(op[c], registry, res)

LEMMA TeardownLists ==
  /\ Teardown("postgres") = PostgresTeardown /\ Len(PostgresTeardown) = 3
  /\ PostgresTeardown[1] = "pg_terminate_backend" /\ PostgresTeardown[2] = "DROP DATABASE"
  /\ PostgresTeardown[3] = "DROP USER"
  /\ Teardown("redis") = RedisTeardown /\ Len(RedisTeardown) = 3
  /\ RedisTeardown[1] = "EVAL del" /\ RedisTeardown[2] = "ACL DELUSER"
  /\ RedisTeardown[3] = "ACL SAVE"
  /\ Teardown("rabbitmq") = RabbitmqTeardown /\ Len(RabbitmqTeardown) = 2
  /\ RabbitmqTeardown[1] = "delete_user" /\ RabbitmqTeardown[2] = "delete_vhost"
<1>1. /\ Teardown("postgres") = PostgresTeardown /\ Teardown("redis") = RedisTeardown
      /\ Teardown("rabbitmq") = RabbitmqTeardown
  BY DEF Teardown
<1>2. /\ PostgresTeardown[1] = "pg_terminate_backend" /\ PostgresTeardown[2] = "DROP DATABASE"
      /\ PostgresTeardown[3] = "DROP USER" /\ Len(PostgresTeardown) = 3
  BY DEF PostgresTeardown
<1>3. /\ RedisTeardown[1] = "EVAL del" /\ RedisTeardown[2] = "ACL DELUSER"
      /\ RedisTeardown[3] = "ACL SAVE" /\ Len(RedisTeardown) = 3
  BY DEF RedisTeardown
<1>4. /\ RabbitmqTeardown[1] = "delete_user" /\ RabbitmqTeardown[2] = "delete_vhost"
      /\ Len(RabbitmqTeardown) = 2
  BY DEF RabbitmqTeardown
<1> QED
  BY <1>1, <1>2, <1>3, <1>4

LEMMA OtherTeardownLists ==
  /\ Teardown("aistor") = AistorTeardown /\ Len(AistorTeardown) = 4
  /\ AistorTeardown[1] = "rb" /\ AistorTeardown[2] = "policy detach"
  /\ AistorTeardown[3] = "policy rm" /\ AistorTeardown[4] = "user remove"
  /\ Teardown("mongodb") = MongodbTeardown /\ Len(MongodbTeardown) = 2
  /\ MongodbTeardown[1] = "dropUser" /\ MongodbTeardown[2] = "dropDatabase"
  /\ Teardown("signoz") = SignozStep /\ Len(SignozStep) = 1 /\ SignozStep[1] = "none"
<1>1. /\ Teardown("aistor") = AistorTeardown /\ Teardown("mongodb") = MongodbTeardown
      /\ Teardown("signoz") = SignozStep
  BY DEF Teardown
<1>2. /\ AistorTeardown[1] = "rb" /\ AistorTeardown[2] = "policy detach"
      /\ AistorTeardown[3] = "policy rm" /\ AistorTeardown[4] = "user remove"
      /\ Len(AistorTeardown) = 4
  BY DEF AistorTeardown
<1>3. /\ MongodbTeardown[1] = "dropUser" /\ MongodbTeardown[2] = "dropDatabase"
      /\ Len(MongodbTeardown) = 2
  BY DEF MongodbTeardown
<1>4. SignozStep[1] = "none" /\ Len(SignozStep) = 1
  BY DEF SignozStep
<1> QED
  BY <1>1, <1>2, <1>3, <1>4

(* A service without a store has no command that makes one, and signoz     *)
(* none at all.                                                            *)
StoreMaking == {"CREATE DATABASE", "add_vhost", "mb", "ensure vhost"}

LEMMA StorelessCommand ==
  ASSUME NEW s \in Services, s \notin HasStore, NEW cmd,
         \/ \E k \in 1 .. Len(Provision(s)) : cmd = Provision(s)[k]
         \/ \E k \in 1 .. Len(Teardown(s)) : cmd = Teardown(s)[k]
         \/ s \in ensured /\ \E k \in 1 .. Len(Ensure(s)) : cmd = Ensure(s)[k]
  PROVE  cmd \notin StoreMaking /\ (s = "signoz" => cmd = "none")
<1>1. s \in {"redis", "mongodb", "signoz"}
  BY ServicesAssumption DEF AllServices, HasStore
<1>2. CASE s = "redis"
  <2>1. Len(Provision(s)) = 2 /\ Len(Teardown(s)) = 3 /\ s \notin ensured
    BY <1>2, OtherProvisionLists, TeardownLists DEF ensured
  <2>2. (\A k \in 1 .. 2 : k = 1 \/ k = 2) /\ (\A k \in 1 .. 3 : k = 1 \/ k = 2 \/ k = 3)
    OBVIOUS
  <2>3. cmd \in {"ACL SETUSER", "ACL SAVE", "EVAL del", "ACL DELUSER"}
    <3>1. ASSUME NEW k \in 1 .. 2, cmd = Provision(s)[k] PROVE cmd \in {"ACL SETUSER", "ACL SAVE"}
      BY <1>2, <2>2, <3>1, OtherProvisionLists
    <3>2. ASSUME NEW k \in 1 .. 3, cmd = Teardown(s)[k]
          PROVE  cmd \in {"EVAL del", "ACL DELUSER", "ACL SAVE"}
      BY <1>2, <2>2, <3>2, TeardownLists
    <3> QED
      BY <2>1, <3>1, <3>2
  <2> QED
    BY <1>2, <2>3 DEF StoreMaking
<1>3. CASE s = "mongodb"
  <2>1. Len(Provision(s)) = 1 /\ Len(Teardown(s)) = 2 /\ Len(Ensure(s)) = 1
    BY <1>3, OtherProvisionLists, OtherTeardownLists, EnsureLists
  <2>2. (\A k \in 1 .. 1 : k = 1) /\ (\A k \in 1 .. 2 : k = 1 \/ k = 2)
    OBVIOUS
  <2>3. /\ Provision(s)[1] = "createUser"
        /\ Teardown(s)[1] = "dropUser" /\ Teardown(s)[2] = "dropDatabase"
        /\ Ensure(s)[1] = "getUser createUser updateUser"
    BY <1>3, OtherProvisionLists, OtherTeardownLists, EnsureLists
  <2>4. cmd \in {"createUser", "dropUser", "dropDatabase", "getUser createUser updateUser"}
    <3> HIDE <1>3
    <3> QED
      BY <2>1, <2>2, <2>3
  <2> QED
    BY <1>3, <2>4 DEF StoreMaking
<1>4. CASE s = "signoz"
  <2>1. Len(Provision(s)) = 1 /\ Len(Teardown(s)) = 1 /\ s \notin ensured
    BY <1>4, OtherProvisionLists, OtherTeardownLists DEF ensured
  <2>2. \A k \in 1 .. 1 : k = 1
    OBVIOUS
  <2>3. cmd = "none"
    BY <1>4, <2>1, <2>2, OtherProvisionLists, OtherTeardownLists
  <2> QED
    BY <2>3 DEF StoreMaking
<1> QED
  BY <1>1, <1>2, <1>3, <1>4

LEMMA ShapedStep ==
  ASSUME NEW s, NEW cmd, NEW r \in Resource, NEW secret, NEW seen,
         Accepts(cmd, r, seen), Shaped(s, r),
         s \notin HasStore => cmd \notin StoreMaking, s = "signoz" => cmd = "none"
  PROVE  Shaped(s, Effect(cmd, r, secret, seen))
<1> DEFINE q == Effect(cmd, r, secret, seen)
<1>1. CASE s = "signoz"
  <2>1. Effect("none", r, secret, seen) = r
    BY DEF Effect
  <2> QED
    BY <1>1, <2>1
<1>2. CASE s # "signoz"
  <2>1. ASSUME q = r PROVE Shaped(s, q)
    BY <2>1
  <2>2. ASSUME q = [r EXCEPT !.store = TRUE], s \in HasStore PROVE Shaped(s, q)
    <3> HIDE DEF q
    <3> QED
      BY <1>2, <2>2 DEF Shaped, Resource
  <2>3. ASSUME \/ q = [r EXCEPT !.secrets = {secret}]
               \/ q = [r EXCEPT !.secrets = {secret}, !.granted = TRUE]
               \/ r.secrets # {} /\ q = [r EXCEPT !.granted = TRUE]
               \/ q = AddPassword(r, secret)
        PROVE  Shaped(s, q)
    <3> HIDE DEF q
    <3> QED
      BY <1>2, <2>3 DEF Shaped, Resource, AddPassword
  <2>4. ASSUME \/ q = [r EXCEPT !.store = FALSE, !.granted = FALSE]
               \/ q = [r EXCEPT !.secrets = {}, !.granted = FALSE]
               \/ q = [r EXCEPT !.granted = FALSE]
               \/ q = Blank
        PROVE  Shaped(s, q)
    <3> HIDE DEF q
    <3>1. ASSUME q = [r EXCEPT !.store = FALSE, !.granted = FALSE]
          PROVE  q.granted = FALSE /\ q.store = FALSE
      BY <3>1 DEF Resource
    <3>2. ASSUME q = [r EXCEPT !.secrets = {}, !.granted = FALSE]
          PROVE  q.granted = FALSE /\ q.store = r.store
      BY <3>2 DEF Resource
    <3>3. ASSUME q = [r EXCEPT !.granted = FALSE]
          PROVE  q.granted = FALSE /\ q.store = r.store
      BY <3>3 DEF Resource
    <3>4. ASSUME q = Blank PROVE q.granted = FALSE /\ q.store = FALSE
      BY <3>4 DEF Blank
    <3>5. q.granted = FALSE /\ (q.store = FALSE \/ q.store = r.store)
      BY <2>4, <3>1, <3>2, <3>3, <3>4
    <3> QED
      BY <1>2, <3>5 DEF Shaped
  <2>5. CASE cmd \in StoreMaking
    <3>1. q = r \/ q = [r EXCEPT !.store = TRUE]
      BY <2>5 DEF StoreMaking, Effect
    <3> QED
      BY <2>1, <2>2, <2>5, <3>1
  <2>6. CASE cmd \in {"CREATE USER", "add_user", "user add", "ensure user"}
    BY <2>3, <2>6 DEF Effect
  <2>7. CASE cmd \in {"grantPermissions", "set_permissions", "policy attach"}
    <3>1. q = [r EXCEPT !.granted = TRUE]
      BY <2>7 DEF Effect
    <3>2. r.secrets # {}
      BY <2>7 DEF Accepts
    <3> QED
      BY <2>3, <3>1, <3>2
  <2>8. CASE cmd = "ACL SETUSER"
    BY <2>3, <2>8 DEF Effect
  <2>9. CASE cmd \in {"createUser", "getUser createUser updateUser"}
    BY <2>3, <2>9 DEF Effect
  <2>10. CASE cmd \in {"DROP DATABASE", "delete_vhost"}
    BY <2>4, <2>10 DEF Effect
  <2>14. CASE cmd = "rb"
    <3>1. q = [r EXCEPT !.store = FALSE]
      BY <2>14 DEF Effect
    <3>2. ASSUME q = [r EXCEPT !.store = FALSE] PROVE Shaped(s, q)
      <4> HIDE DEF q
      <4>1. q.store = FALSE /\ q.granted = r.granted /\ q.secrets = r.secrets
        BY <3>2 DEF Resource
      <4> QED
        BY <1>2, <4>1 DEF Shaped
    <3> QED
      BY <3>1, <3>2
  <2>11. CASE cmd \in {"DROP USER", "delete_user", "ACL DELUSER", "user remove", "dropUser",
                       "policy detach"}
    BY <2>4, <2>11 DEF Effect
  <2>13. ASSUME cmd \notin StoreMaking, cmd # "ACL SETUSER",
                cmd \notin {"CREATE USER", "add_user", "user add", "ensure user"},
                cmd \notin {"grantPermissions", "set_permissions", "policy attach"},
                cmd \notin {"createUser", "getUser createUser updateUser"},
                cmd \notin {"DROP DATABASE", "delete_vhost", "rb"},
                cmd \notin {"DROP USER", "delete_user", "ACL DELUSER", "user remove",
                            "dropUser", "policy detach"}
         PROVE  q = r
    BY <2>13 DEF Effect, StoreMaking
  <2> QED
    BY <2>1, <2>5, <2>6, <2>7, <2>8, <2>9, <2>10, <2>11, <2>13, <2>14
<1> QED
  BY <1>1, <1>2

LEMMA ApplyShapes ==
  ASSUME Typed, Courses, Shapes, NEW c \in Clients, AtCommand(c), Apply(op[c])
  PROVE  Shapes'
<1> DEFINE o == op[c]
           cmd == Command(o)
           r == Resources(o)
<1>1. /\ o.target \in Apps /\ o.service \in Services /\ r \in Resource
      /\ o.step \in 1 .. Len(Commands(o)) /\ cmd = Commands(o)[o.step]
  BY AtWork DEF Command
<1>2. /\ Accepts(cmd, r, o.seen)
      /\ res'[o.target][o.service] = Effect(cmd, r, Secret(o), o.seen)
      /\ \A a \in Apps, s \in Services :
           a # o.target \/ s # o.service => res'[a][s] = res[a][s]
  BY ApplyEffect
<1>3. \/ Commands(o) = Provision(o.service)
      \/ Commands(o) = Teardown(o.service)
      \/ o.service \in ensured /\ Commands(o) = Ensure(o.service)
  BY ServiceOf DEF Provisioner
<1>4. Shaped(o.service, r)
  BY <1>1 DEF Shapes, Resources
<1> HIDE DEF o, cmd, r
<1>5. o.service \notin HasStore =>
        cmd \notin StoreMaking /\ (o.service = "signoz" => cmd = "none")
  BY <1>1, <1>3, StorelessCommand
<1>6. o.service = "signoz" => o.service \notin HasStore
  BY DEF HasStore
<1>7. Shaped(o.service, Effect(cmd, r, Secret(o), o.seen))
  BY <1>1, <1>2, <1>4, <1>5, <1>6, ShapedStep
<1> QED
  BY <1>2, <1>7 DEF Shapes

(* A loss blanks what it touches, but for the users redis reads again.     *)
LEMMA LossShaped ==
  ASSUME Typed, Losses, NEW a \in Apps, NEW s \in Services, Shaped(s, res[a][s])
  PROVE  Shaped(s, res'[a][s])
<1>1. Shaped(s, Blank)
  BY DEF Shaped, Blank
<1>2. ASSUME NEW t \in Services, Wipe(t) PROVE Shaped(s, res'[a][s])
  <2>1. res'[a][s] = IF s = t THEN Blank ELSE res[a][s]
    BY <1>2 DEF Wipe, Typed, TypeOK
  <2> QED
    BY <1>1, <2>1
<1>3. CASE RestartRedis
  <2> DEFINE known == aclFile[a] # {}
             q == [Blank EXCEPT !.secrets = aclFile[a], !.granted = known]
  <2>1. res'[a][s] = IF s = "redis" THEN q ELSE res[a][s]
    BY <1>3 DEF RestartRedis, Typed, TypeOK
  <2>2. q.store = FALSE /\ q.secrets = aclFile[a] /\ q.granted = known
    BY DEF Blank
  <2>3. s = "redis" => Shaped(s, q)
    BY <2>2 DEF Shaped
  <2> QED
    BY <2>1, <2>3
<1> QED
  BY <1>2, <1>3 DEF Losses

LEMMA ShapesNext ==
  ASSUME Typed, Courses, Shapes, [Next]_vars
  PROVE  Shapes'
<1>1. CASE res' = res
  BY <1>1 DEF Shapes
<1>2. ASSUME NEW c \in Clients, ExecOk(c) \/ ExecFails(c) PROVE Shapes'
  BY <1>1, <1>2, ApplyShapes DEF ExecOk, ExecFails
<1>3. ASSUME NEW c \in Clients, Begin(c) PROVE res' = res
  BY <1>3, BeginMoves
<1>4. ASSUME NEW c \in Clients,
             \/ CheckContainers(c) \/ Save(c) \/ SaveFails(c) \/ Return(c) \/ Crash(c)
      PROVE  res' = res
  BY <1>4 DEF CheckContainers, Save, SaveFails, Return, Crash
<1>5. CASE Losses
  <2>1. \A a \in Apps, s \in Services : Shaped(s, res'[a][s])
    BY <1>5, LossShaped DEF Shapes
  <2> QED
    BY <2>1 DEF Shapes
<1> QED
  BY <1>1, <1>2, <1>3, <1>4, <1>5 DEF Next, Proceed, Losses, vars

(* A command of a Teardown takes effect, or is best-effort and refused.    *)
Tears(cmd, r, secret, seen, q) ==
  \/ Accepts(cmd, r, seen) /\ q = Effect(cmd, r, secret, seen)
  \/ cmd \in BestEffort /\ ~Accepts(cmd, r, seen) /\ q = r

LEMMA TeardownStep ==
  ASSUME NEW s \in Services, NEW k \in 1 .. Len(Teardown(s)), NEW cmd,
         NEW r \in Resource, NEW secret, NEW seen, NEW q,
         cmd = Teardown(s)[k], Shaped(s, r), HalfTorn(s, k, r),
         Tears(cmd, r, secret, seen, q)
  PROVE  /\ k # Len(Teardown(s)) => HalfTorn(s, k + 1, q)
         /\ k = Len(Teardown(s)) => /\ q = Blank
                                    /\ s = "redis" => cmd = "ACL SAVE" /\ r.secrets = {}
<1>0. /\ r.store \in BOOLEAN /\ r.granted \in BOOLEAN
      /\ \A x \in Resource : ~x.store /\ x.secrets = {} /\ ~x.granted => x = Blank
  BY DEF Resource, Blank
<1>a. /\ Accepts(cmd, r, seen) \/ cmd \in BestEffort
      /\ q = IF Accepts(cmd, r, seen) THEN Effect(cmd, r, secret, seen) ELSE r
  BY DEF Tears
<1>1. CASE s = "postgres"
  <2>1. Len(Teardown(s)) = 3
    BY <1>1, TeardownLists
  <2>2. k = 1 \/ k = 2 \/ k = 3
    BY <2>1
  <2>3. CASE k = 1
    <3>1. k + 1 = 2 /\ k # Len(Teardown(s))
      BY <2>1, <2>3
    <3>2. HalfTorn("postgres", 2, q)
      BY DEF HalfTorn
    <3> QED
      BY <1>1, <3>1, <3>2
  <2>4. CASE k = 2
    <3>1. cmd = "DROP DATABASE"
      BY <1>1, <2>4, TeardownLists
    <3>2. Accepts(cmd, r, seen) /\ Effect(cmd, r, secret, seen)
                                     = [r EXCEPT !.store = FALSE, !.granted = FALSE]
      BY <3>1 DEF Accepts, Effect
    <3>3. ~q.store /\ ~q.granted
      BY <1>a, <3>2 DEF Resource
    <3>4. HalfTorn(s, k + 1, q)
      BY <1>1, <3>3 DEF HalfTorn
    <3>5. k # Len(Teardown(s))
      BY <2>1, <2>4
    <3> QED
      BY <3>4, <3>5
  <2>5. CASE k = 3
    <3>1. cmd = "DROP USER"
      BY <1>1, <2>5, TeardownLists
    <3>2. Accepts(cmd, r, seen) /\ Effect(cmd, r, secret, seen)
                                     = [r EXCEPT !.secrets = {}, !.granted = FALSE]
      BY <3>1 DEF Accepts, Effect
    <3>3. ~r.store
      BY <1>1, <2>5 DEF HalfTorn
    <3>4. q = Blank
      BY <1>a, <3>2, <3>3 DEF Resource, Blank
    <3> QED
      BY <1>1, <2>1, <2>5, <3>4
  <2> QED
    BY <2>2, <2>3, <2>4, <2>5
<1>2. CASE s = "redis"
  <2>1. Len(Teardown(s)) = 3
    BY <1>2, TeardownLists
  <2>2. k = 1 \/ k = 2 \/ k = 3
    BY <2>1
  <2>3. CASE k = 1
    <3>1. k + 1 = 2 /\ k # Len(Teardown(s))
      BY <2>1, <2>3
    <3>2. HalfTorn("redis", 2, q)
      BY DEF HalfTorn
    <3> QED
      BY <1>2, <3>1, <3>2
  <2>4. CASE k = 2
    <3>1. cmd = "ACL DELUSER"
      BY <1>2, <2>4, TeardownLists
    <3>2. Accepts(cmd, r, seen) /\ Effect(cmd, r, secret, seen)
                                     = [r EXCEPT !.secrets = {}, !.granted = FALSE]
      BY <3>1 DEF Accepts, Effect
    <3>3. q.secrets = {} /\ ~q.granted
      BY <1>a, <3>2 DEF Resource
    <3>4. HalfTorn(s, k + 1, q)
      BY <1>2, <3>3 DEF HalfTorn
    <3>5. k # Len(Teardown(s))
      BY <2>1, <2>4
    <3> QED
      BY <3>4, <3>5
  <2>5. CASE k = 3
    <3>1. cmd = "ACL SAVE"
      BY <1>2, <2>5, TeardownLists
    <3>2. q = r
      BY <1>a, <3>1 DEF Accepts, Effect
    <3>3. r.secrets = {} /\ ~r.granted /\ ~r.store
      BY <1>2, <2>5 DEF HalfTorn, Shaped, HasStore
    <3>4. r = Blank
      BY <1>0, <3>3
    <3> QED
      BY <1>2, <2>1, <2>5, <3>1, <3>2, <3>3, <3>4
  <2> QED
    BY <2>2, <2>3, <2>4, <2>5
<1>3. CASE s = "rabbitmq"
  <2>1. Len(Teardown(s)) = 2
    BY <1>3, TeardownLists
  <2>2. k = 1 \/ k = 2
    BY <2>1
  <2>3. CASE k = 1
    <3>1. cmd = "delete_user"
      BY <1>3, <2>3, TeardownLists
    <3>2. /\ Accepts(cmd, r, seen) <=> r.secrets # {}
          /\ Effect(cmd, r, secret, seen) = [r EXCEPT !.secrets = {}, !.granted = FALSE]
      BY <3>1 DEF Accepts, Effect
    <3>3. r.granted => r.secrets # {}
      BY DEF Shaped
    <3>4. q.secrets = {} /\ ~q.granted
      BY <1>a, <1>0, <3>2, <3>3 DEF Resource
    <3>5. HalfTorn(s, k + 1, q)
      BY <1>3, <3>4 DEF HalfTorn
    <3>6. k # Len(Teardown(s))
      BY <2>1, <2>3
    <3> QED
      BY <3>5, <3>6
  <2>4. CASE k = 2
    <3>1. cmd = "delete_vhost"
      BY <1>3, <2>4, TeardownLists
    <3>2. Accepts(cmd, r, seen)
      BY <1>a, <3>1 DEF BestEffort
    <3>3. q = [r EXCEPT !.store = FALSE, !.granted = FALSE]
      BY <1>a, <3>1, <3>2 DEF Effect
    <3>4. r.secrets = {}
      BY <1>3, <2>4 DEF HalfTorn
    <3>5. q = Blank
      BY <3>3, <3>4 DEF Resource, Blank
    <3> QED
      BY <1>3, <2>1, <2>4, <3>5
  <2> QED
    BY <2>2, <2>3, <2>4
<1>4. CASE s = "aistor"
  <2>1. Len(Teardown(s)) = 4
    BY <1>4, OtherTeardownLists
  <2>2. k = 1 \/ k = 2 \/ k = 3 \/ k = 4
    BY <2>1
  <2>3. CASE k = 1
    <3>1. cmd = "rb"
      BY <1>4, <2>3, OtherTeardownLists
    <3>2. /\ Accepts(cmd, r, seen) <=> r.store
          /\ Effect(cmd, r, secret, seen) = [r EXCEPT !.store = FALSE]
      BY <3>1 DEF Accepts, Effect
    <3>3. ~q.store
      BY <1>a, <1>0, <3>2 DEF Resource
    <3>4. HalfTorn(s, k + 1, q)
      BY <1>4, <2>3, <3>3 DEF HalfTorn
    <3>5. k # Len(Teardown(s))
      BY <2>1, <2>3
    <3> QED
      BY <3>4, <3>5
  <2>4. CASE k = 2
    <3>1. cmd = "policy detach"
      BY <1>4, <2>4, OtherTeardownLists
    <3>2. /\ Accepts(cmd, r, seen) <=> r.granted
          /\ Effect(cmd, r, secret, seen) = [r EXCEPT !.granted = FALSE]
      BY <3>1 DEF Accepts, Effect
    <3>3. ~r.store
      BY <1>4, <2>4 DEF HalfTorn
    <3>4. ~q.granted /\ ~q.store
      BY <1>a, <1>0, <3>2, <3>3 DEF Resource
    <3>5. HalfTorn(s, k + 1, q)
      BY <1>4, <2>4, <3>4 DEF HalfTorn
    <3>6. k # Len(Teardown(s))
      BY <2>1, <2>4
    <3> QED
      BY <3>5, <3>6
  <2>5. CASE k = 3
    <3>1. cmd = "policy rm"
      BY <1>4, <2>5, OtherTeardownLists
    <3>2. q = r
      BY <1>a, <3>1 DEF Effect
    <3>3. ~r.store /\ ~r.granted
      BY <1>4, <2>5 DEF HalfTorn
    <3>4. HalfTorn(s, k + 1, r)
      BY <1>4, <3>3 DEF HalfTorn
    <3>5. HalfTorn(s, k + 1, q) /\ k # Len(Teardown(s))
      BY <2>1, <2>5, <3>2, <3>4
    <3> QED
      BY <3>5
  <2>6. CASE k = 4
    <3>1. cmd = "user remove"
      BY <1>4, <2>6, OtherTeardownLists
    <3>2. /\ Accepts(cmd, r, seen) <=> r.secrets # {}
          /\ Effect(cmd, r, secret, seen) = [r EXCEPT !.secrets = {}, !.granted = FALSE]
      BY <3>1 DEF Accepts, Effect
    <3>3. ~r.store /\ ~r.granted
      BY <1>4, <2>6 DEF HalfTorn
    <3>4. [r EXCEPT !.secrets = {}, !.granted = FALSE] = Blank
      <4>1. r.store = FALSE
        BY <1>0, <3>3
      <4> DEFINE x == [r EXCEPT !.secrets = {}, !.granted = FALSE]
      <4>2. x \in Resource /\ x.store = r.store /\ x.secrets = {} /\ x.granted = FALSE
        BY DEF Resource
      <4> HIDE DEF x
      <4>3. x = Blank
        BY <1>0, <4>1, <4>2
      <4> QED
        BY <4>3 DEF x
    <3>5. r.secrets = {} => r = Blank
      BY <1>0, <3>3
    <3>6. q = Blank
      BY <1>a, <3>2, <3>4, <3>5
    <3> QED
      BY <1>4, <2>1, <2>6, <3>6
  <2> QED
    BY <2>2, <2>3, <2>4, <2>5, <2>6
<1>5. CASE s = "mongodb"
  <2>1. Len(Teardown(s)) = 2
    BY <1>5, OtherTeardownLists
  <2>2. k = 1 \/ k = 2
    BY <2>1
  <2>3. CASE k = 1
    <3>1. cmd = "dropUser"
      BY <1>5, <2>3, OtherTeardownLists
    <3>2. /\ Accepts(cmd, r, seen) <=> r.secrets # {}
          /\ Effect(cmd, r, secret, seen) = [r EXCEPT !.secrets = {}, !.granted = FALSE]
      BY <3>1 DEF Accepts, Effect
    <3>3. r.granted => r.secrets # {}
      BY DEF Shaped
    <3>4. q.secrets = {} /\ ~q.granted
      BY <1>a, <1>0, <3>2, <3>3 DEF Resource
    <3>5. HalfTorn(s, k + 1, q)
      BY <1>5, <3>4 DEF HalfTorn
    <3>6. k # Len(Teardown(s))
      BY <2>1, <2>3
    <3> QED
      BY <3>5, <3>6
  <2>4. CASE k = 2
    <3>1. cmd = "dropDatabase"
      BY <1>5, <2>4, OtherTeardownLists
    <3>2. q = r
      BY <1>a, <3>1 DEF Effect
    <3>3. r.secrets = {} /\ ~r.granted /\ ~r.store
      BY <1>5, <2>4 DEF HalfTorn, Shaped, HasStore
    <3>4. r = Blank
      BY <1>0, <3>3
    <3> QED
      BY <1>5, <2>1, <2>4, <3>2, <3>4
  <2> QED
    BY <2>2, <2>3, <2>4
<1>6. CASE s = "signoz"
  <2>1. k = Len(Teardown(s)) /\ cmd = "none"
    <3>1. Len(Teardown(s)) = 1
      BY <1>6, OtherTeardownLists
    <3>2. k = 1
      BY <3>1
    <3> QED
      BY <1>6, <3>1, <3>2, OtherTeardownLists
  <2>2. q = r
    BY <1>a, <2>1 DEF Accepts, Effect
  <2>3. r = Blank /\ s # "redis"
    BY <1>6 DEF Shaped
  <2>4. k = Len(Teardown(s)) /\ q = Blank
    BY <2>1, <2>2, <2>3
  <2> QED
    BY <2>3, <2>4
<1> QED
  BY <1>1, <1>2, <1>3, <1>4, <1>5, <1>6, ServicesAssumption DEF AllServices

LEMMA RemovalStep ==
  ASSUME NEW o, WellFormed(o), o.pc = "exec", o.kind = "remove",
         NEW r \in Resource, NEW q,
         Shaped(o.service, r), HalfTorn(o.service, o.step, r),
         Tears(Command(o), r, Secret(o), o.seen, q)
  PROVE  /\ ~LastCommand(o) => HalfTorn(o.service, o.step + 1, q)
         /\ LastCommand(o) => /\ q = Blank
                              /\ o.service = "redis" =>
                                   Command(o) = "ACL SAVE" /\ r.secrets = {}
<1>1. /\ o.service \in Services /\ o.step \in 1 .. Len(Teardown(o.service))
      /\ Commands(o) = Teardown(o.service)
  BY DEF WellFormed, Commands, Provisioner
<1>2. Command(o) = Teardown(o.service)[o.step]
  BY <1>1 DEF Command
<1>3. /\ o.step # Len(Teardown(o.service)) => HalfTorn(o.service, o.step + 1, q)
      /\ o.step = Len(Teardown(o.service)) =>
           /\ q = Blank
           /\ o.service = "redis" => Command(o) = "ACL SAVE" /\ r.secrets = {}
  BY <1>1, <1>2, TeardownStep
<1>4. LastCommand(o) <=> o.step = Len(Teardown(o.service))
  BY <1>1 DEF LastCommand
<1> QED
  BY <1>3, <1>4

(* A removal goes on: its command took effect, or its error is discarded.  *)
Tore(o) ==
  \/ Apply(o)
  \/ /\ Command(o) \in BestEffort
     /\ o.service \in Heeded => ~Accepts(Command(o), Resources(o), o.seen)
     /\ UNCHANGED <<res, aclFile>>

(* Whatever the command, nothing of another app or service appears.        *)
LEMMA ElsewhereGone ==
  ASSUME Typed, NEW c \in Clients, AtCommand(c), Apply(op[c]) \/ UNCHANGED <<res, aclFile>>,
         NEW a \in Apps, NEW s \in Services, a # op[c].target \/ s # op[c].service,
         Gone(a, s, res, aclFile)
  PROVE  Gone(a, s, res', aclFile')
<1>1. CASE Apply(op[c])
  <2>1. res'[a][s] = Blank /\ Blank.secrets = {}
    BY <1>1, ApplyEffect DEF Gone, Remains, Blank
  <2>2. aclFile'[a] = SavedBy(Command(op[c]), res[a]["redis"], aclFile[a])
    BY <1>1, ApplyEffect
  <2>3. s = "redis" => aclFile'[a] = {}
    BY <2>1, <2>2 DEF Gone, Remains, SavedBy
  <2> QED
    BY <2>1, <2>3 DEF Gone, Remains
<1>2. CASE UNCHANGED <<res, aclFile>>
  BY <1>2 DEF Gone, Remains
<1> QED
  BY <1>1, <1>2

(* Where a removal is to report whatever goes wrong, it comes to its end.  *)
LEMMA ToreStep ==
  ASSUME Typed, Courses, Shapes, NEW c \in Clients, AtCommand(c),
         op[c].kind = "remove", Tore(op[c]), op[c].service \in Heeded,
         HalfTorn(op[c].service, op[c].step, Resources(op[c]))
  PROVE  LET o == op[c] IN
         /\ ~LastCommand(o) =>
              HalfTorn(o.service, o.step + 1, res'[o.target][o.service])
         /\ LastCommand(o) => Gone(o.target, o.service, res', aclFile')
<1> DEFINE o == op[c]
           cmd == Command(o)
           r == Resources(o)
           q == res'[o.target][o.service]
           F == aclFile'
<1>1. /\ WellFormed(o) /\ o.pc = "exec" /\ o.target \in Apps /\ o.service \in Services
      /\ r \in Resource
  BY AtWork
<1>2. /\ Tears(cmd, r, Secret(o), o.seen, q)
      /\ F[o.target] = SavedBy(cmd, res[o.target]["redis"], aclFile[o.target])
  <2>1. CASE Apply(o)
    BY <1>1, <2>1, ApplyEffect DEF Tears
  <2>2. CASE /\ cmd \in BestEffort /\ ~Accepts(cmd, r, o.seen)
             /\ UNCHANGED <<res, aclFile>>
    <3>1. cmd # "ACL SAVE"
      BY <2>2 DEF BestEffort
    <3> QED
      BY <2>2, <3>1 DEF Tears, SavedBy, Resources
  <2> QED
    BY <2>1, <2>2 DEF Tore
<1>3. Shaped(o.service, r)
  BY <1>1 DEF Shapes, Resources
<1>4. o.service = "redis" /\ cmd = "ACL SAVE" => F[o.target] = r.secrets
  BY <1>2 DEF Resources, SavedBy
<1>5. HalfTorn(o.service, o.step, r) /\ o.kind = "remove"
  OBVIOUS
<1>6. /\ ~LastCommand(o) => HalfTorn(o.service, o.step + 1, q)
      /\ LastCommand(o) => /\ q = Blank
                           /\ o.service = "redis" => cmd = "ACL SAVE" /\ r.secrets = {}
  <2> HIDE DEF o, r, q
  <2> QED
    BY <1>1, <1>2, <1>3, <1>5, RemovalStep
<1> QED
  BY <1>4, <1>6 DEF Gone, Remains

LEMMA TeardownGoes ==
  ASSUME Typed, Courses, Shapes, NEW c \in Clients, AtCommand(c),
         op[c].kind = "remove", op[c].ok, op[c].quiet, Cleared(op[c], res, aclFile),
         NEW p \in AfterCommand(op[c], Resources(op[c])), Tore(op[c])
  PROVE  Cleared(p, res', aclFile')
<1> DEFINE o == op[c]
           R == res'
           F == aclFile'
<1>1. /\ o \in Operation /\ WellFormed(o) /\ o.pc = "exec" /\ AtTarget(o)
      /\ o.target \in Apps /\ o.service \in Services
  BY AtWork
<1>3. /\ o.service \in Heeded => HalfTorn(o.service, o.step, Resources(o))
      /\ o.targets = {} /\ o.request \subseteq Apps
      /\ \A a \in o.request, s \in Heeded :
           o.loaded[a][s] # NoConfig => Left(o, a, s) \/ Gone(a, s, res, aclFile)
  BY <1>1 DEF Resources, Cleared, Operation
<1>4. o.service \in Heeded =>
        /\ ~LastCommand(o) => HalfTorn(o.service, o.step + 1, R[o.target][o.service])
        /\ LastCommand(o) => Gone(o.target, o.service, R, F)
  BY <1>3, ToreStep
<1>5. ASSUME NEW a \in Apps, NEW s \in Services, a # o.target \/ s # o.service,
             Gone(a, s, res, aclFile)
      PROVE  Gone(a, s, R, F)
  <2>1. Apply(o) \/ UNCHANGED <<res, aclFile>>
    BY DEF Tore
  <2> QED
    BY <1>5, <2>1, ElsewhereGone
<1> HIDE DEF R, F
<1>7. ASSUME NEW a \in o.request, NEW s \in Heeded, o.loaded[a][s] # NoConfig
      PROVE  \/ a = o.target /\ s \in o.todo
             \/ a = o.target /\ s = o.service /\ ~LastCommand(o)
             \/ Gone(a, s, R, F)
  BY <1>3, <1>4, <1>5, <1>7 DEF Left, Heeded
<1>8. CASE Advances(o, p)
  <2>1. ~LastCommand(o)
    BY <1>8 DEF Advances
  <2>2. p.service \in Heeded => HalfTorn(p.service, p.step, R[p.target][p.service])
    BY <1>4, <1>8, <2>1 DEF Advances, SameTarget
  <2>3. Cleared(p, R, F)
    BY <1>3, <1>7, <1>8, <2>2 DEF Advances, SameTarget, SameJob, Cleared, Left
  <2> QED
    BY <2>3 DEF R, F
<1>9. CASE LastCommand(o) /\ p \in AfterService(Completed(o))
  <2>1. Completed(o) = o
    BY DEF Completed, Provisioner
  <2>2. Serves(o, p) \/ Saves(o, p)
    BY <1>1, <1>9, <2>1, AfterServiceMoves
  <2>3. Cleared(p, R, F)
    <3>1. CASE Serves(o, p)
      <4>1. \A x : HalfTorn(p.service, p.step, x)
        BY <3>1 DEF Serves, HalfTorn
      <4> QED
        BY <1>3, <1>7, <1>9, <3>1, <4>1 DEF Serves, SameTarget, SameJob, Cleared, Left
    <3>2. CASE Saves(o, p)
      BY <1>3, <1>7, <1>9, <3>2 DEF Saves, SameTarget, SameJob, Cleared
    <3> QED
      BY <2>2, <3>1, <3>2
  <2> QED
    BY <2>3 DEF R, F
<1> QED
  BY <1>1, <1>8, <1>9, AfterCommandMoves

LEMMA OtherCleared ==
  ASSUME NEW p, p.kind # "remove" \/ ~p.ok \/ ~p.quiet, NEW R, NEW F
  PROVE  Cleared(p, R, F)
  BY DEF Cleared

(* Where a removal is to report whatever goes wrong, only the refusal of a *)
(* best-effort command is passed over in silence.                          *)
LEMMA HeededFails ==
  ASSUME Typed, Courses, NEW c \in Clients, AtCommand(c), ExecFails(c),
         Discards(op[c])
  PROVE  Tore(op[c])
<1> DEFINE o == op[c]
           cmd == Command(o)
<1>1. ASSUME o.service \notin Discarding PROVE cmd \notin BestEffort
  <2>1. /\ o.service \in {"postgres", "redis", "signoz"}
        /\ o.step \in 1 .. Len(Teardown(o.service)) /\ cmd = Teardown(o.service)[o.step]
    <3>1. Commands(o) = Teardown(o.service)
      BY ServiceOf DEF Discards
    <3>2. o.service \in Services /\ o.step \in 1 .. Len(Commands(o))
      BY AtWork
    <3> QED
      BY <1>1, <3>1, <3>2, ServicesAssumption DEF Command, AllServices, Discarding
  <2> DEFINE s == o.service
             k == o.step
  <2> HIDE DEF s, k, cmd
  <2>0. k \in 1 .. Len(Teardown(s)) /\ cmd = Teardown(s)[k]
    BY <2>1 DEF s, k
  <2>2. CASE s = "postgres"
    <3>0. Len(Teardown(s)) = 3
      BY <2>2, TeardownLists
    <3>1. k = 1 \/ k = 2 \/ k = 3
      BY <2>0, <3>0
    <3>2. cmd \in {"pg_terminate_backend", "DROP DATABASE", "DROP USER"}
      BY <2>0, <2>2, <3>1, TeardownLists
    <3> QED
      BY <3>2 DEF BestEffort
  <2>3. CASE s = "redis"
    <3>0. Len(Teardown(s)) = 3
      BY <2>3, TeardownLists
    <3>1. k = 1 \/ k = 2 \/ k = 3
      BY <2>0, <3>0
    <3>2. cmd \in {"EVAL del", "ACL DELUSER", "ACL SAVE"}
      BY <2>0, <2>3, <3>1, TeardownLists
    <3> QED
      BY <3>2 DEF BestEffort
  <2>4. CASE s = "signoz"
    <3>0. Len(Teardown(s)) = 1
      BY <2>4, OtherTeardownLists
    <3>1. k = 1
      BY <2>0, <3>0
    <3>2. cmd = "none"
      BY <2>0, <2>4, <3>1, OtherTeardownLists
    <3> QED
      BY <3>2 DEF BestEffort
  <2> QED
    BY <2>1, <2>2, <2>3, <2>4 DEF s
<1>2. cmd \in BestEffort
  BY DEF Discards
<1>3. o.service \in Heeded => ~ExecMayFail
  BY <1>1, <1>2 DEF Heeded
<1>4. \/ Apply(o)
      \/ /\ UNCHANGED <<res, aclFile>>
         /\ ~Accepts(cmd, Resources(o), o.seen) \/ ExecMayFail
  BY DEF ExecFails
<1> QED
  BY <1>2, <1>3, <1>4 DEF Tore

LEMMA BeginCleared ==
  ASSUME OneClient, Typed, NEW c \in Clients, Begin(c)
  PROVE  Clearances'
<1>1. res' = res /\ aclFile' = aclFile
  BY BeginMoves
<1>2. PICK p : /\ Become(c, p)
               /\ \/ StartsProvisioner(p) \/ StartsRemove(p) \/ StartsDetach(p)
                  \/ StartsReconcile(p) \/ StartsEncrypt(p)
  BY BeginMoves
<1>3. ASSUME StartsRemove(p) PROVE Cleared(p, res, aclFile)
  <2>1. PICK q \in Operation :
          /\ AtTarget(q) /\ q.kind = "remove" /\ q.loaded = registry /\ q.targets = {}
          /\ q.request = {q.target} /\ q.todo = Pending(q, q.target)
          /\ p \in AfterService(q)
    BY <1>3 DEF StartsRemove
  <2>2. Serves(q, p) \/ Saves(q, p)
    BY <2>1, AfterServiceMoves
  <2>3. \A a \in q.request, s \in Heeded : q.loaded[a][s] # NoConfig => a = q.target /\ s \in q.todo
    BY <2>1 DEF Pending, Heeded
  <2>4. CASE Serves(q, p)
    <3>1. \A x : HalfTorn(p.service, p.step, x)
      BY <2>4 DEF Serves, HalfTorn
    <3> QED
      BY <2>1, <2>3, <2>4, <3>1 DEF Serves, SameTarget, SameJob, Cleared, Left
  <2>5. CASE Saves(q, p)
    BY <2>1, <2>3, <2>5 DEF Saves, SameTarget, SameJob, Cleared
  <2> QED
    BY <2>2, <2>4, <2>5
<1>4. ASSUME StartsReconcile(p) PROVE p.kind # "remove"
  <2>1. PICK q \in Operation : Working(q) /\ q.kind = "reconcile" /\ p \in NextTarget(q)
    BY <1>4 DEF StartsReconcile
  <2> QED
    BY <2>1, NextTargetOnward DEF Onward, Ends, Enters, SameJob
<1>5. ASSUME StartsDetach(p) \/ StartsEncrypt(p) \/ StartsProvisioner(p)
      PROVE  p.kind # "remove"
  BY <1>5 DEF StartsDetach, StartsEncrypt, StartsProvisioner, Provisioner
<1>6. Cleared(p, res, aclFile)
  BY <1>2, <1>3, <1>4, <1>5, OtherCleared
<1> QED
  BY <1>1, <1>2, <1>6, AloneMoves DEF Clearances

LEMMA ExecCleared ==
  ASSUME OneClient, Typed, Courses, Shapes, Clearances,
         NEW c \in Clients, ExecOk(c) \/ ExecFails(c)
  PROVE  Clearances'
<1> DEFINE o == op[c]
<1>1. AtCommand(c) /\ WellFormed(o) /\ o.pc = "exec" /\ Cleared(o, res, aclFile)
  BY AtWork DEF ExecOk, ExecFails, Clearances
<1>2. ASSUME NEW p \in AfterCommand(o, Resources(o)), Tore(o)
      PROVE  Cleared(p, res', aclFile')
  <2>1. p.kind = o.kind /\ (p.ok => o.ok) /\ (p.quiet => o.quiet)
    <3>1. Goes(o, p) /\ p.kind = o.kind
      BY <1>1, <1>2, AfterCommandMoves, GoesJob DEF Goes
    <3>2. CASE Advances(o, p)
      BY <3>1, <3>2 DEF Advances, SameTarget, SameJob
    <3>3. CASE p \in AfterService(Completed(o))
      <4> DEFINE q == Completed(o)
      <4>1. q \in Operation /\ AtTarget(q) /\ q.ok = o.ok /\ q.quiet = o.quiet
        BY <1>1, CompletedFields DEF SameJob
      <4>2. Serves(q, p) \/ Saves(q, p) \/ Onward(q, p)
        BY <3>3, <4>1, AfterServiceMoves
      <4> HIDE DEF q
      <4>3. p.ok = q.ok /\ p.quiet = q.quiet
        BY <4>2 DEF Serves, Saves, Onward, Ends, Enters, SameTarget, SameJob
      <4> QED
        BY <3>1, <4>1, <4>3
    <3> QED
      BY <1>1, <1>2, <3>2, <3>3, AfterCommandMoves
  <2>2. CASE o.kind = "remove" /\ o.ok /\ o.quiet
    BY <1>1, <1>2, <2>2, TeardownGoes
  <2>3. CASE ~(o.kind = "remove" /\ o.ok /\ o.quiet)
    BY <2>1, <2>3 DEF Cleared
  <2> QED
    BY <2>2, <2>3
<1>3. ASSUME NEW p \in AfterService(Failed(o)) PROVE Cleared(p, res', aclFile')
  <2>1. ~p.ok
    BY <1>1, <1>3, FailedNotOk
  <2> QED
    BY <2>1 DEF Cleared
<1>4. CASE ExecOk(c)
  <2>1. PICK p \in AfterCommand(o, Resources(o)) : Become(c, p)
    BY <1>4 DEF ExecOk
  <2>2. Cleared(p, res', aclFile')
    BY <1>2, <1>4, <2>1 DEF ExecOk, Tore
  <2> QED
    BY <2>1, <2>2, AloneMoves DEF Clearances
<1>5. CASE ExecFails(c)
  <2>1. PICK p \in AfterFailure(o) : Become(c, p)
    BY <1>5 DEF ExecFails
  <2>2. CASE Discards(o)
    <3>1. p \in AfterCommand(o, Resources(o))
      BY <2>1, <2>2, AfterFailureMoves
    <3>2. Tore(o)
      BY <1>1, <1>5, <2>2, HeededFails
    <3> QED
      BY <1>2, <2>1, <3>1, <3>2, AloneMoves DEF Clearances
  <2>3. CASE ~Discards(o)
    BY <1>3, <2>1, <2>3, AfterFailureMoves, AloneMoves DEF Clearances
  <2> QED
    BY <2>2, <2>3
<1> QED
  BY <1>4, <1>5

LEMMA RestCleared ==
  ASSUME OneClient, Typed, Courses, Clearances, NEW c \in Clients,
         CheckContainers(c) \/ Save(c) \/ SaveFails(c) \/ Return(c) \/ Crash(c)
  PROVE  Clearances'
<1> DEFINE o == op[c]
           q == [o EXCEPT !.ok = FALSE]
           Other(p) == p.kind # "remove" \/ ~p.ok
<1>1. /\ o \in Operation /\ WellFormed(o) /\ Course(o, registry)
      /\ Cleared(o, res, aclFile)
  BY DEF Typed, WellFormed, Courses, Clearances
<1>2. Other(Finish(q)) /\ \A R, F : Cleared(Idle, R, F)
  <2>1. q \in Operation /\ ~q.ok
    BY <1>1 DEF Operation
  <2>2. ~Finish(q).ok
    BY <2>1, FinishFields DEF SameJob
  <2> QED
    BY <2>2 DEF Idle, Cleared
<1>3. CASE CheckContainers(c)
  <2>1. ASSUME NEW p \in NextTarget(o) PROVE Other(p)
    <3>1. Onward(o, p) /\ Provisioner(o)
      BY <1>1, <1>3, <2>1, NextTargetOnward DEF CheckContainers, WellFormed, Course
    <3> QED
      BY <3>1 DEF Onward, Ends, Enters, SameJob, Provisioner
  <2> QED
    BY <1>2, <1>3, <2>1, AloneMoves DEF CheckContainers, Clearances, Cleared
<1>4. CASE Save(c)
  <2>1. PICK p : /\ Become(c, p)
                 /\ \/ SavesEntry(o, p) \/ SavesRemoval(o, p)
                    \/ SavesDetach(o, p) \/ SavesSame(o, p)
    BY <1>4, SaveMoves
  <2>2. res' = res /\ aclFile' = aclFile
    BY <1>4, SaveMoves
  <2>3. Cleared(p, res, aclFile)
    <3>1. CASE SavesEntry(o, p)
      <4>1. p.kind # "remove"
        BY <3>1 DEF SavesEntry, Onward, Ends, Enters, SameJob, Provisioner
      <4> QED
        BY <4>1 DEF Cleared
    <3>2. CASE p = Finish(o) /\ o.kind # "remove"
      BY <1>1, <3>2, FinishFields DEF SameJob, Cleared
    <3>3. CASE SavesRemoval(o, p)
      <4>1. SameJob(o, p) /\ p.pc = "done" /\ p.targets = {}
        BY <1>1, <3>3, FinishFields DEF SavesRemoval
      <4>2. o.pc = "save" /\ o.todo = {}
        BY <1>4, <3>3 DEF Save, SavesRemoval
      <4> QED
        BY <1>1, <4>1, <4>2 DEF SameJob, Cleared, Left
    <3> QED
      BY <2>1, <3>1, <3>2, <3>3 DEF SavesDetach, SavesSame
  <2> QED
    BY <2>1, <2>2, <2>3, AloneMoves DEF Clearances
<1>5. CASE SaveFails(c)
  BY <1>2, <1>5, AloneMoves DEF SaveFails, Clearances, Cleared
<1>6. CASE Return(c) \/ Crash(c)
  BY <1>2, <1>6, AloneMoves DEF Return, Crash, Clearances
<1> QED
  BY <1>3, <1>4, <1>5, <1>6

LEMMA LossCleared ==
  ASSUME OneClient, Typed, Clearances, Losses
  PROVE  Clearances'
<1>1. \A c \in Clients : op[c] \in Operation /\ op'[c] = Upset(op[c])
  BY LossMoves DEF Typed, WellFormed
<1>2. ASSUME NEW c \in Clients PROVE Cleared(op'[c], res', aclFile')
  <2>1. op[c].pc = "idle" => op'[c] = op[c]
    BY <1>1 DEF Upset
  <2>2. op[c].pc # "idle" => ~op'[c].quiet
    BY <1>1, UpsetFields DEF Upset
  <2> QED
    BY <1>1, <2>1, <2>2, UpsetFields DEF Clearances, Cleared
<1> QED
  BY <1>2 DEF Clearances

LEMMA ClearancesAlways ==
  ASSUME OneClient
  PROVE  Spec => [](Typed /\ Courses /\ Shapes /\ Clearances)
<1>1. Init => Shapes /\ Clearances
  BY DEF Init, Shapes, Shaped, Blank, Clearances, Cleared, Idle
<1>2. ASSUME Typed, Courses, Shapes, Clearances, [Next]_vars PROVE Shapes' /\ Clearances'
  <2>1. Shapes'
    BY <1>2, ShapesNext
  <2>2. CASE UNCHANGED vars
    <3>1. op' = op /\ res' = res /\ aclFile' = aclFile
      BY <2>2 DEF vars
    <3> QED
      BY <1>2, <2>1, <3>1 DEF Clearances
  <2>3. ASSUME NEW c \in Clients, Proceed(c) \/ Crash(c) PROVE Clearances'
    BY <1>2, <2>3, ExecCleared, RestCleared DEF Proceed
  <2>4. CASE Losses
    BY <1>2, <2>1, <2>4, LossCleared
  <2> QED
    BY <1>2, <2>1, <2>2, <2>3, <2>4, BeginCleared DEF Next, Losses
<1> QED
  BY <1>1, <1>2, CourseAlways, PTL DEF Spec

(***************************************************************************)
(* A removal of whoever runs one command at a time, which reports no error *)
(* and during which nothing was lost, leaves nothing behind in any service *)
(* its entry listed, nor in users.acl: of all six services when no command *)
(* fails, of those whose Teardown discards no error when any may.          *)
(***************************************************************************)
THEOREM SerialRemoveCleans ==
  ASSUME OneClient
  PROVE  Spec => []RemoveCleans
<1>1. Clearances => RemoveCleans
  BY DEF Clearances, Cleared, RemoveCleans, Left, Gone
<1> QED
  BY <1>1, ClearancesAlways, PTL

-----------------------------------------------------------------------------
(* A Provision that finds nothing of its own is never refused.             *)
LEMMA FreshAccepts ==
  ASSUME NEW s \in Services, NEW k \in 1 .. Len(Provision(s)), NEW r \in Resource,
         NEW secret \in Nat, NEW seen,
         HalfProvisioned(s, k, secret, r), Fresh(s, k, r), k = 1 => r = Blank
  PROVE  Accepts(Provision(s)[k], r, seen)
<1> DEFINE cmd == Provision(s)[k]
<1>0. ~Blank.store /\ Blank.secrets = {}
  BY DEF Blank
<1>1. CASE s \in {"redis", "mongodb", "signoz"}
  <2>1. cmd \in {"ACL SETUSER", "ACL SAVE", "none"} \/ (cmd = "createUser" /\ k = 1)
    <3>1. CASE s = "redis"
      <4>1. Len(Provision(s)) = 2
        BY <3>1, OtherProvisionLists
      <4>2. k = 1 \/ k = 2
        BY <4>1
      <4>3. CASE k = 1
        <5>1. cmd = "ACL SETUSER"
          BY <3>1, <4>3, OtherProvisionLists
        <5> QED
          BY <5>1
      <4>4. CASE k = 2
        <5>1. cmd = "ACL SAVE"
          BY <3>1, <4>4, OtherProvisionLists
        <5> QED
          BY <5>1
      <4> QED
        BY <4>2, <4>3, <4>4
    <3>2. CASE s \in {"mongodb", "signoz"}
      <4>1. Len(Provision(s)) = 1
        BY <3>2, OtherProvisionLists
      <4>2. k = 1
        BY <4>1
      <4> QED
        BY <3>2, <4>2, OtherProvisionLists
    <3> QED
      BY <1>1, <3>1, <3>2
  <2> HIDE DEF cmd
  <2>2. Accepts(cmd, r, seen)
    BY <1>0, <2>1 DEF Accepts
  <2> QED
    BY <2>2 DEF cmd
<1>2. CASE s \in HasStore
  <2>1. Len(Provision(s)) = 4
    BY <1>2, ProvisionLists DEF HasStore
  <2>2. k = 1 \/ k = 2 \/ k = 3 \/ k = 4
    BY <2>1
  <2>3. /\ k = 1 => ~r.store
        /\ k = 2 => r.secrets = {}
        /\ k > 2 => r.store /\ r.secrets # {}
    BY <1>0, <1>2 DEF HalfProvisioned, Fresh
  <2>4. CASE s = "postgres"
    <3>1. CASE k = 1
      <4>1. cmd = "CREATE DATABASE"
        BY <2>4, <3>1, ProvisionLists
      <4> QED
        BY <2>3, <3>1, <4>1 DEF Accepts
    <3>2. CASE k = 2
      <4>1. cmd = "CREATE USER"
        BY <2>4, <3>2, ProvisionLists
      <4> QED
        BY <2>3, <3>2, <4>1 DEF Accepts
    <3>3. CASE k = 3
      <4>1. cmd = "GRANT"
        BY <2>4, <3>3, ProvisionLists
      <4> QED
        BY <2>3, <3>3, <4>1 DEF Accepts
    <3>4. CASE k = 4
      <4>1. cmd = "grantPermissions"
        BY <2>4, <3>4, ProvisionLists
      <4> QED
        BY <2>3, <3>4, <4>1 DEF Accepts
    <3> QED
      BY <2>2, <3>1, <3>2, <3>3, <3>4
  <2>5. CASE s = "rabbitmq"
    <3>1. CASE k = 1
      <4>1. cmd = "add_vhost"
        BY <2>5, <3>1, ProvisionLists
      <4> QED
        BY <2>3, <3>1, <4>1 DEF Accepts
    <3>2. CASE k = 2
      <4>1. cmd = "add_user"
        BY <2>5, <3>2, ProvisionLists
      <4> QED
        BY <2>3, <3>2, <4>1 DEF Accepts
    <3>3. CASE k = 3
      <4>1. cmd = "set_permissions"
        BY <2>5, <3>3, ProvisionLists
      <4> QED
        BY <2>3, <3>3, <4>1 DEF Accepts
    <3>4. CASE k = 4
      <4>1. cmd = "set_user_tags"
        BY <2>5, <3>4, ProvisionLists
      <4> QED
        BY <2>3, <3>4, <4>1 DEF Accepts
    <3> QED
      BY <2>2, <3>1, <3>2, <3>3, <3>4
  <2>6. CASE s = "aistor"
    <3>1. CASE k = 1
      <4>1. cmd = "mb"
        BY <2>6, <3>1, ProvisionLists
      <4> QED
        BY <2>3, <3>1, <4>1 DEF Accepts
    <3>2. CASE k = 2
      <4>1. cmd = "user add"
        BY <2>6, <3>2, ProvisionLists
      <4> QED
        BY <2>3, <3>2, <4>1 DEF Accepts
    <3>3. CASE k = 3
      <4>1. cmd = "policy create"
        BY <2>6, <3>3, ProvisionLists
      <4> QED
        BY <2>3, <3>3, <4>1 DEF Accepts
    <3>4. CASE k = 4
      <4>1. cmd = "policy attach"
        BY <2>6, <3>4, ProvisionLists
      <4>3. r.secrets # {}
        BY <2>3, <3>4
      <4> HIDE DEF cmd
      <4>2. Accepts(cmd, r, seen)
        BY <4>1, <4>3 DEF Accepts
      <4> QED
        BY <4>2 DEF cmd
    <3> QED
      BY <2>2, <3>1, <3>2, <3>3, <3>4
  <2> QED
    BY <1>2, <2>4, <2>5, <2>6 DEF HasStore
<1> QED
  BY <1>1, <1>2, ServicesAssumption DEF AllServices, HasStore

LEMMA FreshStep ==
  ASSUME NEW s \in HasStore, NEW r \in Resource, r = Blank, NEW secret, NEW seen
  PROVE  Fresh(s, 2, Effect(Provision(s)[1], r, secret, seen))
<1>1. Provision(s)[1] \in {"CREATE DATABASE", "add_vhost", "mb"}
  BY ProvisionLists DEF HasStore
<1>2. Effect(Provision(s)[1], r, secret, seen) = [r EXCEPT !.store = TRUE]
  BY <1>1 DEF Effect
<1>3. [r EXCEPT !.store = TRUE].secrets = {}
  BY DEF Resource, Blank
<1> QED
  BY <1>2, <1>3 DEF Fresh

(* Nothing exists yet of a service that is about to be provisioned.        *)
LEMMA AboutToProvision ==
  ASSUME NEW G, NEW R, NEW o, Course(o, G), Accounted(o, G, R), o.pc = "exec",
         Provisioner(o), o.step = 1, o.target \in Apps, o.service \in Services
  PROVE  R[o.target][o.service] = Blank
  BY DEF Course, AtHand, Accounted, Building, Lists, NoConfig

LEMMA ProvisionRuns ==
  ASSUME Typed, Courses, Steadies, Tidies, NEW c \in Clients, AtCommand(c), Provisioner(op[c])
  PROVE  LET o == op[c] IN
         /\ Accepts(Command(o), Resources(o), o.seen)
         /\ o.step = 1 => Resources(o) = Blank
<1> DEFINE o == op[c]
           r == Resources(o)
<1>1. /\ o.pc = "exec" /\ o.target \in Apps /\ o.service \in Services /\ r \in Resource
      /\ o.step \in 1 .. Len(Commands(o)) /\ Secret(o) \in Nat
  BY AtWork
<1>2. Commands(o) = Provision(o.service) /\ Secret(o) = o.id
  BY ServiceOf
<1>3. o.step = 1 => r = Blank
  <2>1. Course(o, registry) /\ Accounted(o, registry, res)
    BY DEF Courses, Tidies, Tidy
  <2> QED
    BY <1>1, <2>1, AboutToProvision DEF Resources
<1>4. HalfProvisioned(o.service, o.step, o.id, r)
  <2>1. OnTrack(o, res, aclFile, damaged) /\ damaged = {}
    BY DEF Steadies, Steady, Tidies
  <2> QED
    BY <1>1, <2>1 DEF OnTrack, Stage, Resources
<1>5. Fresh(o.service, o.step, r)
  BY <1>1 DEF Tidies, Tidy, Resources
<1>6. Accepts(Provision(o.service)[o.step], r, o.seen)
  <2> HIDE DEF r
  <2> QED
    BY <1>1, <1>2, <1>3, <1>4, <1>5, FreshAccepts
<1> QED
  BY <1>2, <1>3, <1>6 DEF Command

(* What is ensured or torn down is listed.                                 *)
LEMMA ListedAccounted ==
  ASSUME Typed, Courses, Tidies, NEW c \in Clients, AtCommand(c), ~Provisioner(op[c]),
         Apply(op[c]) \/ UNCHANGED res, NEW p
  PROVE  Accounted(p, registry, res')
<1> DEFINE o == op[c]
<1>1. o.pc = "exec" /\ AtTarget(o) /\ o.target \in Apps /\ o.service \in Services
  BY AtWork
<1>2. /\ o.service \in Pending(o, o.target) /\ o.loaded = registry
      /\ o.kind \in {"remove", "reconcile"}
  BY ServiceOf DEF AtHand, Ahead, Provisioner
<1>3. Lists(registry, o.target, o.service)
  BY <1>1, <1>2 DEF Pending, AtTarget, Lists
<1>4. \A a \in Apps, s \in Services :
        a # o.target \/ s # o.service => res'[a][s] = res[a][s]
  BY ApplyEffect
<1>5. \A a \in Apps, s \in Services : res[a][s] # Blank => Lists(registry, a, s)
  BY DEF Tidies, Tidy, Accounted, Building
<1> QED
  BY <1>3, <1>4, <1>5 DEF Accounted

LEMMA ListedStore ==
  ASSUME Steadies, Tidies, NEW c \in Clients, NEW a \in Apps,
         "rabbitmq" \in Services, Lists(registry, a, "rabbitmq"),
         <<a, "rabbitmq">> \notin Torn(op[c])
  PROVE  res[a]["rabbitmq"].store
<1>1. damaged = {} /\ Kept(op[c], registry, res, aclFile, damaged)
  BY DEF Steadies, Steady, Tidies
<1>2. Fine(a, "rabbitmq", registry[a]["rabbitmq"], res, aclFile, damaged)
  BY <1>1 DEF Kept
<1> QED
  BY <1>1, <1>2 DEF Fine, Sound, Usable, HasStore

LEMMA ProvisionTidy ==
  ASSUME Typed, Courses, Steadies, Tidies, NEW c \in Clients, AtCommand(c),
         Provisioner(op[c]), Apply(op[c]), NEW p \in AfterCommand(op[c], Resources(op[c]))
  PROVE  Tidy(p, registry, res')
<1> DEFINE o == op[c]
           q == Completed(o)
           R == res'
<1>1. /\ o \in Operation /\ WellFormed(o) /\ o.pc = "exec" /\ AtTarget(o)
      /\ o.target \in Apps /\ o.service \in Services
      /\ o.step \in 1 .. Len(Commands(o)) /\ Resources(o) \in Resource
  BY AtWork
<1>2. /\ AtHand(o, registry) /\ Commands(o) = Provision(o.service)
      /\ o.kind \in {"setup", "add"}
  BY ServiceOf DEF Provisioner
<1>3. /\ R[o.target][o.service] = Effect(Command(o), Resources(o), Secret(o), o.seen)
      /\ \A a \in Apps, s \in Services :
           a # o.target \/ s # o.service => R[a][s] = res[a][s]
  BY ApplyEffect
<1>4. Accounted(o, registry, res) /\ o.id # NoConfig
  BY <1>2 DEF Tidies, Tidy, AtHand, Ahead
<1> HIDE DEF R
<1>5. ASSUME NEW a \in Apps, NEW s \in Services, R[a][s] # Blank
      PROVE  \/ Lists(registry, a, s)
             \/ a = o.target /\ (s = o.service \/ o.entry[s] # NoConfig)
  BY <1>3, <1>4, <1>5 DEF Accounted, Building
<1>6. CASE Advances(o, p)
  <2>1. /\ Provisioner(p) /\ p.pc = "exec" /\ p.target = o.target /\ p.entry = o.entry
        /\ p.service = o.service /\ p.step = o.step + 1 /\ p.kind # "remove" /\ p.step > 1
    BY <1>1, <1>2, <1>6 DEF Advances, SameTarget, SameJob, Provisioner
  <2>2. Accounted(p, registry, R)
    BY <1>5, <2>1 DEF Accounted, Building
  <2>3. Fresh(p.service, p.step, R[p.target][p.service])
    <3>1. CASE o.step = 1 /\ o.service \in HasStore
      <4>1. Resources(o) = Blank /\ Command(o) = Provision(o.service)[1]
        BY <1>2, <3>1, ProvisionRuns DEF Command
      <4>2. Fresh(o.service, 2, R[o.target][o.service])
        <5> DEFINE x == Secret(o)
                   y == o.seen
                   r == Resources(o)
        <5>1. R[o.target][o.service] = Effect(Provision(o.service)[1], r, x, y)
          BY <1>3, <4>1
        <5>2. r = Blank /\ r \in Resource
          BY <1>1, <4>1
        <5> HIDE DEF r, x, y
        <5> QED
          BY <3>1, <5>1, <5>2, FreshStep
      <4> QED
        BY <2>1, <3>1, <4>2
    <3>2. CASE ~(o.step = 1 /\ o.service \in HasStore)
      BY <1>1, <2>1, <3>2 DEF Fresh
    <3> QED
      BY <3>1, <3>2
  <2> QED
    BY <2>1, <2>2, <2>3 DEF Tidy, R
<1>7. CASE LastCommand(o) /\ p \in AfterService(q)
  <2>1. /\ q \in Operation /\ AtTarget(q) /\ SameJob(o, q) /\ q.target = o.target
        /\ q.entry = [o.entry EXCEPT ![o.service] = o.id]
    BY <1>1, CompletedFields
  <2>2. Serves(q, p) \/ Saves(q, p)
    BY <1>2, <1>7, <2>1, AfterServiceMoves DEF SameJob
  <2>3. \A s \in Services : s = o.service \/ o.entry[s] # NoConfig => q.entry[s] # NoConfig
    BY <1>1, <1>4, <2>1 DEF Operation, Entry
  <2> HIDE DEF q
  <2>4. /\ Provisioner(p) /\ p.pc \in {"exec", "save"} /\ p.target = o.target
        /\ p.entry = q.entry /\ (p.pc = "exec" => p.step = 1) /\ p.kind # "remove"
    BY <1>2, <2>1, <2>2 DEF Serves, Saves, SameTarget, SameJob, Provisioner
  <2>5. Accounted(p, registry, R)
    BY <1>5, <2>3, <2>4 DEF Accounted, Building
  <2> QED
    BY <2>4, <2>5 DEF Tidy, Fresh, R
<1> QED
  BY <1>1, <1>6, <1>7, AfterCommandMoves

(* A command of a Teardown is refused only if its refusal is discarded.    *)
LEMMA RefusalDiscarded ==
  ASSUME Typed, Courses, Tidies, NEW c \in Clients, AtCommand(c), op[c].kind = "remove",
         ~Accepts(Command(op[c]), Resources(op[c]), op[c].seen)
  PROVE  Command(op[c]) \in BestEffort
<1> DEFINE o == op[c]
           cmd == Command(o)
           r == Resources(o)
           s == o.service
           k == o.step
<1>1. s \in Services /\ k \in 1 .. Len(Commands(o)) /\ Commands(o) = Teardown(s)
  BY AtWork, ServiceOf
<1>2. cmd = Teardown(s)[k] /\ ~Accepts(cmd, r, o.seen)
  BY <1>1 DEF Command
<1>3. s = "rabbitmq" => r.store
  BY DEF Tidies, Tidy, AtCommand, Resources
<1> HIDE DEF cmd, r, s, k
<1>4. ASSUME cmd \in {"pg_terminate_backend", "DROP DATABASE", "DROP USER", "EVAL del",
                      "ACL DELUSER", "ACL SAVE", "none"}
      PROVE  FALSE
  BY <1>2, <1>4 DEF Accepts
<1>5. CASE s \in {"postgres", "redis"}
  <2>1. Len(Teardown(s)) = 3
    BY <1>5, TeardownLists
  <2>2. k = 1 \/ k = 2 \/ k = 3
    BY <1>1, <2>1
  <2>3. cmd \in {"pg_terminate_backend", "DROP DATABASE", "DROP USER", "EVAL del",
                 "ACL DELUSER", "ACL SAVE"}
    BY <1>2, <1>5, <2>2, TeardownLists
  <2> QED
    BY <1>4, <2>3
<1>6. CASE s = "rabbitmq"
  <2>1. Len(Teardown(s)) = 2
    BY <1>6, TeardownLists
  <2>2. k = 1 \/ k = 2
    BY <1>1, <2>1
  <2>3. CASE k = 1
    <3>1. cmd = "delete_user"
      BY <1>2, <1>6, <2>3, TeardownLists
    <3> QED
      BY <3>1 DEF BestEffort, cmd
  <2>4. CASE k = 2
    <3>1. cmd = "delete_vhost"
      BY <1>2, <1>6, <2>4, TeardownLists
    <3>2. Accepts(cmd, r, o.seen)
      BY <1>3, <1>6, <3>1 DEF Accepts
    <3> QED
      BY <1>2, <3>2
  <2> QED
    BY <2>2, <2>3, <2>4
<1>7. CASE s = "aistor"
  <2>1. Len(Teardown(s)) = 4
    BY <1>7, OtherTeardownLists
  <2>2. k = 1 \/ k = 2 \/ k = 3 \/ k = 4
    BY <1>1, <2>1
  <2>3. cmd \in {"rb", "policy detach", "policy rm", "user remove"}
    BY <1>2, <1>7, <2>2, OtherTeardownLists
  <2> QED
    BY <2>3 DEF BestEffort, cmd
<1>8. CASE s = "mongodb"
  <2>1. Len(Teardown(s)) = 2
    BY <1>8, OtherTeardownLists
  <2>2. k = 1 \/ k = 2
    BY <1>1, <2>1
  <2>3. cmd = "dropUser" \/ cmd = "dropDatabase"
    BY <1>2, <1>8, <2>2, OtherTeardownLists
  <2>4. cmd = "dropUser"
    BY <1>2, <2>3 DEF Accepts
  <2> QED
    BY <2>4 DEF BestEffort, cmd
<1>9. CASE s = "signoz"
  <2>1. Len(Teardown(s)) = 1
    BY <1>9, OtherTeardownLists
  <2>2. k = 1
    BY <1>1, <2>1
  <2>3. cmd = "none"
    BY <1>2, <1>9, <2>2, OtherTeardownLists
  <2> QED
    BY <1>4, <2>3
<1> QED
  BY <1>1, <1>5, <1>6, <1>7, <1>8, <1>9, ServicesAssumption DEF AllServices

LEMMA RemovalTidy ==
  ASSUME Typed, Courses, Steadies, Tidies, NEW c \in Clients, AtCommand(c),
         op[c].kind = "remove", NEW p \in AfterCommand(op[c], Resources(op[c])),
         Apply(op[c]) \/ UNCHANGED res
  PROVE  Tidy(p, registry, res')
<1> DEFINE o == op[c]
           R == res'
<1>1. /\ o \in Operation /\ WellFormed(o) /\ o.pc = "exec" /\ AtTarget(o)
      /\ o.target \in Apps /\ o.service \in Services
      /\ o.step \in 1 .. Len(Commands(o)) /\ Resources(o) \in Resource
  BY AtWork
<1>2. /\ AtHand(o, registry) /\ o.service \in Pending(o, o.target) \ o.todo
      /\ Commands(o) = Teardown(o.service)
  BY ServiceOf
<1>3. /\ \/ R[o.target][o.service] = Effect(Command(o), Resources(o), Secret(o), o.seen)
         \/ R[o.target][o.service] = Resources(o)
      /\ \A a \in Apps, s \in Services :
           a # o.target \/ s # o.service => R[a][s] = res[a][s]
  BY <1>1, ApplyEffect DEF Resources
<1>4. /\ o.ok /\ o.quiet /\ o.target \in o.request
      /\ o.service = "rabbitmq" => Resources(o).store
  BY <1>1 DEF Tidies, Tidy, Resources
<1>5. Accounted(p, registry, R)
  BY ListedAccounted DEF Provisioner
<1> HIDE DEF R
<1>6. CASE Advances(o, p)
  <2>1. /\ p.kind = "remove" /\ p.ok /\ p.quiet /\ p.target = o.target
        /\ p.request = o.request /\ p.service = o.service
    BY <1>4, <1>6 DEF Advances, SameTarget, SameJob
  <2>2. ASSUME o.service = "rabbitmq" PROVE R[o.target][o.service].store
    <3>1. o.step \in 1 .. 2 /\ o.step # 2
      BY <1>1, <1>2, <1>6, <2>2, TeardownLists DEF Advances, LastCommand
    <3>2. Command(o) = "delete_user"
      <4>1. o.step = 1
        BY <3>1
      <4> QED
        BY <1>2, <2>2, <4>1, TeardownLists DEF Command
    <3>3. \/ R[o.target][o.service] = [Resources(o) EXCEPT !.secrets = {}, !.granted = FALSE]
          \/ R[o.target][o.service] = Resources(o)
      BY <1>3, <3>2 DEF Effect
    <3>4. Resources(o).store
      BY <1>4, <2>2
    <3> DEFINE r == Resources(o)
    <3>5. r \in Resource
      BY <1>1
    <3>6. [r EXCEPT !.secrets = {}, !.granted = FALSE].store = r.store
      BY <3>5 DEF Resource
    <3> QED
      BY <3>3, <3>4, <3>6
  <2>5. Tidy(p, registry, R)
    BY <1>4, <1>5, <2>1, <2>2 DEF Tidy, Provisioner
  <2> QED
    BY <2>5 DEF R
<1>7. CASE LastCommand(o) /\ p \in AfterService(Completed(o))
  <2>1. Completed(o) = o
    BY DEF Completed, Provisioner
  <2>2. Serves(o, p) \/ Saves(o, p)
    BY <1>1, <1>7, <2>1, AfterServiceMoves
  <2>3. /\ p.kind = "remove" /\ p.ok /\ p.quiet /\ p.target = o.target
        /\ p.request = o.request
    BY <1>4, <2>2 DEF Serves, Saves, SameTarget, SameJob
  <2>4. ASSUME p.pc = "exec", p.service = "rabbitmq"
        PROVE  R[p.target][p.service].store
    <3>1. "rabbitmq" \in o.todo /\ o.todo \subseteq Pending(o, o.target)
      BY <1>2, <2>2, <2>4 DEF Serves, Saves, AtHand
    <3>2. /\ "rabbitmq" \in Services /\ Lists(registry, o.target, "rabbitmq")
          /\ o.service # "rabbitmq"
      BY <1>1, <1>2, <3>1 DEF Pending, AtHand, Ahead, AtTarget, Lists
    <3>3. <<o.target, "rabbitmq">> \notin Torn(o)
      BY <3>1 DEF Torn
    <3>4. res[o.target]["rabbitmq"].store
      BY <1>1, <3>2, <3>3, ListedStore
    <3> QED
      BY <1>1, <1>3, <2>3, <2>4, <3>2, <3>4
  <2>5. Tidy(p, registry, R)
    BY <1>4, <1>5, <2>3, <2>4 DEF Tidy, Provisioner
  <2> QED
    BY <2>5 DEF R
<1> QED
  BY <1>1, <1>6, <1>7, AfterCommandMoves

LEMMA EnsureTidy ==
  ASSUME Typed, Courses, Tidies, NEW c \in Clients, AtCommand(c),
         op[c].kind = "reconcile", NEW p, Goes(op[c], p), Apply(op[c]) \/ UNCHANGED res
  PROVE  Tidy(p, registry, res')
<1>1. p.kind = "reconcile"
  BY AtWork, GoesJob
<1>2. Accounted(p, registry, res')
  BY ListedAccounted DEF Provisioner
<1> QED
  BY <1>1, <1>2 DEF Tidy, Provisioner

LEMMA ExecTidy ==
  ASSUME OneClient, Faultless, Typed, Courses, Steadies, Tidies,
         NEW c \in Clients, ExecOk(c) \/ ExecFails(c)
  PROVE  Tidies'
<1> DEFINE o == op[c]
<1>1. /\ AtCommand(c) /\ WellFormed(o) /\ o.pc = "exec" /\ registry' = registry
      /\ damaged' = {}
  BY AtWork DEF ExecOk, ExecFails, Tidies
<1>2. Provisioner(o) \/ o.kind = "remove" \/ o.kind = "reconcile"
  BY <1>1, ServiceOf DEF Provisioner
<1>3. CASE ExecOk(c)
  <2>1. PICK p \in AfterCommand(o, Resources(o)) : Become(c, p)
    BY <1>3 DEF ExecOk
  <2>2. Apply(o)
    BY <1>3 DEF ExecOk
  <2>3. Goes(o, p)
    BY <1>1, AfterCommandMoves DEF Goes
  <2>4. Tidy(p, registry, res')
    BY <1>1, <1>2, <2>2, <2>3, ProvisionTidy, RemovalTidy, EnsureTidy
  <2> QED
    BY <1>1, <2>1, <2>4, AloneMoves DEF Tidies
<1>4. CASE ExecFails(c)
  <2>1. PICK p \in AfterFailure(o) : Become(c, p)
    BY <1>4 DEF ExecFails
  <2>2. ~Accepts(Command(o), Resources(o), o.seen) /\ UNCHANGED res
    BY <1>4 DEF ExecFails, Faultless
  <2>3. ~Provisioner(o)
    BY <1>1, <2>2, ProvisionRuns
  <2>4. CASE o.kind = "remove"
    <3>1. p \in AfterCommand(o, Resources(o))
      BY <1>1, <2>1, <2>2, <2>4, RefusalDiscarded DEF AfterFailure, Discards
    <3>2. Tidy(p, registry, res')
      BY <1>1, <2>2, <2>4, <3>1, RemovalTidy
    <3> QED
      BY <1>1, <2>1, <3>2, AloneMoves DEF Tidies
  <2>5. CASE o.kind = "reconcile"
    <3>1. p \in AfterService(Failed(o))
      BY <2>1, <2>5 DEF AfterFailure, Discards
    <3>2. Goes(o, p)
      BY <3>1 DEF Goes
    <3>3. Tidy(p, registry, res')
      BY <1>1, <2>2, <2>5, <3>2, EnsureTidy
    <3> QED
      BY <1>1, <2>1, <3>3, AloneMoves DEF Tidies
  <2> QED
    BY <1>2, <2>3, <2>4, <2>5
<1> QED
  BY <1>3, <1>4

LEMMA BeginTidy ==
  ASSUME OneClient, Typed, Steadies, Tidies, NEW c \in Clients, Begin(c)
  PROVE  Tidies'
<1>1. registry' = registry /\ res' = res /\ damaged' = {} /\ op[c].pc = "idle"
  BY BeginMoves DEF Tidies
<1>2. PICK p : /\ Become(c, p)
               /\ \/ StartsProvisioner(p) \/ StartsRemove(p) \/ StartsDetach(p)
                  \/ StartsReconcile(p) \/ StartsEncrypt(p)
  BY BeginMoves
<1>3. Accounted(p, registry, res)
  BY <1>1 DEF Tidies, Tidy, Accounted, Building
<1>4. ASSUME StartsRemove(p) PROVE Tidy(p, registry, res)
  <2>1. PICK q \in Operation :
          /\ AtTarget(q) /\ q.kind = "remove" /\ q.loaded = registry /\ q.targets = {}
          /\ q.request = {q.target} /\ q.todo = Pending(q, q.target) /\ q.ok
          /\ q.quiet /\ p \in AfterService(q)
    BY <1>4 DEF StartsRemove
  <2>2. Serves(q, p) \/ Saves(q, p)
    BY <2>1, AfterServiceMoves
  <2>3. /\ p.kind = "remove" /\ p.ok /\ p.quiet /\ p.target = q.target
        /\ p.request = q.request
    BY <2>1, <2>2 DEF Serves, Saves, SameTarget, SameJob
  <2>4. ASSUME p.pc = "exec", p.service = "rabbitmq"
        PROVE  res[p.target][p.service].store
    <3>1. "rabbitmq" \in Services /\ Lists(registry, q.target, "rabbitmq") /\ q.target \in Apps
      BY <2>1, <2>2, <2>4 DEF Serves, Saves, Pending, AtTarget, Lists
    <3>2. <<q.target, "rabbitmq">> \notin Torn(op[c])
      BY <1>1 DEF Torn
    <3> QED
      BY <2>3, <2>4, <3>1, <3>2, ListedStore
  <2> QED
    BY <1>3, <2>1, <2>3, <2>4 DEF Tidy, Provisioner
<1>5. ASSUME StartsReconcile(p) PROVE p.kind = "reconcile"
  <2>1. PICK q \in Operation : Working(q) /\ q.kind = "reconcile" /\ p \in NextTarget(q)
    BY <1>5 DEF StartsReconcile
  <2> QED
    BY <2>1, NextTargetOnward DEF Onward, Ends, Enters, SameJob
<1>6. ASSUME p.kind # "remove", Provisioner(p) => p.pc = "check" PROVE Tidy(p, registry, res)
  BY <1>3, <1>6 DEF Tidy
<1>7. ASSUME StartsProvisioner(p) \/ StartsReconcile(p) \/ StartsDetach(p) \/ StartsEncrypt(p)
      PROVE  p.kind # "remove" /\ (Provisioner(p) => p.pc = "check")
  BY <1>5, <1>7 DEF StartsProvisioner, StartsDetach, StartsEncrypt, Provisioner
<1>8. Tidy(p, registry, res)
  BY <1>2, <1>4, <1>6, <1>7
<1> QED
  BY <1>1, <1>2, <1>8, AloneMoves DEF Tidies

LEMMA OnwardTidy ==
  ASSUME NEW G, NEW R, NEW o, NEW p, Onward(o, p), Provisioner(o),
         \A a \in Apps, s \in Services : R[a][s] # Blank => Lists(G, a, s)
  PROVE  Tidy(p, G, R)
<1>1. /\ p.kind # "remove"
      /\ p.pc = "exec" => p.step = 1
  BY DEF Onward, Ends, Enters, SameJob, Provisioner
<1> QED
  BY <1>1 DEF Tidy, Accounted, Fresh

LEMMA SaveTidy ==
  ASSUME OneClient, Faultless, Typed, Courses, Shapes, Clearances, Tidies,
         NEW c \in Clients, Save(c)
  PROVE  Tidies'
<1> DEFINE o == op[c]
<1>1. PICK p : /\ Become(c, p)
               /\ \/ SavesEntry(o, p) \/ SavesRemoval(o, p)
                  \/ SavesDetach(o, p) \/ SavesSame(o, p)
  BY SaveMoves
<1>2. /\ res' = res /\ damaged' = {} /\ o.pc = "save" /\ o \in Operation
      /\ registry \in Registry
  BY SaveMoves DEF Save, Tidies, Typed, TypeOK
<1>3. Tidy(o, registry, res) /\ Cleared(o, res, aclFile) /\ None \notin Entry
  BY NoneAssumption DEF Tidies, Clearances, Entry
<1>4. ASSUME NEW a \in Apps, NEW s \in Services, res[a][s] # Blank, ~Provisioner(o)
      PROVE  Lists(registry, a, s)
  BY <1>3, <1>4 DEF Tidy, Accounted, Building
<1>5. CASE SavesEntry(o, p)
  <2>1. /\ Provisioner(o) /\ AtHand(o, registry) /\ o.target \in Apps
        /\ registry' = [registry EXCEPT ![o.target] = o.entry]
    BY <1>5 DEF SavesEntry
  <2>2. PICK q : q.kind = o.kind /\ Onward(q, p)
    BY <1>5 DEF SavesEntry
  <2>3. /\ registry'[o.target] = o.entry /\ o.entry # None
        /\ \A a \in Apps : a # o.target => registry'[a] = registry[a]
    BY <1>2, <1>3, <2>1 DEF Registry, Operation
  <2> DEFINE G == registry'
  <2>4. ASSUME NEW a \in Apps, NEW s \in Services, res[a][s] # Blank
        PROVE  Lists(G, a, s)
    <3>1. Lists(registry, a, s) \/ Building(o, a, s)
      BY <1>3, <2>4 DEF Tidy, Accounted
    <3>2. CASE a = o.target
      <4>1. o.entry[s] # NoConfig
        BY <1>2, <2>1, <3>1, <3>2 DEF AtHand, Building, Lists
      <4> QED
        BY <2>3, <3>2, <4>1 DEF Lists
    <3>3. CASE a # o.target
      BY <2>3, <3>1, <3>3 DEF Lists, Building
    <3> QED
      BY <3>2, <3>3
  <2> HIDE DEF G
  <2>5. Provisioner(q)
    BY <2>1, <2>2 DEF Provisioner
  <2>6. Tidy(p, G, res)
    BY <2>2, <2>4, <2>5, OnwardTidy
  <2> QED
    BY <1>1, <1>2, <2>6, AloneMoves DEF Tidies, G
<1>6. CASE SavesRemoval(o, p)
  <2>1. /\ o.kind = "remove" /\ AtHand(o, registry) /\ o.todo = {} /\ o.target \in Apps
        /\ registry' = [registry EXCEPT ![o.target] = None]
        /\ p = Finish(o)
    BY <1>6 DEF SavesRemoval
  <2>2. o.ok /\ o.quiet /\ o.target \in o.request /\ o.targets = {} /\ o.loaded = registry
    BY <1>2, <1>3, <2>1 DEF Tidy, Cleared, AtHand, Ahead
  <2>3. ASSUME NEW s \in Services PROVE res[o.target][s] = Blank
    <3>1. CASE Lists(registry, o.target, s)
      <4>1. Left(o, o.target, s) \/ Gone(o.target, s, res, aclFile)
        BY <1>2, <1>3, <2>1, <2>2, <3>1 DEF Cleared, Lists, Faultless, Heeded
      <4>2. ~Left(o, o.target, s)
        BY <1>2, <2>1, <2>2 DEF Left
      <4> QED
        BY <4>1, <4>2 DEF Gone, Remains
    <3>2. CASE ~Lists(registry, o.target, s)
      BY <1>4, <2>1, <3>2 DEF Provisioner
    <3> QED
      BY <3>1, <3>2
  <2>4. \A a \in Apps : a # o.target => registry'[a] = registry[a]
    BY <1>2, <2>1 DEF Registry
  <2> DEFINE G == registry'
  <2>5. ASSUME NEW a \in Apps, NEW s \in Services, res[a][s] # Blank PROVE Lists(G, a, s)
    BY <1>4, <2>1, <2>3, <2>4, <2>5 DEF Lists, Provisioner
  <2> HIDE DEF G
  <2>6. p.kind = "remove" /\ p.pc = "done"
    BY <1>2, <2>1, FinishFields DEF SameJob
  <2>7. Tidy(p, G, res)
    BY <2>5, <2>6 DEF Tidy, Accounted
  <2> QED
    BY <1>1, <1>2, <2>7, AloneMoves DEF Tidies, G
<1>7. CASE SavesDetach(o, p)
  <2>1. /\ o.kind = "detach" /\ Detaching(o, registry)
        /\ registry' = [registry EXCEPT ![o.target] = o.entry]
        /\ p = Finish(o)
    BY <1>7 DEF SavesDetach
  <2>2. /\ registry'[o.target] = o.entry /\ o.entry # None
        /\ \A a \in Apps : a # o.target => registry'[a] = registry[a]
    BY <1>2, <1>3, <2>1 DEF Registry, Operation, Detaching
  <2> DEFINE G == registry'
  <2>3. ASSUME NEW a \in Apps, NEW s \in Services, res[a][s] # Blank PROVE Lists(G, a, s)
    <3>1. Lists(registry, a, s)
      BY <1>4, <2>1, <2>3 DEF Provisioner
    <3>2. s \notin detachable
      BY <2>3 DEF Shapes, Shaped, detachable
    <3> QED
      BY <2>1, <2>2, <3>1, <3>2 DEF Lists, Detaching
  <2> HIDE DEF G
  <2>4. p.kind = "detach" /\ p.pc = "done"
    BY <1>2, <2>1, FinishFields DEF SameJob
  <2>5. Tidy(p, G, res)
    BY <2>3, <2>4 DEF Tidy, Accounted
  <2> QED
    BY <1>1, <1>2, <2>5, AloneMoves DEF Tidies, G
<1>8. CASE SavesSame(o, p)
  <2>1. p.kind = "encrypt" /\ p.pc = "done" /\ registry' = registry
    BY <1>2, <1>8, FinishFields DEF SavesSame, SameJob
  <2>2. Accounted(p, registry, res)
    BY <1>4, <1>8 DEF SavesSame, Provisioner, Accounted
  <2>3. Tidy(p, registry, res)
    BY <2>1, <2>2 DEF Tidy
  <2> QED
    BY <1>1, <1>2, <2>1, <2>3, AloneMoves DEF Tidies
<1> QED
  BY <1>1, <1>5, <1>6, <1>7, <1>8

LEMMA RestTidy ==
  ASSUME OneClient, Faultless, Typed, Courses, Tidies, NEW c \in Clients,
         CheckContainers(c) \/ SaveFails(c) \/ Return(c) \/ Crash(c)
  PROVE  Tidies'
<1> DEFINE o == op[c]
<1>1. CheckContainers(c) \/ Return(c)
  BY DEF Faultless, SaveFails, Crash
<1>2. /\ registry' = registry /\ res' = res /\ damaged' = {} /\ o.pc \in {"check", "done"}
  BY <1>1 DEF CheckContainers, Return, Tidies
<1>3. \A a \in Apps, s \in Services : res[a][s] # Blank => Lists(registry, a, s)
  BY <1>2 DEF Tidies, Tidy, Accounted, Building
<1>4. CASE CheckContainers(c)
  <2>1. PICK p \in NextTarget(o) : Become(c, p)
    BY <1>4 DEF CheckContainers, Faultless
  <2>2. Onward(o, p) /\ Provisioner(o)
    BY <1>4, <2>1, NextTargetOnward DEF CheckContainers, Typed, WellFormed, Courses, Course
  <2>3. Tidy(p, registry, res)
    BY <1>3, <2>2, OnwardTidy
  <2> QED
    BY <1>2, <2>1, <2>3, AloneMoves DEF Tidies
<1>5. CASE Return(c)
  <2>1. Tidy(Idle, registry, res)
    BY <1>3 DEF Idle, Tidy, Accounted
  <2> QED
    BY <1>2, <1>5, <2>1, AloneMoves DEF Return, Tidies
<1> QED
  BY <1>1, <1>4, <1>5

LEMMA TidiesAlways ==
  ASSUME OneClient, Faultless
  PROVE  Spec => [](Typed /\ Courses /\ Steadies /\ Shapes /\ Clearances /\ Tidies)
<1>1. ~MayLose
  BY DEF Faultless
<1>2. Init => Tidies
  BY DEF Init, Tidies, Tidy, Accounted, Idle
<1>3. ASSUME Typed, Courses, Steadies, Shapes, Clearances, Tidies, [Next]_vars
      PROVE  Tidies'
  <2>1. CASE UNCHANGED vars
    <3>1. op' = op /\ res' = res /\ registry' = registry /\ damaged' = damaged
      BY <2>1 DEF vars
    <3> QED
      BY <1>3, <3>1 DEF Tidies
  <2>2. ASSUME NEW c \in Clients, Proceed(c) \/ Crash(c) PROVE Tidies'
    BY <1>3, <2>2, ExecTidy, SaveTidy, RestTidy DEF Proceed
  <2> QED
    BY <1>1, <1>3, <2>1, <2>2, BeginTidy DEF Next, Wipe, RestartRedis
<1> QED
  BY <1>1, <1>2, <1>3, SteadyAlways, ClearancesAlways, PTL DEF Spec

(***************************************************************************)
(* When nothing fails, whoever runs one command at a time leaks nothing:   *)
(* between two commands every account, database, vhost and bucket belongs  *)
(* to a registered service.                                                *)
(***************************************************************************)
THEOREM SerialNoOrphans ==
  ASSUME OneClient, Faultless
  PROVE  Spec => []NoOrphans
<1>1. Tidies => NoOrphans
  BY DEF OneClient, Tidies, Tidy, Accounted, Building, NoOrphans, Lists, Registered
<1> QED
  BY <1>1, TidiesAlways, PTL

-----------------------------------------------------------------------------
(***************************************************************************)
(* What the abstract shelf needs of the damaged ones too.  A redis account *)
(* that accepts a registered secret is in users.acl, so that no restart    *)
(* takes it away; and where nothing is lost, what a setup or add has just  *)
(* provisioned is not damaged.                                             *)
(***************************************************************************)
OnFile(a, s, secret, R, F) ==
  s = "redis" /\ secret \in R[a][s].secrets => secret \in F[a]

Filed(o, G, R, F) ==
  /\ \A a \in Apps, s \in Services : Lists(G, a, s) => OnFile(a, s, G[a][s], R, F)
  /\ Provisioner(o) /\ o.pc \in {"exec", "save"} =>
       \A s \in Services : o.entry[s] # NoConfig => OnFile(o.target, s, o.entry[s], R, F)

Intact(o, G, D) ==
  ~MayLose /\ Provisioner(o) =>
    /\ o.pc = "exec" /\ o.step # 1 => <<o.target, o.service>> \notin D
    /\ o.pc \in {"exec", "save"} =>
         \A s \in Services : o.entry[s] # NoConfig /\ ~Lists(G, o.target, s) =>
           <<o.target, s>> \notin D

Fit(o, G, R, F, D) == Filed(o, G, R, F) /\ Intact(o, G, D)
Fits == \A c \in Clients : Fit(op[c], registry, res, aclFile, damaged)

(* A command of a Teardown gives no account back.                          *)
Tearing ==
  {"pg_terminate_backend", "DROP DATABASE", "DROP USER", "EVAL del", "ACL DELUSER",
   "ACL SAVE", "delete_user", "delete_vhost", "rb", "policy detach", "policy rm",
   "user remove", "dropUser", "dropDatabase", "none"}

LEMMA TeardownCommand ==
  ASSUME NEW s \in Services, NEW k \in 1 .. Len(Teardown(s))
  PROVE  Teardown(s)[k] \in Tearing
<1>1. CASE s = "postgres"
  <2>1. k \in 1 .. 3
    BY <1>1, TeardownLists
  <2>2. k = 1 \/ k = 2 \/ k = 3
    BY <2>1
  <2> QED
    BY <1>1, <2>2, TeardownLists DEF Tearing
<1>2. CASE s = "redis"
  <2>1. k \in 1 .. 3
    BY <1>2, TeardownLists
  <2>2. k = 1 \/ k = 2 \/ k = 3
    BY <2>1
  <2> QED
    BY <1>2, <2>2, TeardownLists DEF Tearing
<1>3. CASE s = "rabbitmq"
  <2>1. k \in 1 .. 2
    BY <1>3, TeardownLists
  <2>2. k = 1 \/ k = 2
    BY <2>1
  <2> QED
    BY <1>3, <2>2, TeardownLists DEF Tearing
<1>4. CASE s = "aistor"
  <2>1. k \in 1 .. 4
    BY <1>4, OtherTeardownLists
  <2>2. k = 1 \/ k = 2 \/ k = 3 \/ k = 4
    BY <2>1
  <2> QED
    BY <1>4, <2>2, OtherTeardownLists DEF Tearing
<1>5. CASE s = "mongodb"
  <2>1. k \in 1 .. 2
    BY <1>5, OtherTeardownLists
  <2>2. k = 1 \/ k = 2
    BY <2>1
  <2> QED
    BY <1>5, <2>2, OtherTeardownLists DEF Tearing
<1>6. CASE s = "signoz"
  <2>1. k \in 1 .. 1
    BY <1>6, OtherTeardownLists
  <2>2. k = 1
    BY <2>1
  <2> QED
    BY <1>6, <2>2, OtherTeardownLists DEF Tearing
<1> QED
  BY <1>1, <1>2, <1>3, <1>4, <1>5, <1>6, ServicesAssumption DEF AllServices

LEMMA TearingWeakens ==
  ASSUME NEW cmd \in Tearing, NEW r \in Resource, NEW secret, NEW seen, NEW s, NEW x
  PROVE  LET q == Effect(cmd, r, secret, seen) IN
         /\ q.secrets \subseteq r.secrets
         /\ Usable(s, q, x) => Usable(s, r, x)
<1> DEFINE q == Effect(cmd, r, secret, seen)
<1>1. \/ q = r
      \/ q = [r EXCEPT !.store = FALSE, !.granted = FALSE]
      \/ q = [r EXCEPT !.store = FALSE]
      \/ q = [r EXCEPT !.secrets = {}, !.granted = FALSE]
      \/ q = [r EXCEPT !.granted = FALSE]
      \/ q = Blank
  <2>1. CASE cmd \in {"pg_terminate_backend", "EVAL del", "ACL SAVE", "policy rm",
                      "dropDatabase", "none"}
    BY <2>1 DEF Effect
  <2>2. CASE cmd \in {"DROP DATABASE", "delete_vhost"}
    BY <2>2 DEF Effect
  <2>3. CASE cmd = "rb"
    BY <2>3 DEF Effect
  <2>4. CASE cmd \in {"DROP USER", "delete_user", "ACL DELUSER", "user remove", "dropUser"}
    BY <2>4 DEF Effect
  <2>5. CASE cmd = "policy detach"
    BY <2>5 DEF Effect
  <2> QED
    BY <2>1, <2>2, <2>3, <2>4, <2>5 DEF Tearing
<1> HIDE DEF q
<1>2. q.secrets \subseteq r.secrets /\ (q.granted => r.granted) /\ (q.store => r.store)
  <2>1. Blank.secrets = {} /\ ~Blank.granted /\ ~Blank.store
    BY DEF Blank
  <2>2. CASE q = Blank
    BY <2>1, <2>2
  <2>3. CASE q = r
    BY <2>3
  <2>4. CASE q # Blank /\ q # r
    BY <1>1, <2>4 DEF Resource
  <2> QED
    BY <2>2, <2>3, <2>4
<1> QED
  BY <1>2 DEF Usable, q

(* A redis account accepts more only by ACL SETUSER, and what it accepts   *)
(* after an ACL SAVE has been saved.                                       *)
LEMMA RedisCommands ==
  ASSUME Typed, Courses, NEW c \in Clients, AtCommand(c), Apply(op[c]),
         NEW a \in Apps, "redis" \in Services
  PROVE  LET o == op[c] IN
         \/ res'[a]["redis"].secrets \subseteq aclFile'[a]
         \/ /\ aclFile'[a] = aclFile[a]
            /\ \/ /\ ~(Provisioner(o) /\ o.target = a /\ o.service = "redis")
                  /\ res'[a]["redis"].secrets \subseteq res[a]["redis"].secrets
               \/ /\ Provisioner(o) /\ ~LastCommand(o) /\ o.target = a /\ o.service = "redis"
                  /\ res'[a]["redis"].secrets = res[a]["redis"].secrets \cup {o.id}
<1> DEFINE o == op[c]
           r == res[a]["redis"]
           q == Effect(Command(o), Resources(o), Secret(o), o.seen)
<1>1. /\ o.step \in 1 .. Len(Commands(o)) /\ r \in Resource /\ Resources(o) \in Resource
  BY AtWork DEF Typed, TypeOK
<1>2. /\ res'[o.target][o.service] = q
      /\ a # o.target \/ "redis" # o.service => res'[a]["redis"] = r
      /\ aclFile'[a] = SavedBy(Command(o), r, aclFile[a])
      /\ Command(o) = "ACL SAVE" => o.service = "redis"
  BY ApplyEffect
<1>3. /\ Provisioner(o) => Commands(o) = Provision(o.service) /\ Secret(o) = o.id
      /\ o.kind = "reconcile" => o.service \in ensured
      /\ o.kind = "remove" => Commands(o) = Teardown(o.service)
      /\ Provisioner(o) \/ o.kind = "reconcile" \/ o.kind = "remove"
  BY ServiceOf DEF Provisioner
<1>4. CASE Command(o) = "ACL SAVE"
  <2>1. q = Resources(o)
    BY <1>4 DEF Effect
  <2>2. res'[a]["redis"] = r
    BY <1>2, <2>1 DEF Resources
  <2> QED
    BY <1>2, <1>4, <2>2 DEF SavedBy
<1>5. CASE Command(o) # "ACL SAVE" /\ (a # o.target \/ "redis" # o.service)
  BY <1>2, <1>5 DEF SavedBy
<1>6. CASE Command(o) # "ACL SAVE" /\ a = o.target /\ "redis" = o.service
  <2>1. res'[a]["redis"] = q /\ Resources(o) = r /\ aclFile'[a] = aclFile[a]
    BY <1>2, <1>6 DEF Resources, SavedBy
  <2>2. CASE Provisioner(o)
    <3>1. /\ Commands(o) = RedisProvision /\ Len(Commands(o)) = 2
          /\ RedisProvision[1] = "ACL SETUSER" /\ RedisProvision[2] = "ACL SAVE"
      BY <1>3, <1>6, <2>2, OtherProvisionLists
    <3>2. o.step \in 1 .. 2 /\ o.step # 2
      BY <1>1, <1>6, <3>1 DEF Command
    <3>3. o.step = 1
      BY <3>2
    <3>6. Command(o) = "ACL SETUSER" /\ ~LastCommand(o)
      BY <3>1, <3>3 DEF Command, LastCommand
    <3>4. q = AddPassword(r, o.id)
      BY <1>3, <2>1, <2>2, <3>6 DEF Effect
    <3>5. AddPassword(r, o.id).secrets = r.secrets \cup {o.id}
      BY <1>1 DEF AddPassword, Resource
    <3> QED
      BY <1>6, <2>1, <2>2, <3>4, <3>5, <3>6
  <2>3. CASE o.kind = "remove"
    <3>1. Command(o) \in Tearing
      BY <1>1, <1>3, <1>6, <2>3, TeardownCommand DEF Command
    <3>2. q.secrets \subseteq r.secrets
      BY <1>1, <2>1, <3>1, TearingWeakens
    <3> QED
      BY <2>1, <2>3, <3>2 DEF Provisioner
  <2>4. CASE o.kind = "reconcile"
    BY <1>3, <1>6, <2>4 DEF ensured
  <2> QED
    BY <1>3, <2>2, <2>3, <2>4
<1> QED
  BY <1>4, <1>5, <1>6

(* The entry a setup or an add goes on with.                               *)
LEMMA AfterServiceEntry ==
  ASSUME NEW q \in Operation, AtTarget(q), Provisioner(q), NEW p \in AfterService(q)
  PROVE  /\ Provisioner(p) /\ p.target = q.target /\ p.entry = q.entry
         /\ p.pc \in {"exec", "save"} /\ (p.pc = "exec" => p.step = 1)
<1>1. Serves(q, p) \/ Saves(q, p)
  BY AfterServiceMoves DEF Provisioner
<1> QED
  BY <1>1 DEF Serves, Saves, SameTarget, SameJob, Provisioner

LEMMA EntryGoesOn ==
  ASSUME NEW o, WellFormed(o), o.pc = "exec", Provisioner(o), NEW r, NEW p
  PROVE  /\ p \in AfterCommand(o, r) =>
              /\ Provisioner(p) /\ p.target = o.target /\ p.pc \in {"exec", "save"}
              /\ \/ ~LastCommand(o) /\ p.service = o.service /\ p.entry = o.entry
                 \/ /\ LastCommand(o) /\ (p.pc = "exec" => p.step = 1)
                    /\ p.entry = [o.entry EXCEPT ![o.service] = o.id]
         /\ p \in AfterFailure(o) =>
              /\ Provisioner(p) /\ p.target = o.target /\ p.pc \in {"exec", "save"}
              /\ p.entry = o.entry /\ (p.pc = "exec" => p.step = 1)
<1>1. ASSUME p \in AfterCommand(o, r), Advances(o, p)
      PROVE  /\ Provisioner(p) /\ p.target = o.target /\ p.pc = "exec"
             /\ ~LastCommand(o) /\ p.service = o.service /\ p.entry = o.entry
  BY <1>1 DEF Advances, SameTarget, SameJob, Provisioner
<1>2. ASSUME LastCommand(o), p \in AfterService(Completed(o))
      PROVE  /\ Provisioner(p) /\ p.target = o.target /\ p.pc \in {"exec", "save"}
             /\ p.pc = "exec" => p.step = 1
             /\ p.entry = [o.entry EXCEPT ![o.service] = o.id]
  <2> DEFINE q == Completed(o)
  <2>1. /\ q \in Operation /\ AtTarget(q) /\ q.kind = o.kind /\ q.target = o.target
        /\ q.entry = [o.entry EXCEPT ![o.service] = o.id]
    BY CompletedFields DEF SameJob
  <2>2. p \in AfterService(q)
    BY <1>2
  <2> HIDE DEF q
  <2> QED
    BY <2>1, <2>2, AfterServiceEntry DEF Provisioner
<1>3. ASSUME p \in AfterFailure(o)
      PROVE  /\ Provisioner(p) /\ p.target = o.target /\ p.pc \in {"exec", "save"}
             /\ p.entry = o.entry /\ (p.pc = "exec" => p.step = 1)
  <2> DEFINE q == Failed(o)
  <2>1. /\ q \in Operation /\ AtTarget(q) /\ q.kind = o.kind /\ q.target = o.target
        /\ q.entry = o.entry
    BY FailedFields
  <2>2. p \in AfterService(q)
    BY <1>3, AfterFailureMoves DEF Discards, Provisioner
  <2> HIDE DEF q
  <2> QED
    BY <2>1, <2>2, AfterServiceEntry DEF Provisioner
<1>4. ASSUME p \in AfterCommand(o, r)
      PROVE  Advances(o, p) \/ (LastCommand(o) /\ p \in AfterService(Completed(o)))
  BY <1>4, AfterCommandMoves
<1>5. ASSUME p \in AfterCommand(o, r)
      PROVE  /\ Provisioner(p) /\ p.target = o.target /\ p.pc \in {"exec", "save"}
             /\ \/ ~LastCommand(o) /\ p.service = o.service /\ p.entry = o.entry
                \/ /\ LastCommand(o) /\ (p.pc = "exec" => p.step = 1)
                   /\ p.entry = [o.entry EXCEPT ![o.service] = o.id]
  <2>1. CASE Advances(o, p)
    BY <1>1, <1>5, <2>1
  <2>2. CASE LastCommand(o) /\ p \in AfterService(Completed(o))
    BY <1>2, <2>2
  <2> QED
    BY <1>4, <1>5, <2>1, <2>2
<1> QED
  BY <1>3, <1>5

(* What a command does to the file and to a credential it is not about.    *)
LEMMA StaysOnFile ==
  ASSUME Typed, Courses, NEW c \in Clients, AtCommand(c),
         Apply(op[c]) \/ UNCHANGED <<res, aclFile>>,
         NEW a \in Apps, NEW s \in Services,
         ~(Provisioner(op[c]) /\ a = op[c].target /\ s = op[c].service),
         NEW secret, OnFile(a, s, secret, res, aclFile)
  PROVE  OnFile(a, s, secret, res', aclFile')
<1>1. CASE Apply(op[c]) /\ s = "redis"
  BY <1>1, RedisCommands DEF OnFile
<1>2. CASE UNCHANGED <<res, aclFile>>
  BY <1>2 DEF OnFile
<1>3. CASE s # "redis"
  BY <1>3 DEF OnFile
<1> QED
  BY <1>1, <1>2, <1>3

LEMMA CompletedOnFile ==
  ASSUME Typed, Courses, NEW c \in Clients, AtCommand(c), Apply(op[c]),
         Provisioner(op[c]), LastCommand(op[c])
  PROVE  LET o == op[c] IN OnFile(o.target, o.service, o.id, res', aclFile')
<1> DEFINE o == op[c]
<1>1. o.target \in Apps /\ o.service \in Services
  BY AtWork
<1>2. CASE o.service = "redis"
  <2>1. res'[o.target]["redis"].secrets \subseteq aclFile'[o.target]
    BY <1>1, <1>2, RedisCommands
  <2> QED
    BY <1>2, <2>1 DEF OnFile
<1>3. CASE o.service # "redis"
  BY <1>3 DEF OnFile
<1> QED
  BY <1>2, <1>3

LEMMA ExecFits ==
  ASSUME OneClient, Typed, Courses, Fits, NEW c \in Clients, ExecOk(c) \/ ExecFails(c)
  PROVE  Fits'
<1> DEFINE o == op[c]
<1>1. /\ AtCommand(c) /\ registry' = registry /\ damaged' \subseteq damaged
      /\ Apply(o) \/ UNCHANGED <<res, aclFile>>
  BY DEF ExecOk, ExecFails
<1>2. /\ WellFormed(o) /\ o.pc = "exec" /\ o.target \in Apps /\ o.service \in Services
      /\ o.entry \in Entry
  BY <1>1, AtWork DEF Operation
<1>3. PICK p : /\ Become(c, p)
               /\ \/ ExecOk(c) /\ p \in AfterCommand(o, Resources(o))
                  \/ ExecFails(c) /\ p \in AfterFailure(o)
  BY DEF ExecOk, ExecFails
<1>4. p.kind = o.kind
  <2>1. Goes(o, p)
    BY <1>2, <1>3, AfterFailureMoves, AfterCommandMoves DEF Goes
  <2> QED
    BY <1>2, <2>1, GoesJob
<1>5. Fit(o, registry, res, aclFile, damaged)
  BY DEF Fits
<1>6. \A a \in Apps, s \in Services :
        Lists(registry, a, s) => OnFile(a, s, registry[a][s], res', aclFile')
  <2>1. Provisioner(o) => ~Lists(registry, o.target, o.service)
    BY <1>1, ServiceOf
  <2> QED
    BY <1>1, <1>5, <2>1, StaysOnFile DEF Fit, Filed
<1>7. ASSUME Provisioner(o)
      PROVE  /\ o.entry[o.service] = NoConfig
             /\ \A s \in Services : o.entry[s] # NoConfig =>
                  OnFile(o.target, s, o.entry[s], res', aclFile')
  <2>1. o.entry[o.service] = NoConfig
    BY <1>1, <1>7, ServiceOf
  <2>2. \A s \in Services : o.entry[s] # NoConfig =>
          OnFile(o.target, s, o.entry[s], res, aclFile)
    BY <1>2, <1>5, <1>7 DEF Fit, Filed
  <2> QED
    BY <1>1, <1>2, <2>1, <2>2, StaysOnFile
<1>8. ASSUME ~MayLose, Provisioner(o)
      PROVE  \A s \in Services : o.entry[s] # NoConfig /\ ~Lists(registry, o.target, s) =>
               <<o.target, s>> \notin damaged'
  BY <1>1, <1>2, <1>5, <1>8 DEF Fit, Intact
<1>9. CASE Provisioner(o) /\ ExecOk(c) /\ p \in AfterCommand(o, Resources(o))
  <2>1. /\ Apply(o)
        /\ ~MayLose => <<o.target, o.service>> \notin damaged'
    <3>1. Apply(o) /\ damaged' = damaged \ Settled(o)
      BY <1>9 DEF ExecOk
    <3>2. o.step = 1 => Settled(o) = {<<o.target, o.service>>}
      BY <1>9 DEF Settled
    <3>3. ~MayLose /\ o.step # 1 => <<o.target, o.service>> \notin damaged
      BY <1>2, <1>5, <1>9 DEF Fit, Intact
    <3> QED
      BY <3>1, <3>2, <3>3
  <2>2. /\ Provisioner(p) /\ p.target = o.target /\ p.pc \in {"exec", "save"}
        /\ \/ ~LastCommand(o) /\ p.service = o.service /\ p.entry = o.entry
           \/ /\ LastCommand(o) /\ (p.pc = "exec" => p.step = 1)
              /\ p.entry = [o.entry EXCEPT ![o.service] = o.id]
    BY <1>2, <1>9, EntryGoesOn
  <2>3. CASE ~LastCommand(o)
    <3>1. Filed(p, registry, res', aclFile')
      BY <1>6, <1>7, <1>9, <2>2, <2>3 DEF Filed
    <3>2. Intact(p, registry, damaged')
      BY <1>8, <1>9, <2>1, <2>2, <2>3 DEF Intact
    <3> QED
      BY <1>1, <1>3, <3>1, <3>2, AloneMoves DEF Fits, Fit
  <2>4. CASE LastCommand(o)
    <3>1. \A s \in Services : p.entry[s] = IF s = o.service THEN o.id ELSE o.entry[s]
      BY <1>2, <2>2, <2>4 DEF Entry
    <3>2. OnFile(o.target, o.service, o.id, res', aclFile')
      BY <1>1, <1>9, <2>1, <2>4, CompletedOnFile
    <3>3. Filed(p, registry, res', aclFile')
      BY <1>6, <1>7, <1>9, <2>2, <3>1, <3>2 DEF Filed
    <3>4. Intact(p, registry, damaged')
      BY <1>8, <1>9, <2>1, <2>2, <2>4, <3>1 DEF Intact
    <3> QED
      BY <1>1, <1>3, <3>3, <3>4, AloneMoves DEF Fits, Fit
  <2> QED
    BY <2>3, <2>4
<1>10. CASE Provisioner(o) /\ ExecFails(c) /\ p \in AfterFailure(o)
  <2>1. /\ Provisioner(p) /\ p.target = o.target /\ p.entry = o.entry
        /\ p.pc = "exec" => p.step = 1
    BY <1>2, <1>10, EntryGoesOn
  <2>2. Filed(p, registry, res', aclFile')
    BY <1>6, <1>7, <1>10, <2>1 DEF Filed
  <2>3. Intact(p, registry, damaged')
    BY <1>8, <1>10, <2>1 DEF Intact
  <2> QED
    BY <1>1, <1>3, <2>2, <2>3, AloneMoves DEF Fits, Fit
<1>11. CASE ~Provisioner(o)
  <2>1. ~Provisioner(p)
    BY <1>4, <1>11 DEF Provisioner
  <2>2. Fit(p, registry, res', aclFile', damaged')
    BY <1>6, <2>1 DEF Fit, Filed, Intact
  <2> QED
    BY <1>1, <1>3, <2>2, AloneMoves DEF Fits
<1> QED
  BY <1>3, <1>9, <1>10, <1>11

(* Everything listed is on file: what matters of the state when no entry   *)
(* is being built.                                                         *)
ListedOnFile(G, R, F) ==
  \A a \in Apps, s \in Services : Lists(G, a, s) => OnFile(a, s, G[a][s], R, F)

LEMMA RestFits ==
  ASSUME NEW p, ~Provisioner(p) \/ p.pc \notin {"exec", "save"},
         NEW G, NEW R, NEW F, NEW D, ListedOnFile(G, R, F)
  PROVE  Fit(p, G, R, F, D)
  BY DEF ListedOnFile, Fit, Filed, Intact

LEMMA OnwardFits ==
  ASSUME NEW q \in Operation, Working(q), NEW p, Onward(q, p),
         NEW G, NEW R, NEW F, NEW D, q.loaded = G, ListedOnFile(G, R, F)
  PROVE  Fit(p, G, R, F, D)
<1>1. CASE Ends(q, p)
  BY <1>1, RestFits DEF Ends
<1>2. ASSUME NEW a \in q.targets, Enters(q, p, a), Provisioner(p) PROVE Fit(p, G, R, F, D)
  <2>1. /\ p.pc = "exec" /\ p.step = 1 /\ p.target = a /\ a \in Apps
        /\ p.entry = IF q.kind = "setup" THEN EmptyEntry ELSE G[a]
        /\ q.kind \in {"setup", "add"}
    BY <1>2 DEF Enters, SameJob, Provisioner, Operation
  <2>2. q.kind = "add" => G[a] # None
    BY <1>2 DEF Working
  <2>3. \A s \in Services : p.entry[s] # NoConfig => Lists(G, a, s) /\ p.entry[s] = G[a][s]
    BY <2>1, <2>2 DEF EmptyEntry, Lists
  <2>4. Filed(p, G, R, F)
    BY <2>1, <2>3 DEF Filed, ListedOnFile
  <2>5. Intact(p, G, D)
    BY <2>1, <2>3 DEF Intact
  <2> QED
    BY <2>4, <2>5 DEF Fit
<1> QED
  BY <1>1, <1>2, RestFits DEF Onward

LEMMA BeginFits ==
  ASSUME OneClient, Typed, Fits, NEW c \in Clients, Begin(c)
  PROVE  Fits'
<1>1. UNCHANGED <<registry, res, aclFile, damaged>>
  BY BeginMoves
<1>2. PICK p : /\ Become(c, p)
               /\ \/ StartsProvisioner(p) \/ StartsRemove(p) \/ StartsDetach(p)
                  \/ StartsReconcile(p) \/ StartsEncrypt(p)
  BY BeginMoves
<1>3. ~Provisioner(p) \/ p.pc \notin {"exec", "save"}
  <2>1. ASSUME StartsRemove(p) PROVE p.kind = "remove"
    <3>1. PICK q \in Operation : AtTarget(q) /\ q.kind = "remove" /\ p \in AfterService(q)
      BY <2>1 DEF StartsRemove
    <3> QED
      BY <3>1, AfterServiceMoves DEF Serves, Saves, SameTarget, SameJob
  <2>2. ASSUME StartsReconcile(p) PROVE p.kind = "reconcile"
    <3>1. PICK q \in Operation : Working(q) /\ q.kind = "reconcile" /\ p \in NextTarget(q)
      BY <2>2 DEF StartsReconcile
    <3> QED
      BY <3>1, NextTargetOnward DEF Onward, Ends, Enters, SameJob
  <2> QED
    BY <1>2, <2>1, <2>2
       DEF StartsProvisioner, StartsDetach, StartsEncrypt, Provisioner
<1>4. ListedOnFile(registry, res, aclFile)
  BY DEF Fits, Fit, Filed, ListedOnFile
<1>5. Fit(p, registry, res, aclFile, damaged)
  BY <1>3, <1>4, RestFits
<1> QED
  BY <1>1, <1>2, <1>5, AloneMoves DEF Fits

LEMMA SaveFits ==
  ASSUME OneClient, Typed, Courses, Fits, NEW c \in Clients, Save(c)
  PROVE  Fits'
<1> DEFINE o == op[c]
           G == registry'
<1>1. /\ UNCHANGED <<res, aclFile, damaged>> /\ o \in Operation /\ o.pc = "save"
      /\ registry \in Registry /\ Filed(o, registry, res, aclFile)
  BY SaveMoves DEF Save, Typed, TypeOK, WellFormed, Fits, Fit
<1>2. PICK p : /\ Become(c, p)
               /\ \/ SavesEntry(o, p) \/ SavesRemoval(o, p)
                  \/ SavesDetach(o, p) \/ SavesSame(o, p)
  BY SaveMoves
<1>3. ListedOnFile(G, res, aclFile)
  <2>1. CASE SavesEntry(o, p)
    <3>1. G = [registry EXCEPT ![o.target] = o.entry] /\ o.target \in Apps /\ Provisioner(o)
      BY <2>1 DEF SavesEntry
    <3>2. \A s \in Services : o.entry[s] # NoConfig =>
            OnFile(o.target, s, o.entry[s], res, aclFile)
      BY <1>1, <3>1 DEF Filed
    <3>3. \A a \in Apps, s \in Services :
            Lists(registry, a, s) => OnFile(a, s, registry[a][s], res, aclFile)
      BY <1>1 DEF Filed
    <3> QED
      BY <1>1, <3>1, <3>2, <3>3 DEF Registry, Lists, ListedOnFile
  <2>2. CASE SavesRemoval(o, p)
    BY <1>1, <2>2 DEF SavesRemoval, Registry, Lists, ListedOnFile, Filed
  <2>3. CASE SavesDetach(o, p)
    <3>1. /\ G = [registry EXCEPT ![o.target] = o.entry] /\ o.target \in Apps
          /\ registry[o.target] # None
          /\ \A s \in Services : o.entry[s] # NoConfig => o.entry[s] = registry[o.target][s]
      BY <2>3 DEF SavesDetach, Detaching
    <3>2. \A a \in Apps, s \in Services :
            Lists(G, a, s) => Lists(registry, a, s) /\ G[a][s] = registry[a][s]
      BY <1>1, <3>1 DEF Registry, Lists
    <3> QED
      BY <1>1, <3>2 DEF ListedOnFile, Filed
  <2>4. CASE SavesSame(o, p)
    BY <1>1, <2>4 DEF SavesSame, ListedOnFile, Filed
  <2> QED
    BY <1>2, <2>1, <2>2, <2>3, <2>4
<1> HIDE DEF G
<1>4. Fit(p, G, res, aclFile, damaged)
  <2>1. CASE SavesEntry(o, p)
    <3>1. PICK q \in Operation : q.loaded = G /\ Working(q) /\ Onward(q, p)
      BY <2>1 DEF SavesEntry, G
    <3> QED
      BY <1>3, <3>1, OnwardFits
  <2>2. CASE p = Finish(o)
    <3>1. p.pc = "done"
      BY <1>1, <2>2, FinishFields
    <3> QED
      BY <1>3, <3>1, RestFits
  <2> QED
    BY <1>2, <2>1, <2>2 DEF SavesRemoval, SavesDetach, SavesSame
<1> QED
  BY <1>1, <1>2, <1>4, AloneMoves DEF Fits, G

LEMMA StillFits ==
  ASSUME OneClient, Typed, Courses, Fits, NEW c \in Clients,
         CheckContainers(c) \/ SaveFails(c) \/ Return(c) \/ Crash(c)
  PROVE  Fits'
<1> DEFINE o == op[c]
<1>1. UNCHANGED <<registry, res, aclFile>> /\ o \in Operation /\ WellFormed(o)
  BY DEF CheckContainers, SaveFails, Return, Crash, Typed, WellFormed
<1>2. ListedOnFile(registry, res, aclFile)
  BY DEF Fits, Fit, Filed, ListedOnFile
<1>3. [o EXCEPT !.ok = FALSE] \in Operation /\ Idle.pc = "idle"
  BY <1>1 DEF Operation, Idle
<1>4. PICK p : Become(c, p) /\ (\/ p.pc \in {"idle", "done"}
                                \/ CheckContainers(c) /\ p \in NextTarget(o))
  BY <1>3, FinishFields DEF CheckContainers, SaveFails, Return, Crash
<1>5. CASE CheckContainers(c) /\ p \in NextTarget(o)
  <2>1. Working(o) /\ o.loaded = registry
    BY <1>1, <1>5 DEF CheckContainers, WellFormed, Courses, Course, Ahead
  <2>2. Fit(p, registry, res, aclFile, damaged')
    BY <1>1, <1>2, <1>5, <2>1, NextTargetOnward, OnwardFits
  <2> QED
    BY <1>1, <1>4, <2>2, AloneMoves DEF Fits
<1>6. CASE p.pc \in {"idle", "done"}
  <2>1. Fit(p, registry, res, aclFile, damaged')
    BY <1>2, <1>6, RestFits
  <2> QED
    BY <1>1, <1>4, <2>1, AloneMoves DEF Fits
<1> QED
  BY <1>4, <1>5, <1>6

LEMMA LossOnFile ==
  ASSUME Typed, Losses, NEW a \in Apps, NEW s \in Services, NEW secret,
         OnFile(a, s, secret, res, aclFile)
  PROVE  OnFile(a, s, secret, res', aclFile')
<1>1. ASSUME NEW t \in Services, Wipe(t), s = "redis"
      PROVE  OnFile(a, s, secret, res', aclFile')
  <2>1. /\ res'[a][s] = IF s = t THEN Blank ELSE res[a][s]
        /\ t # "redis" => aclFile' = aclFile
    BY <1>1 DEF Wipe, Typed, TypeOK
  <2>2. Blank.secrets = {}
    BY DEF Blank
  <2> QED
    BY <1>1, <2>1, <2>2 DEF OnFile
<1>2. ASSUME RestartRedis, s = "redis" PROVE OnFile(a, s, secret, res', aclFile')
  <2> DEFINE q == [Blank EXCEPT !.secrets = aclFile[a], !.granted = (aclFile[a] # {})]
  <2>1. res'[a][s] = q /\ aclFile' = aclFile
    BY <1>2 DEF RestartRedis, Typed, TypeOK
  <2>2. q.secrets = aclFile[a]
    BY DEF Blank
  <2> QED
    BY <2>1, <2>2 DEF OnFile
<1> QED
  BY <1>1, <1>2 DEF Losses, OnFile

LEMMA LossFits ==
  ASSUME Typed, Fits, Losses
  PROVE  Fits'
<1> SUFFICES ASSUME NEW c \in Clients PROVE Fit(op'[c], registry', res', aclFile', damaged')
  BY DEF Fits
<1> DEFINE o == op[c]
           p == Upset(o)
<1>1. /\ o \in Operation /\ WellFormed(o) /\ op'[c] = p /\ registry' = registry /\ MayLose
      /\ Filed(o, registry, res, aclFile)
  BY LossMoves DEF Typed, WellFormed, Fits, Fit, Losses, Wipe, RestartRedis
<1>2. /\ p.pc = o.pc /\ p.target = o.target /\ p.entry = o.entry
      /\ Provisioner(p) <=> Provisioner(o)
  BY <1>1, UpsetFields
<1> HIDE DEF p
<1>3. Provisioner(o) /\ o.pc \in {"exec", "save"} => o.target \in Apps
  BY <1>1 DEF WellFormed, AtTarget, Provisioner
<1>4. \A a \in Apps, s \in Services :
        Lists(registry, a, s) => OnFile(a, s, registry[a][s], res', aclFile')
  BY <1>1, LossOnFile DEF Filed
<1>5. Provisioner(o) /\ o.pc \in {"exec", "save"} =>
        \A s \in Services : o.entry[s] # NoConfig =>
          OnFile(o.target, s, o.entry[s], res', aclFile')
  BY <1>1, <1>3, LossOnFile DEF Filed
<1>6. Filed(p, registry, res', aclFile')
  BY <1>2, <1>4, <1>5 DEF Filed
<1> QED
  BY <1>1, <1>6 DEF Fit, Intact

LEMMA FitsAlways ==
  ASSUME OneClient
  PROVE  Spec => [](Typed /\ Courses /\ Steadies /\ Fits)
<1>1. Init => Fits
  <2>1. ASSUME Init, NEW c \in Clients PROVE Fit(op[c], registry, res, aclFile, damaged)
    <3>1. op[c].pc = "idle" /\ \A a \in Apps : registry[a] = None
      BY <2>1 DEF Init, Idle, EmptyRegistry
    <3>2. ListedOnFile(registry, res, aclFile)
      BY <3>1 DEF ListedOnFile, Lists
    <3> QED
      BY <3>1, <3>2, RestFits
  <2> QED
    BY <2>1 DEF Fits
<1>2. ASSUME Typed, Courses, Fits, [Next]_vars PROVE Fits'
  <2>1. ASSUME NEW c \in Clients, Proceed(c) PROVE Fits'
    BY <1>2, <2>1, ExecFits, SaveFits, StillFits DEF Proceed
  <2>2. CASE UNCHANGED vars
    BY <1>2, <2>2 DEF vars, Fits
  <2> QED
    BY <1>2, <2>1, <2>2, BeginFits, StillFits, LossFits DEF Next, Losses
<1>3. Typed /\ Courses /\ Fits /\ [Next]_vars => Fits'
  BY <1>2
<1> QED
  BY <1>1, <1>3, SteadyAlways, PTL DEF Spec

(***************************************************************************)
(* Refinement: the conditions of the shelf, cell by cell.                  *)
(***************************************************************************)
ShelfStep == [Shelf!Next]_<<Present, Conditions, Leaving>>

LEMMA CellOf ==
  ASSUME NEW a \in Apps, NEW s \in Services
  PROVE  Conditions[a][s] = Condition(a, s) /\ Conditions'[a][s] = (Condition(a, s))'
  BY DEF Conditions

LEMMA RowOf ==
  ASSUME NEW a \in Apps
  PROVE  /\ Conditions[a] = [s \in Services |-> Condition(a, s)]
         /\ Conditions'[a] = [s \in Services |-> (Condition(a, s))']
  BY DEF Conditions

(* A row with one cell replaced.                                           *)
LEMMA CellReplaced ==
  ASSUME NEW S, NEW f, NEW g, NEW u, NEW v,
         f = [s \in S |-> f[s]], g = [s \in S |-> g[s]],
         \A s \in S : g[s] = IF s = u THEN v ELSE f[s]
  PROVE  g = [f EXCEPT ![u] = v]
  OBVIOUS

LEMMA SquareRows ==
  ASSUME NEW a \in Apps
  PROVE  /\ Conditions[a] = [s \in Services |-> Conditions[a][s]]
         /\ Conditions'[a] = [s \in Services |-> Conditions'[a][s]]
  BY DEF Conditions

LEMMA SameRow ==
  ASSUME NEW a \in Apps, \A s \in Services : (Condition(a, s))' = Condition(a, s)
  PROVE  Conditions'[a] = Conditions[a]
<1>1. \A s \in Services : Conditions'[a][s] = Conditions[a][s]
  BY CellOf
<1> QED
  BY <1>1, SquareRows

LEMMA SameCells ==
  ASSUME \A a \in Apps, s \in Services : (Condition(a, s))' = Condition(a, s)
  PROVE  Conditions' = Conditions
  BY DEF Conditions

LEMMA OneRow ==
  ASSUME NEW t \in Apps, NEW row, Conditions'[t] = row,
         \A a \in Apps \ {t}, s \in Services : (Condition(a, s))' = Condition(a, s)
  PROVE  Conditions' = [Conditions EXCEPT ![t] = row]
<1>1. \A a \in Apps \ {t} : Conditions'[a] = Conditions[a]
  BY SameRow
<1>2. /\ Conditions = [a \in Apps |-> Conditions[a]]
      /\ Conditions' = [a \in Apps |-> Conditions'[a]]
  BY DEF Conditions
<1> QED
  BY <1>1, <1>2

LEMMA OneCell ==
  ASSUME NEW t \in Apps, NEW u \in Services, NEW v, (Condition(t, u))' = v,
         \A a \in Apps, s \in Services :
           a # t \/ s # u => (Condition(a, s))' = Condition(a, s)
  PROVE  Conditions' = [Conditions EXCEPT ![t][u] = v]
<1>1. Conditions'[t] = [Conditions[t] EXCEPT ![u] = v]
  <2>1. \A s \in Services : Conditions'[t][s] = IF s = u THEN v ELSE Conditions[t][s]
    BY CellOf
  <2> QED
    BY <2>1, SquareRows, CellReplaced
<1>2. Conditions' = [Conditions EXCEPT ![t] = [Conditions[t] EXCEPT ![u] = v]]
  BY <1>1, OneRow
<1>3. t \in DOMAIN Conditions
  BY DEF Conditions
<1> QED
  BY <1>2, <1>3

LEMMA OneColumn ==
  ASSUME NEW u \in Services, NEW a \in Apps, NEW v, (Condition(a, u))' = v,
         \A s \in Services \ {u} : (Condition(a, s))' = Condition(a, s)
  PROVE  Conditions'[a] = [Conditions[a] EXCEPT ![u] = v]
<1>1. \A s \in Services : Conditions'[a][s] = IF s = u THEN v ELSE Conditions[a][s]
  BY CellOf
<1> QED
  BY <1>1, SquareRows, CellReplaced

(* What a condition says of the state.                                     *)
LEMMA ConditionIs ==
  ASSUME NEW a \in Apps, NEW s \in Services
  PROVE  /\ Condition(a, s) \in {"off", "works", "damaged", "closed"}
         /\ Condition(a, s) = "off" <=> ~Lists(registry, a, s)
         /\ Condition(a, s) = "works" <=>
              Lists(registry, a, s) /\ Usable(s, res[a][s], registry[a][s])
         /\ Condition(a, s) = "damaged" <=>
              /\ Lists(registry, a, s) /\ ~Usable(s, res[a][s], registry[a][s])
              /\ <<a, s>> \in damaged
         /\ Condition(a, s) = "closed" <=>
              /\ Lists(registry, a, s) /\ ~Usable(s, res[a][s], registry[a][s])
              /\ <<a, s>> \notin damaged
  BY DEF Condition, Lists, Registered

LEMMA ConditionBecomes ==
  ASSUME NEW a \in Apps, NEW s \in Services
  PROVE  /\ (Condition(a, s))' \in {"off", "works", "damaged", "closed"}
         /\ (Condition(a, s))' = "off" <=> ~Lists(registry', a, s)
         /\ (Condition(a, s))' = "works" <=>
              Lists(registry', a, s) /\ Usable(s, res'[a][s], registry'[a][s])
         /\ (Condition(a, s))' = "damaged" <=>
              /\ Lists(registry', a, s) /\ ~Usable(s, res'[a][s], registry'[a][s])
              /\ <<a, s>> \in damaged'
         /\ (Condition(a, s))' = "closed" <=>
              /\ Lists(registry', a, s) /\ ~Usable(s, res'[a][s], registry'[a][s])
              /\ <<a, s>> \notin damaged'
  BY DEF Condition, Lists, Registered

LEMMA ConditionStays ==
  ASSUME NEW a \in Apps, NEW s \in Services,
         Lists(registry', a, s) <=> Lists(registry, a, s),
         Lists(registry, a, s) =>
           /\ registry'[a][s] = registry[a][s]
           /\ Usable(s, res'[a][s], registry[a][s]) <=> Usable(s, res[a][s], registry[a][s])
           /\ <<a, s>> \in damaged' <=> <<a, s>> \in damaged
  PROVE  (Condition(a, s))' = Condition(a, s)
  BY ConditionIs, ConditionBecomes

(* Alone, at most one app is being removed, and what is closed is its.     *)
Goers(o) ==
  {a \in Apps : o.kind = "remove" /\ o.target = a /\ o.pc \in {"exec", "save"}}

LEMMA LeavingAlone ==
  ASSUME OneClient, NEW c \in Clients
  PROVE  Leaving = Goers(op[c]) /\ Leaving' = Goers(op'[c])
  BY DEF OneClient, Leaving, BeingRemoved, Goers

LEMMA ClosedLeaves ==
  ASSUME OneClient, Steadies, NEW c \in Clients, NEW a \in Apps, NEW s \in Services,
         Condition(a, s) = "closed"
  PROVE  <<a, s>> \in Torn(op[c]) /\ a \in Goers(op[c])
<1>1. Kept(op[c], registry, res, aclFile, damaged)
  BY DEF Steadies, Steady
<1>2. /\ Lists(registry, a, s) /\ ~Usable(s, res[a][s], registry[a][s])
      /\ <<a, s>> \notin damaged
  BY ConditionIs
<1>3. <<a, s>> \in Torn(op[c])
  BY <1>1, <1>2 DEF Kept, Fine, Sound
<1> QED
  BY <1>3 DEF Torn, Goers

(* A removal goes on with the same app until it is over.                   *)
LEMMA RemovalGoes ==
  ASSUME NEW o, WellFormed(o), o.pc = "exec", o.kind = "remove", NEW p, Goes(o, p)
  PROVE  p.kind = "remove" /\ p.target = o.target /\ p.pc \in {"exec", "save"}
<1>1. CASE Advances(o, p)
  BY <1>1 DEF Advances, SameTarget, SameJob
<1>2. ASSUME NEW q \in {Completed(o), Failed(o)}, p \in AfterService(q)
      PROVE  p.kind = "remove" /\ p.target = o.target /\ p.pc \in {"exec", "save"}
  <2>1. q \in Operation /\ AtTarget(q) /\ q.kind = o.kind /\ q.target = o.target
    <3>1. CASE q = Completed(o)
      BY <3>1, CompletedFields DEF SameJob
    <3>2. CASE q = Failed(o)
      BY <3>2, FailedFields
    <3> QED
      BY <1>2, <3>1, <3>2
  <2>2. Serves(q, p) \/ Saves(q, p)
    BY <1>2, <2>1, AfterServiceMoves
  <2> QED
    BY <2>1, <2>2 DEF Serves, Saves, SameTarget, SameJob
<1> QED
  BY <1>1, <1>2 DEF Goes

(* A command: nothing changes for a setup or add, a reconcile can repair,  *)
(* a removal can close.                                                    *)
LEMMA ExecShelf ==
  ASSUME OneClient, Typed, Courses, Steadies, Steadies', NEW c \in Clients,
         ExecOk(c) \/ ExecFails(c)
  PROVE  ShelfStep
<1> DEFINE o == op[c]
           q == Effect(Command(o), Resources(o), Secret(o), o.seen)
<1>1. /\ AtCommand(c) /\ registry' = registry
      /\ damaged' = damaged \ Settled(o) \/ damaged' = damaged
      /\ Apply(o) \/ UNCHANGED <<res, aclFile>>
  BY DEF ExecOk, ExecFails
<1>w. /\ WellFormed(o) /\ o.pc = "exec" /\ o.target \in Apps /\ o.service \in Services
      /\ o.step \in 1 .. Len(Commands(o)) /\ Resources(o) \in Resource /\ Secret(o) \in Nat
  BY <1>1, AtWork
<1>2. PICK t \in Apps, u \in Services : t = o.target /\ u = o.service
  BY <1>w
<1>3. Goes(o, op'[c])
  <2>1. PICK p : /\ Become(c, p)
                 /\ \/ p \in AfterCommand(o, Resources(o))
                    \/ p \in AfterFailure(o)
    BY DEF ExecOk, ExecFails
  <2>2. Goes(o, p)
    BY <1>w, <2>1, AfterFailureMoves, AfterCommandMoves DEF Goes
  <2> QED
    BY <2>1, <2>2, AloneMoves
<1>4. op'[c].kind = o.kind
  BY <1>w, <1>3, GoesJob
<1>5. Present' = Present /\ Leaving' = Leaving
  <2>1. Goers(op'[c]) = Goers(o)
    <3>1. CASE o.kind = "remove"
      <4>1. op'[c].target = o.target /\ op'[c].pc \in {"exec", "save"}
        BY <1>w, <1>3, <3>1, RemovalGoes
      <4> QED
        BY <1>w, <1>4, <4>1 DEF Goers
    <3>2. CASE o.kind # "remove"
      BY <1>4, <3>2 DEF Goers
    <3> QED
      BY <3>1, <3>2
  <2>2. Present' = Present
    BY <1>1 DEF Present
  <2> QED
    BY <2>1, <2>2, LeavingAlone
<1>6. ASSUME NEW a \in Apps, NEW s \in Services, a # t \/ s # u
      PROVE  (Condition(a, s))' = Condition(a, s)
  <2>1. res'[a][s] = res[a][s]
    BY <1>1, <1>w, <1>2, <1>6, ApplyEffect
  <2>2. <<a, s>> \in damaged' <=> <<a, s>> \in damaged
    BY <1>1, <1>2, <1>6 DEF Settled
  <2> QED
    BY <1>1, <2>1, <2>2, ConditionStays
<1>7. res'[t][u] = Resources(o) \/ (res'[t][u] = q /\ Accepts(Command(o), Resources(o), o.seen))
  BY <1>1, <1>w, <1>2, ApplyEffect DEF Resources
<1> HIDE DEF q
<1>8. CASE Provisioner(o)
  <2>1. ~Lists(registry, t, u)
    BY <1>1, <1>2, <1>8, ServiceOf
  <2>2. (Condition(t, u))' = Condition(t, u)
    BY <1>1, <1>w, <1>2, <2>1, ConditionStays
  <2> QED
    BY <1>5, <1>6, <2>2, SameCells DEF ShelfStep
<1>9. CASE o.kind = "reconcile"
  <2>1. /\ u \in ensured /\ Commands(o) = Ensure(u) /\ Secret(o) = registry[t][u]
        /\ Leaving = {}
    BY <1>1, <1>2, <1>9, ServiceOf, LeavingAlone DEF Goers
  <2>2. Usable(u, Resources(o), Secret(o)) => Usable(u, res'[t][u], Secret(o))
    <3>1. Accepts(Command(o), Resources(o), o.seen) =>
            (Usable(u, Resources(o), Secret(o)) => Usable(u, q, Secret(o)))
      BY <1>w, <1>2, <2>1, EnsureStep DEF Command, q
    <3> QED
      BY <1>7, <3>1
  <2>3. /\ Condition(t, u) = "works" => (Condition(t, u))' = "works"
        /\ Condition(t, u) # "closed" /\ (Condition(t, u))' # "closed"
    <3>1. Condition(t, u) # "closed"
      BY <1>w, <1>2, <1>9, ClosedLeaves DEF Goers
    <3>2. (Condition(t, u))' # "closed"
      <4>1. Kept(op'[c], registry', res', aclFile', damaged') /\ Torn(op'[c]) = {}
        BY <1>4, <1>9 DEF Steadies, Steady, Torn
      <4>2. Healthy(registry', res', aclFile', damaged')
        BY <4>1, HealthyKept
      <4> QED
        BY <1>w, <1>2, <4>2, ConditionBecomes DEF Healthy, Fine, Sound
    <3> QED
      BY <1>1, <1>w, <1>2, <2>1, <2>2, <3>1, <3>2, ConditionIs, ConditionBecomes DEF Resources
  <2>4. CASE (Condition(t, u))' = Condition(t, u)
    BY <1>5, <1>6, <2>4, SameCells DEF ShelfStep
  <2>5. CASE (Condition(t, u))' # Condition(t, u)
    <3>1. Condition(t, u) = "damaged" /\ (Condition(t, u))' = "works"
      BY <1>1, <1>w, <1>2, <2>3, <2>5, ConditionIs, ConditionBecomes
    <3>2. Conditions' = [Conditions EXCEPT ![t][u] = "works"]
      BY <1>w, <1>2, <1>6, <3>1, OneCell
    <3>3. Shelf!Repair(t, u)
      BY <1>w, <1>2, <1>5, <2>1, <3>1, <3>2, CellOf DEF Shelf!Repair
    <3> QED
      BY <1>w, <1>2, <3>3 DEF ShelfStep, Shelf!Next
  <2> QED
    BY <2>4, <2>5
<1>10. CASE o.kind = "remove"
  <2>1. Commands(o) = Teardown(u) /\ Leaving = {t} /\ damaged' = damaged
    <3>1. Commands(o) = Teardown(u)
      BY <1>1, <1>2, <1>10, ServiceOf
    <3>2. Goers(o) = {t}
      BY <1>w, <1>2, <1>10 DEF Goers
    <3>3. damaged' = damaged
      BY <1>1, <1>10 DEF Settled, Provisioner
    <3> QED
      BY <3>1, <3>2, <3>3, LeavingAlone
  <2>2. \A x : Usable(u, res'[t][u], x) => Usable(u, Resources(o), x)
    <3>1. Command(o) \in Tearing
      BY <1>w, <1>2, <2>1, TeardownCommand DEF Command
    <3> QED
      BY <1>w, <1>2, <1>7, <3>1, TearingWeakens DEF q
  <2>3. /\ Condition(t, u) # "works" => (Condition(t, u))' = Condition(t, u)
        /\ Condition(t, u) = "works" => (Condition(t, u))' # "off"
    <3>1. \A x : Usable(u, res'[t][u], x) => Usable(u, res[t][u], x)
      BY <1>2, <2>2 DEF Resources
    <3>2. CASE Condition(t, u) # "works"
      <4>1. Lists(registry, t, u) =>
              ~Usable(u, res[t][u], registry[t][u]) /\ ~Usable(u, res'[t][u], registry[t][u])
        BY <1>2, <3>1, <3>2, ConditionIs
      <4> QED
        BY <1>1, <1>2, <2>1, <3>2, <4>1, ConditionStays
    <3>3. Condition(t, u) = "works" => (Condition(t, u))' # "off"
      BY <1>1, <1>2, ConditionIs, ConditionBecomes
    <3> QED
      BY <3>2, <3>3
  <2>4. CASE (Condition(t, u))' = Condition(t, u)
    BY <1>5, <1>6, <2>4, SameCells DEF ShelfStep
  <2>5. CASE (Condition(t, u))' # Condition(t, u)
    <3>1. Condition(t, u) = "works" /\ (Condition(t, u))' \in {"closed", "damaged"}
      BY <1>w, <1>2, <2>3, <2>5, ConditionIs, ConditionBecomes
    <3>2. Conditions' = [Conditions EXCEPT ![t][u] = (Condition(t, u))']
      BY <1>w, <1>2, <1>6, OneCell
    <3>3. Shelf!Close(t, u)
      BY <1>w, <1>2, <1>5, <2>1, <3>1, <3>2, CellOf DEF Shelf!Close
    <3> QED
      BY <1>w, <1>2, <3>3 DEF ShelfStep, Shelf!Next
  <2> QED
    BY <2>4, <2>5
<1> QED
  BY <1>1, <1>8, <1>9, <1>10, ServiceOf DEF Provisioner

(* What the registry lists of the other apps stays what it was.            *)
LEMMA OtherRows ==
  ASSUME UNCHANGED <<res, damaged>>, NEW a \in Apps, registry'[a] = registry[a],
         NEW s \in Services
  PROVE  (Condition(a, s))' = Condition(a, s)
  BY ConditionStays DEF Lists

LEMMA KeptCell ==
  ASSUME UNCHANGED <<res, damaged>>, NEW a \in Apps, NEW s \in Services,
         registry[a] # None, registry'[a] # None, registry'[a][s] = registry[a][s]
  PROVE  (Condition(a, s))' = Condition(a, s)
  BY ConditionStays DEF Lists

LEMMA SaveProvides ==
  ASSUME OneClient, Typed, Courses, Steadies, Fits, NEW c \in Clients, op[c].pc = "save",
         UNCHANGED <<res, aclFile, damaged>>, NEW p, Become(c, p), SavesEntry(op[c], p)
  PROVE  ShelfStep
<1> DEFINE o == op[c]
<1>1. PICK t \in Apps : t = o.target
  BY DEF SavesEntry
<1>2. /\ registry' = [registry EXCEPT ![t] = o.entry] /\ Provisioner(o)
      /\ AtHand(o, registry) /\ o.entry \in Entry /\ registry \in Registry
  BY <1>1 DEF SavesEntry, Typed, TypeOK, WellFormed, Operation
<1>3. /\ registry'[t] = o.entry /\ o.entry # None
      /\ \A a \in Apps \ {t} : registry'[a] = registry[a]
  BY <1>2, NoneAssumption DEF Registry, Entry
<1>4. Leaving = {} /\ Leaving' = {}
  <2>1. p.kind = o.kind /\ op'[c] = p
    BY AloneMoves DEF SavesEntry, Onward, Ends, Enters, SameJob
  <2> QED
    BY <1>2, <2>1, LeavingAlone DEF Goers, Provisioner
<1>5. Present' = Present \cup {t}
  BY <1>3 DEF Present
<1>6. ASSUME NEW s \in Services, Condition(t, s) # "off"
      PROVE  (Condition(t, s))' = Condition(t, s)
  <2>1. Lists(registry, t, s)
    BY <1>6, ConditionIs
  <2>2. o.entry[s] = registry[t][s]
    BY <1>1, <1>2, <2>1 DEF AtHand
  <2> QED
    BY <1>3, <2>1, <2>2, KeptCell DEF Lists
<1>7. ASSUME NEW s \in Services, Condition(t, s) = "off"
      PROVE  (Condition(t, s))' \in {"off"} \cup Shelf!Delivered
  <2>1. Lists(registry', t, s) <=> o.entry[s] # NoConfig
    BY <1>3 DEF Lists
  <2>2. ~Lists(registry, t, s)
    BY <1>7, ConditionIs
  <2>3. o.entry[s] # NoConfig => Fine(t, s, o.entry[s], res, aclFile, damaged)
    BY <1>1, <1>2 DEF Steadies, Steady, OnTrack, Built
  <2>4. ~MayLose /\ o.entry[s] # NoConfig => <<t, s>> \notin damaged
    BY <1>1, <1>2, <2>2 DEF Fits, Fit, Intact
  <2>5. (Condition(t, s))' # "closed"
    BY <1>3, <2>1, <2>3, ConditionBecomes DEF Fine, Sound
  <2>6. ~MayLose => (Condition(t, s))' # "damaged"
    BY <1>3, <2>1, <2>4, ConditionBecomes
  <2> QED
    BY <2>5, <2>6, ConditionBecomes DEF Shelf!Delivered
<1>8. Conditions' \in [Apps -> [Services -> Shelf!States]]
  BY ConditionBecomes DEF Conditions, Shelf!States
<1>9. ASSUME NEW a \in Apps, NEW s \in Services
      PROVE  \/ Conditions'[a][s] = Conditions[a][s]
             \/ a = t /\ s \in Shelf!Off(t) /\ Conditions'[a][s] \in Shelf!Delivered
  <2>1. CASE a # t
    BY <1>3, <2>1, OtherRows, CellOf
  <2>2. CASE a = t
    BY <1>6, <1>7, <2>2, CellOf DEF Shelf!Off
  <2> QED
    BY <2>1, <2>2
<1>10. Shelf!Provide(t)
  BY <1>4, <1>5, <1>8, <1>9 DEF Shelf!Provide
<1> QED
  BY <1>10 DEF ShelfStep, Shelf!Next

LEMMA SaveForgets ==
  ASSUME OneClient, Typed, NEW c \in Clients, op[c].pc = "save",
         UNCHANGED <<res, aclFile, damaged>>, NEW p, Become(c, p), SavesRemoval(op[c], p)
  PROVE  ShelfStep
<1> DEFINE o == op[c]
<1>1. PICK t \in Apps : t = o.target
  BY DEF SavesRemoval
<1>2. /\ registry' = [registry EXCEPT ![t] = None] /\ registry \in Registry
      /\ o.kind = "remove" /\ o \in Operation /\ p = Finish(o)
  BY <1>1 DEF SavesRemoval, Typed, TypeOK, WellFormed
<1>3. registry'[t] = None /\ \A a \in Apps \ {t} : registry'[a] = registry[a]
  BY <1>2 DEF Registry
<1>4. Leaving = {t} /\ Leaving' = {}
  <2>1. p.pc = "done" /\ op'[c] = p
    BY <1>2, FinishFields, AloneMoves
  <2> QED
    BY <1>1, <1>2, <2>1, LeavingAlone DEF Goers
<1>5. Present' = Present \ {t}
  BY <1>3 DEF Present
<1>6. \A s \in Services : (Condition(t, s))' = "off"
  BY <1>3, ConditionBecomes DEF Lists
<1>7. Conditions'[t] = Shelf!AllOff
  BY <1>6, RowOf DEF Shelf!AllOff
<1>8. Conditions' = [Conditions EXCEPT ![t] = Shelf!AllOff]
  BY <1>3, <1>7, OtherRows, OneRow
<1>9. Shelf!Forget(t)
  BY <1>4, <1>5, <1>8 DEF Shelf!Forget
<1> QED
  BY <1>9 DEF ShelfStep, Shelf!Next

LEMMA SaveDetaches ==
  ASSUME OneClient, Typed, NEW c \in Clients, op[c].pc = "save",
         UNCHANGED <<res, aclFile, damaged>>, NEW p, Become(c, p), SavesDetach(op[c], p)
  PROVE  ShelfStep
<1> DEFINE o == op[c]
<1>1. PICK t \in Apps : t = o.target
  BY DEF SavesDetach, Detaching
<1>2. /\ registry' = [registry EXCEPT ![t] = o.entry] /\ o.entry \in Entry
      /\ o.kind = "detach" /\ Detaching(o, registry) /\ registry \in Registry
      /\ registry[t] # None /\ o \in Operation /\ p = Finish(o)
  BY <1>1 DEF SavesDetach, Detaching, Typed, TypeOK, WellFormed, Operation
<1>3. /\ registry'[t] = o.entry /\ o.entry # None
      /\ \A a \in Apps \ {t} : registry'[a] = registry[a]
  BY <1>2, NoneAssumption DEF Registry, Entry
<1>4. Leaving = {} /\ Leaving' = {}
  <2>1. p.kind = "detach" /\ op'[c] = p
    BY <1>2, FinishFields, AloneMoves DEF SameJob
  <2> QED
    BY <1>2, <2>1, LeavingAlone DEF Goers
<1>5. Present' = Present /\ t \in Present
  BY <1>2, <1>3 DEF Present
<1> DEFINE S == {s \in detachable : o.entry[s] = NoConfig}
<1>6. ASSUME NEW s \in Services
      PROVE  Conditions'[t][s] = IF s \in S THEN "off" ELSE Conditions[t][s]
  <2>1. CASE s \in S
    <3>1. (Condition(t, s))' = "off"
      BY <1>3, <2>1, ConditionBecomes DEF Lists
    <3> QED
      BY <2>1, <3>1, CellOf
  <2>2. CASE s \notin S
    <3>1. o.entry[s] = registry[t][s]
      BY <1>1, <1>2, <2>2 DEF Detaching
    <3>2. (Condition(t, s))' = Condition(t, s)
      BY <1>2, <1>3, <3>1, KeptCell
    <3> QED
      BY <2>2, <3>2, CellOf
  <2> QED
    BY <2>1, <2>2
<1> HIDE DEF S
<1>7. Conditions' = [Conditions EXCEPT ![t] =
        [s \in Services |-> IF s \in S THEN "off" ELSE Conditions[t][s]]]
  <2>1. Conditions'[t] = [s \in Services |-> IF s \in S THEN "off" ELSE Conditions[t][s]]
    BY <1>6, SquareRows
  <2> QED
    BY <1>3, <2>1, OtherRows, OneRow
<1>8. Shelf!Detach(t)
  <2>1. S \in SUBSET detachable
    BY DEF S
  <2> QED
    BY <1>4, <1>5, <1>7, <2>1 DEF Shelf!Detach
<1> QED
  BY <1>8 DEF ShelfStep, Shelf!Next

(* A save is the step in which the shelf changes hands.                    *)
LEMMA SaveShelf ==
  ASSUME OneClient, Typed, Courses, Steadies, Fits, NEW c \in Clients, Save(c)
  PROVE  ShelfStep
<1> DEFINE o == op[c]
<1>1. op[c].pc = "save" /\ o \in Operation /\ UNCHANGED <<res, aclFile, damaged>>
  BY SaveMoves DEF Save, Typed, WellFormed
<1>2. PICK p : /\ Become(c, p)
               /\ \/ SavesEntry(o, p) \/ SavesRemoval(o, p)
                  \/ SavesDetach(o, p) \/ SavesSame(o, p)
  BY SaveMoves
<1>3. CASE SavesSame(o, p)
  <2>1. registry' = registry /\ o.kind = "encrypt" /\ op'[c].kind = "encrypt"
    BY <1>1, <1>2, <1>3, FinishFields, AloneMoves DEF SavesSame, SameJob
  <2>2. Leaving' = Leaving /\ Present' = Present
    BY <2>1, LeavingAlone DEF Goers, Present
  <2>3. Conditions' = Conditions
    BY <1>1, <2>1, OtherRows, SameCells
  <2> QED
    BY <2>2, <2>3 DEF ShelfStep
<1> QED
  BY <1>1, <1>2, <1>3, SaveProvides, SaveForgets, SaveDetaches

(* A request that begins moves nothing but the start of a removal.         *)
LEMMA BeginShelf ==
  ASSUME OneClient, Typed, Courses, Steadies, NEW c \in Clients, Begin(c)
  PROVE  ShelfStep
<1> DEFINE o == op[c]
<1>1. o.pc = "idle" /\ UNCHANGED <<registry, res, aclFile, damaged>>
  BY BeginMoves
<1>2. PICK p : /\ Become(c, p)
               /\ \/ StartsProvisioner(p) \/ StartsRemove(p) \/ StartsDetach(p)
                  \/ StartsReconcile(p) \/ StartsEncrypt(p)
  BY BeginMoves
<1>3. Conditions' = Conditions /\ Present' = Present
  BY <1>1, OtherRows, SameCells DEF Present
<1>4. Leaving = {} /\ Leaving' = Goers(p)
  BY <1>1, <1>2, LeavingAlone, AloneMoves DEF Goers
<1>5. CASE StartsRemove(p)
  <2>1. PICK q \in Operation :
          /\ AtTarget(q) /\ q.kind = "remove" /\ q.loaded = registry /\ p \in AfterService(q)
    BY <1>5 DEF StartsRemove
  <2>2. PICK t \in Apps : t = q.target /\ registry[t] # None
    BY <2>1 DEF AtTarget
  <2>3. p.kind = "remove" /\ p.target = t /\ p.pc \in {"exec", "save"}
    BY <2>1, <2>2, AfterServiceMoves DEF Serves, Saves, SameTarget, SameJob
  <2>4. Leaving' = {t} /\ t \in Present
    BY <1>4, <2>2, <2>3 DEF Goers, Present
  <2>5. Shelf!Depart(t)
    BY <1>3, <1>4, <2>4 DEF Shelf!Depart
  <2> QED
    BY <2>5 DEF ShelfStep, Shelf!Next
<1>6. CASE ~StartsRemove(p)
  <2>1. ASSUME StartsReconcile(p) PROVE p.kind = "reconcile"
    <3>1. PICK q \in Operation : Working(q) /\ q.kind = "reconcile" /\ p \in NextTarget(q)
      BY <2>1 DEF StartsReconcile
    <3> QED
      BY <3>1, NextTargetOnward DEF Onward, Ends, Enters, SameJob
  <2>2. p.kind # "remove"
    BY <1>2, <1>6, <2>1 DEF StartsProvisioner, StartsDetach, StartsEncrypt, Provisioner
  <2>3. Leaving' = Leaving
    BY <1>4, <2>2 DEF Goers
  <2> QED
    BY <1>3, <2>3 DEF ShelfStep
<1> QED
  BY <1>5, <1>6

LEMMA CheckShelf ==
  ASSUME OneClient, Typed, Courses, NEW c \in Clients, CheckContainers(c)
  PROVE  ShelfStep
<1> DEFINE o == op[c]
<1>1. /\ o \in Operation /\ Working(o) /\ Provisioner(o)
      /\ UNCHANGED <<registry, res, aclFile, damaged>>
  BY DEF CheckContainers, Typed, WellFormed, Courses, Course
<1>2. [o EXCEPT !.ok = FALSE] \in Operation /\ [o EXCEPT !.ok = FALSE].kind = o.kind
  BY <1>1 DEF Operation
<1>3. PICK p : Become(c, p) /\ (p \in NextTarget(o) \/ p = Finish([o EXCEPT !.ok = FALSE]))
  BY DEF CheckContainers
<1>4. p.kind = o.kind
  <2>1. CASE p \in NextTarget(o)
    BY <1>1, <2>1, NextTargetOnward DEF Onward, Ends, Enters, SameJob
  <2>2. CASE p = Finish([o EXCEPT !.ok = FALSE])
    BY <1>2, <2>2, FinishFields DEF SameJob
  <2> QED
    BY <1>3, <2>1, <2>2
<1>5. Leaving' = Leaving
  BY <1>1, <1>3, <1>4, LeavingAlone, AloneMoves DEF Goers, Provisioner
<1>6. Conditions' = Conditions /\ Present' = Present
  BY <1>1, OtherRows, SameCells DEF Present
<1> QED
  BY <1>5, <1>6 DEF ShelfStep

(* A removal that stops leaves damaged what it had closed.                 *)
LEMMA StopShelf ==
  ASSUME OneClient, Typed, Steadies, NEW c \in Clients, SaveFails(c) \/ Crash(c) \/ Return(c)
  PROVE  ShelfStep
<1> DEFINE o == op[c]
<1>1. o \in Operation /\ [o EXCEPT !.ok = FALSE] \in Operation /\ Idle.pc = "idle"
  <2>1. o \in Operation
    BY DEF Typed, WellFormed
  <2>2. Idle.pc = "idle"
    BY DEF Idle
  <2> QED
    BY <2>1, <2>2 DEF Operation
<1>2. /\ UNCHANGED <<registry, res, aclFile>> /\ damaged' = damaged \cup Torn(o)
      /\ \E p : Become(c, p) /\ p.pc \in {"idle", "done"}
  BY <1>1, FinishFields DEF SaveFails, Crash, Return, Torn
<1>3. Leaving = Goers(o) /\ Leaving' = {} /\ Present' = Present
  BY <1>2, LeavingAlone, AloneMoves DEF Goers, Present
<1>4. ASSUME NEW a \in Apps, NEW s \in Services
      PROVE  (Condition(a, s))' =
               IF Condition(a, s) = "closed" THEN "damaged" ELSE Condition(a, s)
  <2>1. CASE Condition(a, s) = "closed"
    <3>1. <<a, s>> \in damaged'
      BY <1>2, <2>1, ClosedLeaves
    <3> QED
      BY <1>2, <2>1, <3>1, ConditionIs, ConditionBecomes
  <2>2. CASE Condition(a, s) # "closed"
    BY <1>2, <2>2, ConditionIs, ConditionBecomes
  <2> QED
    BY <2>1, <2>2
<1>5. CASE Goers(o) = {}
  <2>1. Conditions' = Conditions
    BY <1>4, <1>5, ClosedLeaves, SameCells
  <2> QED
    BY <1>3, <1>5, <2>1 DEF ShelfStep
<1>6. CASE Goers(o) # {}
  <2>1. PICK t \in Apps : t = o.target /\ Goers(o) = {t}
    BY <1>6 DEF Goers
  <2>2. \A a \in Apps \ {t}, s \in Services : (Condition(a, s))' = Condition(a, s)
    BY <1>4, <2>1, ClosedLeaves
  <2> DEFINE row == [s \in Services |->
                       IF Conditions[t][s] = "closed" THEN "damaged" ELSE Conditions[t][s]]
  <2>3. Conditions'[t] = row
    <3>1. \A s \in Services : Conditions'[t][s] =
            IF Conditions[t][s] = "closed" THEN "damaged" ELSE Conditions[t][s]
      BY <1>4, CellOf
    <3> QED
      BY <3>1, SquareRows
  <2>4. Conditions' = [Conditions EXCEPT ![t] = row]
    BY <2>2, <2>3, OneRow
  <2>5. Shelf!Stay(t)
    BY <1>3, <2>1, <2>4 DEF Shelf!Stay
  <2> QED
    BY <2>5 DEF ShelfStep, Shelf!Next
<1> QED
  BY <1>5, <1>6

(* What a lost volume or a restart does to the shelf: one column of it.    *)
LEMMA LossLeaves ==
  ASSUME OneClient, Typed, Losses
  PROVE  registry' = registry /\ Present' = Present /\ Leaving' = Leaving
<1> PICK c \in Clients : \A d \in Clients : d = c
  BY DEF OneClient
<1>1. registry' = registry /\ op'[c] = Upset(op[c]) /\ op[c] \in Operation
  BY LossMoves DEF Typed, WellFormed
<1>2. Goers(op'[c]) = Goers(op[c])
  BY <1>1, UpsetFields DEF Goers
<1> QED
  BY <1>1, <1>2, LeavingAlone DEF Present

LEMMA WipedRow ==
  ASSUME Typed, NEW u \in Services, u # "signoz", Wipe(u), NEW a \in Apps
  PROVE  \/ /\ Condition(a, u) \in {"works", "closed"} /\ (Condition(a, u))' = "damaged"
            /\ Conditions'[a] = [Conditions[a] EXCEPT ![u] = "damaged"]
         \/ Condition(a, u) # "works" /\ Conditions'[a] = Conditions[a]
<1>1. /\ registry' = registry
      /\ \A s \in Services : res'[a][s] = IF s = u THEN Blank ELSE res[a][s]
      /\ \A s \in Services : <<a, s>> \in damaged' <=>
           <<a, s>> \in damaged \/ (s = u /\ res[a][u] # Blank)
  BY DEF Wipe, Typed, TypeOK
<1>2. \A x : ~Usable(u, Blank, x)
  BY DEF Usable, Blank
<1>3. \A s \in Services \ {u} : (Condition(a, s))' = Condition(a, s)
  BY <1>1, ConditionStays
<1>4. /\ Condition(a, u) = "works" => (Condition(a, u))' = "damaged"
      /\ Condition(a, u) = "damaged" => (Condition(a, u))' = "damaged"
      /\ Condition(a, u) = "off" => (Condition(a, u))' = "off"
      /\ Condition(a, u) = "closed" => (Condition(a, u))' \in {"closed", "damaged"}
  <2>1. Condition(a, u) = "works" => res[a][u] # Blank
    BY <1>2, ConditionIs
  <2>2. Condition(a, u) = "off" <=> (Condition(a, u))' = "off"
    BY <1>1, ConditionIs, ConditionBecomes
  <2>3. (Condition(a, u))' # "works"
    <3>1. \A x : ~Usable(u, res'[a][u], x)
      BY <1>1, <1>2
    <3> QED
      BY <3>1, ConditionBecomes
  <2>4. <<a, u>> \in damaged' => (Condition(a, u))' # "closed"
    BY ConditionBecomes
  <2>5. Condition(a, u) \in {"works", "damaged"} => <<a, u>> \in damaged'
    BY <1>1, <2>1, ConditionIs
  <2> QED
    BY <2>2, <2>3, <2>4, <2>5, ConditionIs, ConditionBecomes
<1>5. CASE (Condition(a, u))' = Condition(a, u)
  <2>1. Conditions'[a] = Conditions[a]
    BY <1>3, <1>5, SameRow
  <2> QED
    BY <1>4, <1>5, <2>1
<1>6. CASE (Condition(a, u))' # Condition(a, u)
  <2>1. Condition(a, u) \in {"off", "works", "damaged", "closed"}
    BY ConditionIs
  <2>2. Condition(a, u) \in {"works", "closed"} /\ (Condition(a, u))' = "damaged"
    BY <1>4, <1>6, <2>1
  <2> QED
    BY <1>3, <2>2, OneColumn
<1> QED
  BY <1>5, <1>6

LEMMA WipeShelf ==
  ASSUME OneClient, Typed, Steadies, NEW u \in Services, Wipe(u)
  PROVE  ShelfStep
<1>1. Present' = Present /\ Leaving' = Leaving /\ registry' = registry /\ MayLose
  BY LossLeaves DEF Losses, Wipe
<1>2. CASE u = "signoz"
  <2>1. ASSUME NEW a \in Apps, NEW s \in Services
        PROVE  (Condition(a, s))' = Condition(a, s)
    <3>1. CASE s = u
      BY <1>1, <1>2, <3>1, ConditionIs, ConditionBecomes DEF Usable, Lists
    <3>2. CASE s # u
      <4>1. res'[a][s] = res[a][s] /\ (<<a, s>> \in damaged' <=> <<a, s>> \in damaged)
        BY <3>2 DEF Wipe, Typed, TypeOK
      <4> QED
        BY <1>1, <4>1, ConditionStays
    <3> QED
      BY <3>1, <3>2
  <2> QED
    BY <1>1, <2>1, SameCells DEF ShelfStep
<1>3. CASE u # "signoz"
  <2> DEFINE A == {a \in Leaving : Conditions[a][u] = "closed" /\ Conditions'[a][u] = "damaged"}
  <2>1. ASSUME NEW a \in Apps
        PROVE  Conditions'[a] =
                 IF Conditions[a][u] = "works" \/ (a \in A /\ Conditions[a][u] = "closed")
                 THEN [Conditions[a] EXCEPT ![u] = "damaged"] ELSE Conditions[a]
    <3>1. /\ Conditions[a][u] = Condition(a, u) /\ Conditions'[a][u] = (Condition(a, u))'
          /\ \/ /\ Condition(a, u) \in {"works", "closed"} /\ (Condition(a, u))' = "damaged"
                /\ Conditions'[a] = [Conditions[a] EXCEPT ![u] = "damaged"]
             \/ Condition(a, u) # "works" /\ Conditions'[a] = Conditions[a]
      BY <1>3, CellOf, WipedRow
    <3>2. Conditions[a][u] = "closed" => a \in Leaving
      BY <3>1, ClosedLeaves, LeavingAlone DEF OneClient
    <3> QED
      BY <3>1, <3>2
  <2>2. Conditions' = [a \in Apps |->
          IF Conditions[a][u] = "works" \/ (a \in A /\ Conditions[a][u] = "closed")
          THEN [Conditions[a] EXCEPT ![u] = "damaged"] ELSE Conditions[a]]
    <3>1. Conditions' = [a \in Apps |-> Conditions'[a]]
      BY DEF Conditions
    <3> QED
      BY <2>1, <3>1
  <2>3. A \in SUBSET Leaving /\ u \notin detachable
    BY <1>3 DEF detachable
  <2> HIDE DEF A
  <2>4. Shelf!Lose(u)
    BY <1>1, <2>2, <2>3 DEF Shelf!Lose
  <2> QED
    BY <2>4 DEF ShelfStep, Shelf!Next
<1> QED
  BY <1>2, <1>3

LEMMA ReloadedRow ==
  ASSUME Typed, Fits, NEW c \in Clients, RestartRedis, NEW a \in Apps
  PROVE  LET u == "redis" IN
         \/ /\ Condition(a, u) \in {"closed", "damaged"}
            /\ (Condition(a, u))' \in {"works", "damaged"}
            /\ Conditions'[a] = [Conditions[a] EXCEPT ![u] = (Condition(a, u))']
         \/ /\ Condition(a, u) \in {"closed", "damaged"} =>
                 (Condition(a, u))' \notin {"works", "damaged"}
            /\ Conditions'[a] = Conditions[a]
<1> DEFINE u == "redis"
           q == [Blank EXCEPT !.secrets = aclFile[a], !.granted = (aclFile[a] # {})]
<1>1. /\ registry' = registry /\ u \in Services
      /\ \A s \in Services : res'[a][s] = IF s = u THEN q ELSE res[a][s]
      /\ \A s \in Services \ {u} : <<a, s>> \in damaged' <=> <<a, s>> \in damaged
      /\ damaged \subseteq damaged'
  BY DEF RestartRedis, Typed, TypeOK
<1>2. \A s \in Services \ {u} : (Condition(a, s))' = Condition(a, s)
  BY <1>1, ConditionStays
<1>3. \A x \in aclFile[a] : Usable(u, q, x)
  BY DEF Usable, Blank, HasStore
<1> HIDE DEF q
<1>4. Condition(a, u) = "works" => (Condition(a, u))' = "works"
  <2>1. Lists(registry, a, u) => OnFile(a, u, registry[a][u], res, aclFile)
    BY <1>1 DEF Fits, Fit, Filed
  <2>2. \A x : Usable(u, res[a][u], x) => x \in res[a][u].secrets
    BY DEF Usable
  <2> QED
    BY <1>1, <1>3, <2>1, <2>2, ConditionIs, ConditionBecomes DEF OnFile
<1>5. /\ Condition(a, u) = "off" => (Condition(a, u))' = "off"
      /\ Condition(a, u) # "off" => (Condition(a, u))' # "off"
      /\ Condition(a, u) = "damaged" => (Condition(a, u))' # "closed"
  BY <1>1, ConditionIs, ConditionBecomes
<1>6. CASE (Condition(a, u))' = Condition(a, u) /\ Condition(a, u) # "damaged"
  <2>1. Conditions'[a] = Conditions[a]
    BY <1>2, <1>6, SameRow
  <2> QED
    BY <1>6, <2>1
<1>7. CASE (Condition(a, u))' # Condition(a, u) \/ Condition(a, u) = "damaged"
  <2>1. /\ Condition(a, u) \in {"closed", "damaged"}
        /\ (Condition(a, u))' \in {"works", "damaged"}
    BY <1>1, <1>4, <1>5, <1>7, ConditionIs, ConditionBecomes
  <2>2. Conditions'[a] = [Conditions[a] EXCEPT ![u] = (Condition(a, u))']
    BY <1>1, <1>2, OneColumn
  <2> QED
    BY <2>1, <2>2
<1> QED
  BY <1>6, <1>7

LEMMA ReloadShelf ==
  ASSUME OneClient, Typed, Fits, RestartRedis
  PROVE  ShelfStep
<1> DEFINE u == "redis"
           Q == {a \in Apps : Conditions[a][u] \in {"closed", "damaged"}}
           A == {a \in Q : Conditions'[a][u] \in {"works", "damaged"}}
           v == [a \in A |-> Conditions'[a][u]]
<1>1. /\ Present' = Present /\ Leaving' = Leaving /\ MayLose /\ u \in Services
  BY LossLeaves DEF Losses, RestartRedis
<1>2. ASSUME NEW a \in Apps
      PROVE  Conditions'[a] =
               IF a \in A THEN [Conditions[a] EXCEPT ![u] = v[a]] ELSE Conditions[a]
  <2>1. Conditions[a][u] = Condition(a, u) /\ Conditions'[a][u] = (Condition(a, u))'
    BY <1>1, CellOf
  <2>2. \/ /\ Condition(a, u) \in {"closed", "damaged"}
           /\ (Condition(a, u))' \in {"works", "damaged"}
           /\ Conditions'[a] = [Conditions[a] EXCEPT ![u] = (Condition(a, u))']
        \/ /\ Condition(a, u) \in {"closed", "damaged"} =>
                (Condition(a, u))' \notin {"works", "damaged"}
           /\ Conditions'[a] = Conditions[a]
    BY ReloadedRow DEF OneClient
  <2> QED
    BY <2>1, <2>2
<1>3. Conditions' = [a \in Apps |->
        IF a \in A THEN [Conditions[a] EXCEPT ![u] = v[a]] ELSE Conditions[a]]
  <2>1. Conditions' = [a \in Apps |-> Conditions'[a]]
    BY DEF Conditions
  <2> QED
    BY <1>2, <2>1
<1>4. A \in SUBSET Q /\ v \in [A -> {"works", "damaged"}]
  OBVIOUS
<1> HIDE DEF A, v
<1>5. Shelf!Reload(u)
  BY <1>1, <1>3, <1>4 DEF Shelf!Reload
<1> QED
  BY <1>1, <1>5 DEF ShelfStep, Shelf!Next

LEMMA ShelfInit ==
  ASSUME Init
  PROVE  Shelf!Init
<1>1. /\ \A a \in Apps : registry[a] = None
      /\ \A c \in Clients : op[c].pc = "idle"
  BY DEF Init, EmptyRegistry, Idle
<1>2. Present = {} /\ Leaving = {}
  BY <1>1 DEF Present, Leaving, BeingRemoved
<1>3. \A a \in Apps, s \in Services : Condition(a, s) = "off"
  BY <1>1 DEF Condition, Registered
<1>4. Conditions = [a \in Apps |-> Shelf!AllOff]
  BY <1>3 DEF Conditions, Shelf!AllOff
<1> QED
  BY <1>2, <1>4 DEF Shelf!Init

LEMMA ShelfNext ==
  ASSUME OneClient, Typed, Courses, Steadies, Steadies', Fits, [Next]_vars
  PROVE  ShelfStep
<1>1. ASSUME NEW c \in Clients, Begin(c) \/ Proceed(c) \/ Crash(c) PROVE ShelfStep
  BY <1>1, BeginShelf, CheckShelf, ExecShelf, SaveShelf, StopShelf DEF Proceed
<1>2. ASSUME NEW s \in Services, Wipe(s) PROVE ShelfStep
  BY <1>2, WipeShelf
<1>3. CASE RestartRedis
  BY <1>3, ReloadShelf
<1>4. CASE UNCHANGED vars
  <2>1. Conditions' = Conditions
    BY <1>4, OtherRows, SameCells DEF vars
  <2>2. Present' = Present /\ Leaving' = Leaving
    BY <1>4 DEF vars, Present, Leaving, BeingRemoved
  <2> QED
    BY <2>1, <2>2 DEF ShelfStep
<1> QED
  BY <1>1, <1>2, <1>3, <1>4 DEF Next

(***************************************************************************)
(* An engine used by one client at a time implements the shelf: whatever   *)
(* its commands, failures, crashes and losses do in between, a client sees *)
(* services appear with a save, and credentials break only by a removal or *)
(* a lost volume and heal only by a reconcile or a restart of redis.       *)
(***************************************************************************)
THEOREM SerialImplementsShelf ==
  ASSUME OneClient
  PROVE  Spec => ShelfSpec
<1>1. Init => Shelf!Init
  BY ShelfInit
<1>2. /\ Typed /\ Courses /\ Steadies /\ Fits
      /\ (Typed /\ Courses /\ Steadies /\ Fits)'
      /\ [Next]_vars
      => [Shelf!Next]_<<Present, Conditions, Leaving>>
  BY ShelfNext DEF ShelfStep
<1>3. Spec => [](Typed /\ Courses /\ Steadies /\ Fits)
  BY FitsAlways
<1> QED
  BY <1>1, <1>2, <1>3, PTL DEF Spec, ShelfSpec, Shelf!Spec

=============================================================================
