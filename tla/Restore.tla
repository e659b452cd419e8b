------------------------------- MODULE Restore -------------------------------
(***************************************************************************)
(* Restoring backup files into the backing services (shelfcore/restore.go, *)
(* the Restore of each package of internal/services) while apps write,     *)
(* backups are made and deleted, and apps are removed and set up again.    *)
(*                                                                         *)
(* An app's data in a service is a few items: tables, keys, definitions,   *)
(* collections or objects.  An item's value counts the versions written to *)
(* it that it holds, so that rows or list elements present twice show.     *)
(*                                                                         *)
(* Setup, removal and reconcile are one step each here: Provisioning takes *)
(* them apart.  What aistor does in the container is in AistorStaging.     *)
(***************************************************************************)
EXTENDS Naturals, FiniteSets

CONSTANTS
  Apps,         \* names of apps
  NoApp,        \* none of them
  Services,     \* services that can be backed up
  Items,        \* items an app keeps in a service
  RedisType,    \* item -> its type in redis
  Workers,      \* restores that may be under way together
  CommandLine,  \* those of the command line; the others are the web page's
  Requests,     \* services asked for with --services; none: all of them
  Setups,       \* sets of services apps are set up with
  MaxNow,       \* bound on the clock
  MaxRestores   \* bound on the restores begun

ASSUME AppsAssumption == NoApp \notin Apps
ASSUME ServicesAssumption ==
  Services \subseteq {"postgres", "redis", "rabbitmq", "aistor", "mongodb"}
ASSUME RedisTypeAssumption == RedisType \in [Items -> {"string", "set", "list"}]
ASSUME WorkersAssumption == CommandLine \subseteq Workers
ASSUME RequestsAssumption == Requests \subseteq SUBSET Services /\ Requests # {}
ASSUME SetupsAssumption == Setups \subseteq (SUBSET Services) \ {{}}
ASSUME BoundsAssumption == MaxNow \in Nat /\ MaxRestores \in Nat

VARIABLES
  now,       \* the clock: it dates backups, numbers secrets and versions
  registry,  \* app -> service -> the secret it was set up with, 0: none
  live,      \* app -> service -> what the service holds of the app
  files,     \* the backups directory
  job,       \* worker -> its restore
  restores,  \* number of restores begun
  stale,     \* history: apps whose account of an earlier life was imported
  revived    \* history: <<app, service>> removed under a restore, or restored
             \* while the app did not have the service

vars == <<now, registry, live, files, job, restores, stale, revived>>

Time == 0..MaxNow
Value == [1..MaxNow -> Nat]
NoValue == [v \in 1..MaxNow |-> 0]
Only(v) == [NoValue EXCEPT ![v] = 1]
Both(v, d) == [x \in 1..MaxNow |-> v[x] + d[x]]
Union(v, d) == [x \in 1..MaxNow |-> IF v[x] > 0 THEN v[x] ELSE d[x]]
Values == [Items -> Value]
NoValues == [i \in Items |-> NoValue]
Absent(values) == {i \in Items : values[i] = NoValue}

(* Data is what a service holds of an app: the database, vhost or bucket,  *)
(* the secret of the account (0: none), the items.                         *)
Data == [store : BOOLEAN, secret : Time, items : Values]
Blank == [store |-> FALSE, secret |-> 0, items |-> NoValues]

(* A file being written, left half written by a killed backup, or whole.   *)
(* A definitions file of rabbitmq holds the account too.                   *)
File == [app : Apps, svc : Services, ts : Time, body : {"open", "partial", "whole"},
         items : Values, secret : Time,
         suspect : BOOLEAN]   \* history: dumped while the account was stale
NoFile == [svc |-> "none", ts |-> 0]
Name(f) == [app |-> f.app, svc |-> f.svc, ts |-> f.ts]
Names == [app : Apps, svc : Services, ts : Time]

ServicesOf(a) == {s \in Services : registry[a][s] # 0}
Registered(a) == ServicesOf(a) # {}
Usable(a, s) == live[a][s].store /\ live[a][s].secret = registry[a][s]

Job ==
  [pc     : {"idle", "prompt", "next", "make", "apply", "restored"},
   app    : Apps \cup {NoApp}, \* the app named in the request
   asked  : Requests,          \* services asked for
   shown  : SUBSET Names,      \* the plan shown before the prompt
   since  : Time,              \* history: when the plan was shown
   plan   : SUBSET Names,      \* files left to restore
   file   : File \cup {NoFile},\* the file as it was opened
   before : Values,            \* history: the items when it was opened
   drop   : SUBSET Items,      \* items left to drop
   fill   : SUBSET Items,      \* items left to restore
   quiet  : BOOLEAN]           \* history: nobody else touched the data since

Idle ==
  [pc |-> "idle", app |-> NoApp, asked |-> CHOOSE r \in Requests : TRUE, shown |-> {}, since |-> 0,
   plan |-> {}, file |-> NoFile, before |-> NoValues, drop |-> {}, fill |-> {}, quiet |-> TRUE]

Init ==
  /\ now = 0
  /\ registry = [a \in Apps |-> [s \in Services |-> 0]]
  /\ live = [a \in Apps |-> [s \in Services |-> Blank]]
  /\ files = {}
  /\ job = [w \in Workers |-> Idle]
  /\ restores = 0
  /\ stale = {} /\ revived = {}

-----------------------------------------------------------------------------
(* The app whose data a file restores into: the statements of redis and    *)
(* rabbitmq name their app, whatever app was asked for.                    *)
Target(j, f) == IF f.svc \in {"redis", "rabbitmq"} THEN f.app ELSE j.app
Subject(j) == Target(j, j.file)

Applying(j) == j.pc \in {"make", "apply"}
At(j, a, s) == (Applying(j) \/ j.pc = "restored") /\ Subject(j) = a /\ j.file.svc = s

(* What a restore has read or will read from its plan.                     *)
Pending(j) ==
  {<<Target(j, n), n.svc>> : n \in j.plan \cup (IF Applying(j) THEN {j.file} ELSE {})}

Goto(w, j) == job' = [job EXCEPT ![w] = j]

(* The other restores into this data are not alone any more.               *)
NotAlone(j) == [j EXCEPT !.quiet = FALSE, !.before = NoValues]
Disturbed(a, s) ==
  [w \in Workers |-> IF At(job[w], a, s) THEN NotAlone(job[w]) ELSE job[w]]

(***************************************************************************)
(* The life of an app.  Backups outlive it: RemoveApp deletes none.        *)
(***************************************************************************)
Provisionable(s, data) ==
  /\ s = "postgres" => ~data.store
  /\ s \in {"postgres", "rabbitmq", "mongodb"} => data.secret = 0

(* Bound: apps registered at the same time have the same services.         *)
SetupApp ==
  \E a \in Apps, S \in Setups :
    /\ now < MaxNow /\ ~Registered(a)
    /\ \A b \in Apps : ServicesOf(b) \in {{}, S}
    /\ \A s \in S : Provisionable(s, live[a][s])
    /\ now' = now + 1
    /\ registry' = [registry EXCEPT ![a] = [s \in Services |-> IF s \in S THEN now' ELSE 0]]
    /\ live' = [live EXCEPT ![a] = [s \in Services |->
         IF s \in S THEN [@[s] EXCEPT !.store = TRUE, !.secret = now'] ELSE @[s]]]
    /\ UNCHANGED <<files, job, restores, stale, revived>>

(* What a restore under way brings back afterwards stays behind.           *)
RemoveApp ==
  \E a \in Apps :
    LET gone == {<<a, s>> : s \in ServicesOf(a)}
    IN  /\ gone # {}
        /\ registry' = [registry EXCEPT ![a] = [s \in Services |-> 0]]
        /\ live' = [live EXCEPT ![a] = [s \in Services |->
                      IF <<a, s>> \in gone THEN Blank ELSE @[s]]]
        /\ job' = [w \in Workers |->
                     IF \E s \in Services : <<a, s>> \in gone /\ At(job[w], a, s)
                     THEN NotAlone(job[w]) ELSE job[w]]
        /\ revived' = (revived \ gone) \cup (gone \cap UNION {Pending(job[w]) : w \in Workers})
        /\ stale' = stale \ {a}
        /\ UNCHANGED <<now, files, restores>>

(* Reconcile puts back the accounts of rabbitmq and mongodb; it changes    *)
(* nothing when none is stale.                                             *)
EnsuredMongodb == {"mongodb"}                                           \* mutant
Ensured == {"rabbitmq", "mongodb"}

Reconcile ==
  /\ stale # {}
  /\ live' = [a \in Apps |-> [s \in Services |->
       IF registry[a][s] # 0 /\ s \in Ensured
       THEN [live[a][s] EXCEPT !.store = TRUE, !.secret = registry[a][s]]
       ELSE live[a][s]]]
  /\ stale' = {}
  /\ UNCHANGED <<now, registry, files, job, restores, revived>>

(* The app writes a new version of an item, or pushes it to a list.        *)
AppWrites ==
  \E a \in Apps, s \in Services, i \in Items :
    /\ now < MaxNow /\ registry[a][s] # 0 /\ Usable(a, s)
    /\ now' = now + 1
    /\ live' = [live EXCEPT ![a][s].items[i] =
         IF s = "redis" /\ RedisType[i] = "list" THEN Both(@, Only(now'))
         ELSE Only(now')]
    /\ job' = Disturbed(a, s)
    /\ UNCHANGED <<registry, files, restores, stale, revived>>

-----------------------------------------------------------------------------
(***************************************************************************)
(* The backup of one service, one at a time: its dump is taken when the    *)
(* file is opened; a dump that fails removes the file, one that is killed  *)
(* leaves it (BackupStore has the details).                                *)
(***************************************************************************)
OpenDump ==
  \E a \in Apps, s \in Services :
    /\ now < MaxNow /\ registry[a][s] # 0 /\ live[a][s].store
    /\ \A f \in files : f.body # "open"
    /\ now' = now + 1
    /\ files' = files \cup
         {[app |-> a, svc |-> s, ts |-> now', body |-> "open", items |-> live[a][s].items,
           secret |-> IF s = "rabbitmq" THEN live[a][s].secret ELSE 0, suspect |-> a \in stale]}
    /\ UNCHANGED <<registry, live, job, restores, stale, revived>>

Became(f, body) == (files \ {f}) \cup {[f EXCEPT !.body = body]}

CloseDump ==
  \E f \in files :
    /\ f.body = "open"
    /\ files' = Became(f, "whole")
    /\ UNCHANGED <<now, registry, live, job, restores, stale, revived>>

DumpFails ==
  \E f \in files :
    /\ f.body = "open"
    /\ files' = files \ {f}
    /\ UNCHANGED <<now, registry, live, job, restores, stale, revived>>

DumpKilled ==
  \E f \in files :
    /\ f.body = "open"
    /\ files' = Became(f, "partial")
    /\ UNCHANGED <<now, registry, live, job, restores, stale, revived>>

(* By hand or by retention.  A file that is in no restore's plan when it   *)
(* is deleted might as well not have been made.                            *)
DeleteFile ==
  \E f \in files :
    /\ \E w \in Workers : Name(f) \in job[w].shown \cup job[w].plan
    /\ f.body # "open"
    /\ files' = files \ {f}
    /\ UNCHANGED <<now, registry, live, job, restores, stale, revived>>

-----------------------------------------------------------------------------
(***************************************************************************)
(* PlanRestore: the newest file of each service the app has, by its name,  *)
(* whole or not.                                                           *)
(***************************************************************************)
Oldest(group) == {f \in group : \A g \in group : f.ts <= g.ts}    \* mutant
Latest(group) == {f \in group : \A g \in group : g.ts <= f.ts}

Chosen(a, S) == {s \in ServicesOf(a) : S = {} \/ s \in S}

Plan(a, S) ==
  {Name(f) : f \in UNION {Latest({f \in files : f.app = a /\ f.svc = s}) : s \in Chosen(a, S)}}

(* The command line shows the plan and asks.                               *)
ShowPlan(w) ==
  \E a \in Apps, S \in Requests :
    /\ w \in CommandLine /\ job[w].pc = "idle" /\ restores < MaxRestores
    /\ Registered(a) /\ Plan(a, S) # {}
    /\ restores' = restores + 1
    /\ Goto(w, [Idle EXCEPT !.pc = "prompt", !.app = a, !.asked = S, !.shown = Plan(a, S),
                            !.since = now])
    /\ UNCHANGED <<now, registry, live, files, stale, revived>>

(* The next service of RestoreApp, if there is one.                        *)
Continue(j) ==
  IF j.plan = {} THEN Idle ELSE [Idle EXCEPT !.pc = "next", !.app = j.app, !.plan = j.plan]

(* RestoreApp loads the registry and computes the plan again.              *)
PlanShown(j) == {n \in j.shown : \E f \in files : Name(f) = n}          \* mutant
PlanAgain(j) == IF Registered(j.app) THEN Plan(j.app, j.asked) ELSE {}

Confirm(w) ==
  /\ job[w].pc = "prompt"
  /\ Goto(w, Continue([job[w] EXCEPT !.plan = PlanAgain(job[w])]))
  /\ UNCHANGED <<now, registry, live, files, restores, stale, revived>>

(***************************************************************************)
(* The next service of the plan: its file is opened.                       *)
(***************************************************************************)
InDump(f) == {i \in Items : f.items[i] # NoValue}

(* --clean and --drop; a mutant first that dumps without them.             *)
DropsNothing(f) == {}
Drops(f) == IF f.svc \in {"postgres", "mongodb"} THEN InDump(f) ELSE {}

(* mirror --remove goes over every object; mongorestore --nsInclude skips  *)
(* the collections of another app.                                         *)
Fills(j, f) ==
  CASE f.svc = "aistor"                       -> Items
    [] f.svc = "mongodb" /\ f.app # j.app     -> {}
    [] OTHER                                  -> InDump(f)

Opened(j, f) ==
  [j EXCEPT !.pc = IF f.svc = "aistor" THEN "make" ELSE "apply", !.file = f,
            !.plan = @ \ {Name(f)}, !.before = live[Target(j, f)][f.svc].items,
            !.drop = Drops(f) \cap Fills(j, f), !.fill = Fills(j, f)]

OpenFile(w) ==
  /\ job[w].pc = "next"
  /\ \E f \in files : Name(f) \in job[w].plan /\ Goto(w, Opened(job[w], f))
  /\ UNCHANGED <<now, registry, live, files, restores, stale, revived>>

(* The web page restores a file of the app's directory, the command line   *)
(* any path, so the file may be another app's.                             *)
MayName(w, a, f) == w \in CommandLine \/ f.app = a

(* RestoreFromFile: the app must be registered, not the service.           *)
RestoreFromFile(w) ==
  \E a \in Apps, f \in files :
    LET j == Opened([Idle EXCEPT !.app = a], f)
    IN  /\ job[w].pc = "idle" /\ restores < MaxRestores /\ Registered(a)
        /\ MayName(w, a, f)
        /\ restores' = restores + 1
        /\ Goto(w, j)
        /\ revived' = revived \cup {p \in Pending(j) : registry[p[1]][p[2]] = 0}
        /\ UNCHANGED <<now, registry, live, files, stale>>

(* The container is not running, or the file is gone: the next service.    *)
SkipService(w) ==
  /\ job[w].pc = "next"
  /\ \E n \in job[w].plan : Goto(w, Continue([job[w] EXCEPT !.plan = @ \ {n}]))
  /\ UNCHANGED <<now, registry, live, files, restores, stale, revived>>

(***************************************************************************)
(* The commands.  Each changes one item of the subject.                    *)
(***************************************************************************)
Put(w, values, j) ==
  LET a == Subject(job[w])
      s == job[w].file.svc
  IN  /\ live' = [live EXCEPT ![a][s] = values]
      /\ job' = [Disturbed(a, s) EXCEPT ![w] = j]
      /\ UNCHANGED <<now, registry, files, restores, revived>>

Here(w) == live[Subject(job[w])][job[w].file.svc]

(* mc mb --ignore-existing, once tar has extracted the whole file.         *)
MakeBucket(w) ==
  /\ job[w].pc = "make" /\ job[w].file.body = "whole"
  /\ Put(w, [Here(w) EXCEPT !.store = TRUE], [job[w] EXCEPT !.pc = "apply"])
  /\ UNCHANGED stale

(* postgres and aistor need their database or bucket, mirror the directory *)
(* of the app in the archive; redis and rabbitmq parse the file first.     *)
ParsesAnything(f) == TRUE                                               \* mutant
Parses(f) == f.svc \in {"redis", "rabbitmq"} => f.body = "whole"

Reachable(w) ==
  LET f == job[w].file
  IN  /\ job[w].pc = "apply"
      /\ f.svc \in {"postgres", "aistor"} => Here(w).store
      /\ f.svc = "aistor" => f.app = job[w].app
      /\ Parses(f)

(* psql runs without ON_ERROR_STOP: when the server refuses a statement,   *)
(* the DROP of a table a view depends on, say, psql goes on.               *)
Dropped(s, v) == IF s = "postgres" THEN {NoValue, v} ELSE {NoValue}

Drop(w) ==
  /\ Reachable(w)
  /\ \E i \in job[w].drop :
       \E v \in Dropped(job[w].file.svc, Here(w).items[i]) :
         Put(w, [Here(w) EXCEPT !.items[i] = v], [job[w] EXCEPT !.drop = @ \ {i}])
  /\ UNCHANGED stale

(* What an item may be after its commands.  SET replaces, RPUSH appends,   *)
(* SADD adds; redis-cli runs without -e and reports no error reply (a key  *)
(* of another type, no memory left), so each may do nothing.  COPY and the *)
(* inserts of mongorestore add to what is there, or are refused.           *)
Written(i, v, d) ==
  CASE RedisType[i] = "list"   -> Both(v, d)
    [] RedisType[i] = "set"    -> Union(v, d)
    [] RedisType[i] = "string" -> d

Filled(s, i, v, d) ==
  CASE s = "redis"                       -> {v, Written(i, v, d)}
    [] s = "postgres"                    -> {v, Both(v, d)}
    [] s = "mongodb" /\ v # NoValue      -> {v, Both(v, d)}
    [] OTHER                             -> {d}

(* psql runs the file in order: every DROP comes before the first CREATE.  *)
Fill(w) ==
  LET f == job[w].file
  IN  /\ Reachable(w) /\ f.svc # "rabbitmq"
      /\ f.svc = "postgres" => job[w].drop = {}
      /\ \E i \in job[w].fill \ job[w].drop :
           \E v \in Filled(f.svc, i, Here(w).items[i], f.items[i]) :
             Put(w, [Here(w) EXCEPT !.items[i] = v], [job[w] EXCEPT !.fill = @ \ {i}])
      /\ UNCHANGED stale

(* import_definitions: the vhost, the user with the password it had, the   *)
(* permissions, and the definitions, where one of the same name may stay.  *)
OfEarlierLife(f) == f.suspect \/ f.ts < registry[f.app]["rabbitmq"]

Import(w) ==
  LET f == job[w].file
  IN  /\ Reachable(w) /\ f.svc = "rabbitmq"
      /\ \E kept \in SUBSET (InDump(f) \ Absent(Here(w).items)) :
           Put(w, [store |-> TRUE, secret |-> f.secret,
                   items |-> [i \in Items |-> IF i \in InDump(f) \ kept THEN f.items[i]
                                              ELSE Here(w).items[i]]],
                  [job[w] EXCEPT !.pc = "restored", !.fill = {}])
      /\ stale' = IF OfEarlierLife(f) THEN stale \cup {f.app} ELSE stale

(***************************************************************************)
(* Success is reported when the last command returns; for psql and         *)
(* redis-cli that says that everything was tried, not that it was done.    *)
(* psql reports it at the end of half a file too, whatever statement that  *)
(* is; redis does nothing for an empty file, and says so of no other half. *)
(***************************************************************************)
Succeeds(w) ==
  LET j == job[w]
  IN  /\ j.pc = "apply" /\ j.file.svc # "rabbitmq"
      /\ \/ j.file.body = "whole" /\ j.fill = {} /\ j.drop = {} /\ Reachable(w)
         \/ j.file.body # "whole" /\ j.file.svc = "postgres" /\ Reachable(w)
         \/ j.file.body # "whole" /\ j.file.svc = "redis"
      /\ Goto(w, [j EXCEPT !.pc = "restored"])
      /\ UNCHANGED <<now, registry, live, files, restores, stale, revived>>

(* A command or grantPermissions fails, or the file is not what it should  *)
(* be: RestoreApp reports it and goes on with the next service.            *)
RestoreFails(w) ==
  /\ Applying(job[w])
  /\ Goto(w, Continue(job[w]))
  /\ UNCHANGED <<now, registry, live, files, restores, stale, revived>>

Restored(w) ==
  /\ job[w].pc = "restored"
  /\ Goto(w, Continue(job[w]))
  /\ UNCHANGED <<now, registry, live, files, restores, stale, revived>>

(* The answer to the prompt is no, or the process is killed with services  *)
(* left to restore (with none left RestoreFails has the same effect).      *)
Stop(w) ==
  /\ job[w].pc = "prompt" \/ job[w].plan # {}
  /\ Goto(w, Idle)
  /\ UNCHANGED <<now, registry, live, files, restores, stale, revived>>

Next ==
  \/ SetupApp \/ RemoveApp \/ Reconcile \/ AppWrites
  \/ OpenDump \/ CloseDump \/ DumpFails \/ DumpKilled \/ DeleteFile
  \/ \E w \in Workers :
       \/ ShowPlan(w) \/ Confirm(w) \/ RestoreFromFile(w) \/ OpenFile(w) \/ SkipService(w)
       \/ MakeBucket(w) \/ Drop(w) \/ Fill(w) \/ Import(w) \/ Succeeds(w)
       \/ RestoreFails(w) \/ Restored(w) \/ Stop(w)

Spec == Init /\ [][Next]_vars

-----------------------------------------------------------------------------
(* Types, and what a restore holds in each of its states.                  *)
TypeOK ==
  /\ now \in Time
  /\ registry \in [Apps -> [Services -> Time]]
  /\ live \in [Apps -> [Services -> Data]]
  /\ files \subseteq File
  /\ job \in [Workers -> Job]
  /\ restores \in 0..MaxRestores
  /\ stale \subseteq Apps
  /\ revived \subseteq Apps \X Services
  /\ \A w \in Workers :
       /\ job[w].pc = "next" => job[w].plan # {}
       /\ job[w].app = NoApp => job[w].pc = "idle" /\ job[w].plan = {}
       /\ job[w].file # NoFile <=> Applying(job[w]) \/ job[w].pc = "restored"

(***************************************************************************)
(* What a restore promises, as if it were one step: the items after it,    *)
(* from those before it and the file's.  "--drop replaces each collection  *)
(* in the archive" (mongodb.go), "the bucket reflects the snapshot         *)
(* exactly" (aistor.go); items that are not in the dump stay, but for      *)
(* aistor's.  Of those in it, redis replaces a string, adds to a set and   *)
(* appends to a list, or leaves it as it was; a table of postgres may be   *)
(* restored, left as it was, lost, or have both contents.                  *)
(***************************************************************************)
Snapshot(s, i, v, d) ==
  IF s = "aistor" THEN {d}
  ELSE IF d = NoValue THEN {v}
  ELSE CASE s = "rabbitmq" /\ v # NoValue -> {v, d}
         [] s = "redis" -> {v, Written(i, v, d)}
         [] s = "postgres" -> {v, NoValue, d, Both(v, d)}
         [] OTHER -> {d}

(***************************************************************************)
(* A restore of a whole file that reports success, and whose data nobody   *)
(* else touched meanwhile, has the effect of that one step, whatever an    *)
(* earlier restore that failed or was killed part-way had left.  mongodb   *)
(* and aistor then hold what the file holds; a list of redis shows that it *)
(* was tried before; for postgres and redis, whose clients report success  *)
(* after statements that failed, it says how far off an item can be, and   *)
(* that no other item is touched.  mongodb takes nothing of another app's  *)
(* file.                                                                   *)
(***************************************************************************)
RestoreDelivers ==
  \A w \in Workers :
    LET j == job[w]
        f == j.file
    IN  j.pc = "restored" /\ j.quiet /\ f.body = "whole" /\ (f.svc = "mongodb" => f.app = j.app)
        => \A i \in Items :
             live[Subject(j)][f.svc].items[i] \in Snapshot(f.svc, i, j.before[i], f.items[i])

(***************************************************************************)
(* Half a file, one that a backup is writing or that a killed one left, is *)
(* not reported as restored: redis does so when it is empty, having        *)
(* changed nothing, and only psql when it has run half of it.              *)
(***************************************************************************)
HalfIsNoSuccess ==
  \A w \in Workers :
    LET j == job[w]
    IN  j.pc = "restored" /\ j.file.body # "whole" /\ j.file.svc # "postgres"
        => /\ j.file.svc = "redis"
           /\ j.quiet => live[Subject(j)]["redis"].items = j.before

(***************************************************************************)
(* The credentials of a registered app work, whatever is restored: only    *)
(* the definitions of an earlier life of the app, removed and set up again *)
(* since, replace its account, and the next reconcile repairs that.        *)
(***************************************************************************)
RegisteredUsable ==
  \A a \in Apps, s \in Services :
    registry[a][s] # 0 /\ ~(s = "rabbitmq" /\ a \in stale) => Usable(a, s)

(***************************************************************************)
(* Restoring gives nothing back to an app that was removed, not even after *)
(* its plan was shown: only to one removed while its restore is at work,   *)
(* or to one named by the file of a restore asked for another app.         *)
(***************************************************************************)
NothingAfterRemoval ==
  \A a \in Apps, s \in Services :
    registry[a][s] = 0 /\ <<a, s>> \notin revived => live[a][s] = Blank

(***************************************************************************)
(* "PlanRestore computes which backup files would be applied": the plan    *)
(* computed again after the prompt differs from the one shown only by what *)
(* was backed up, set up or deleted meanwhile, and no file it leaves aside *)
(* for an older one was there when the plan was shown.                     *)
(***************************************************************************)
Deleted(n) == \A f \in files : Name(f) # n

PlanKept ==
  [][\A w \in Workers : LET j == job[w] IN
       j.pc = "prompt" /\ job'[w].pc = "next" =>
         \A m \in job'[w].plan :
           /\ \/ m \in j.shown \/ m.ts > j.since \/ registry[m.app][m.svc] > j.since
              \/ \E n \in j.shown : n.svc = m.svc /\ Deleted(n)
           /\ \A f \in files : f.app = m.app /\ f.svc = m.svc /\ f.ts <= j.since
                               => f.ts <= m.ts]_vars

=============================================================================
