-------------------------- MODULE BackupStoreProofs --------------------------
(***************************************************************************)
(* For any apps, services, jobs and retentions, however jobs interleave,   *)
(* fail or are killed: the invariants of BackupStore and its action        *)
(* property.                                                               *)
(***************************************************************************)
EXTENDS BackupStore, TLAPS, FiniteSetTheorems

(***************************************************************************)
(* The inductive invariant.  A job is at a statement its kind has, with    *)
(* the files that statement uses.                                          *)
(***************************************************************************)
Placed(j) ==
  /\ j.pc \in {"writing", "put"} => \E f \in File : j.file = {f}
  /\ j.pc \in {"dump", "writing", "prune", "remove"} => j.kind \in BackupKinds
  /\ j.pc \in {"upload", "put"} => j.kind \in BackupKinds \cup {"sync"}
  /\ j.pc \in {"upload", "put", "unmirror"} => S3
  /\ j.kind # "scheduled" => j.keep = KeepAll
  /\ j.pc = "put" => j.seen # "none" /\ j.file \subseteq j.send
  /\ j.pc \in {"upload", "put"} /\ j.kind # "sync" => j.send \subseteq j.out

Types == TypeOK /\ \A w \in Workers : Placed(job[w])

(* A file is open in no job but one that is writing it.                    *)
Writes(j, f) == j.pc = "writing" /\ f \in j.file

WritersWrite ==
  \A f \in File :
    /\ \A w \in local[f].writers : Writes(job[w], f)
    /\ local[f].body = "absent" => local[f].writers = {}

(* Without a clash a name belongs to one backup: nobody else has produced  *)
(* it or writes it, and what was dropped does not come back.               *)
Dropped(j, f) == f \in j.pruned \/ (j.pc = "unmirror" /\ f \in j.send)

NameOf(w, f) ==
  /\ Writes(job[w], f) =>
       /\ local[f].body = "absent" \/ (local[f].body = "partial" /\ local[f].writers = {w})
       /\ \A v \in Workers : f \notin job[v].out /\ (Writes(job[v], f) => v = w)
  /\ f \in job[w].out => local[f].body \in {"absent", "whole"}
  /\ Dropped(job[w], f) => local[f].body = "absent"

Names == "clash" \notin incidents => \A w \in Workers, f \in File : NameOf(w, f)

(* A file is half written only while its writer lives.                     *)
Bodies ==
  incidents \cap {"kill", "clash"} = {} =>
    \A f \in File :
      \/ local[f].writers = {} /\ local[f].body \in {"absent", "whole"}
      \/ local[f].body = "partial" /\ \E w \in Workers : local[f].writers = {w}

(* The jobs that may be under way together after no such incident.         *)
Busily(w) == job[w].pc # "idle"
Backs(w) == Busily(w) /\ job[w].kind \in BackupKinds

Company ==
  \A v, w \in Workers :
    /\ "overlap" \notin incidents /\ Backs(v) /\ Backs(w) => v = w
    /\ "mix" \notin incidents => ~(Backs(v) /\ Busily(w) /\ job[w].kind = "sync")
    /\ incidents \cap {"overlap", "mix", "stray delete"} = {} /\ Busily(v) /\ Busily(w) => v = w

(* Of the files of an app's service one that is whole is not doomed.       *)
Spared ==
  incidents \cap {"kill", "delete", "stray delete", "overlap", "clash"} = {} =>
    \A w \in Workers : job[w].pc = "remove" /\ job[w].keep.days = 0 =>
      \A f \in job[w].doomed :
        \E g \in Group(f.app, f.svc) : g \notin job[w].doomed /\ local[g].body = "whole"

(* What is left once the doomed files are gone meets the quota.            *)
Quota ==
  "overlap" \notin incidents =>
    \A w \in Workers : job[w].pc = "remove" /\ job[w].keep.count > 0 =>
      \A app \in Apps, svc \in Services :
        Cardinality((Group(app, svc) \cap InScope(job[w])) \ job[w].doomed) <= job[w].keep.count

(* What a run produced and has uploaded is whole in the bucket, and what   *)
(* it has opened to upload is whole.                                       *)
Sent(j) ==
  CASE j.pc \in {"prune", "remove"} -> j.out
    [] j.pc \in {"upload", "put"} -> j.out \ j.send
    [] OTHER -> {}

Mirrored ==
  S3 /\ incidents \cap {"mix", "clash"} = {} =>
    \A w \in Workers : job[w].kind # "sync" =>
      /\ \A f \in Sent(job[w]) : local[f].body # "absent" => remote[f] = "whole"
      /\ job[w].pc = "put" => job[w].seen = "whole"

(* The bucket has lost what the directory has, or a job is about to see to *)
(* it; a name being written is new to the bucket.                          *)
NoBucket == ~S3 => \A f \in File : remote[f] = "absent"

ToUnmirror(j, f) ==
  \/ j.pc = "remove" /\ f \in j.pruned
  \/ j.pc = "unmirror" /\ f \in j.send

Following ==
  incidents \cap {"stray delete", "overlap", "clash", "mix", "unmirrored"} = {} =>
    \A f \in File :
      /\ remote[f] # "absent" /\ local[f].body = "absent" =>
           \E w \in Workers : ToUnmirror(job[w], f)
      /\ \A w \in Workers :
           /\ Writes(job[w], f) => remote[f] = "absent"
           /\ job[w].pc = "put" /\ f \in job[w].file => local[f].body # "absent"

Keeping ==
  /\ Types /\ WritersWrite /\ Names /\ Bodies /\ Company
  /\ Spared /\ Quota /\ Mirrored /\ NoBucket /\ Following

-----------------------------------------------------------------------------
(* A job that ends is idle; one that starts has nothing yet.               *)
LEMMA IdleJob == Idle \in Job /\ Placed(Idle) /\ Idle.file = {}
BY DEF Idle, Job, Placed, AllKinds, BackupKinds, KeepAll, Retention

LEMMA GroupFile ==
  /\ \A app, svc : Group(app, svc) \subseteq File
  /\ \A f \in File : f \in Group(f.app, f.svc) /\ f.app \in Apps /\ f.svc \in Services
BY DEF Group, File

(* The files of an app's service, one for each second, are finitely many.  *)
LEMMA GroupFinite ==
  ASSUME NEW app, NEW svc
  PROVE  IsFiniteSet(Group(app, svc))
<1> DEFINE at == [f \in Group(app, svc) |-> f.ts]
<1>1. at \in Injection(Group(app, svc), Time)
  <2>1. at \in [Group(app, svc) -> Time]
    BY DEF Group, File
  <2>2. ASSUME NEW f \in Group(app, svc), NEW g \in Group(app, svc), at[f] = at[g]
        PROVE  f = g
    BY <2>2 DEF Group, File
  <2> QED
    BY <2>1, <2>2 DEF Injection, IsInjective
<1>2. IsFiniteSet(Time)
  BY TimeAssumption, FS_Interval DEF Time
<1> QED
  BY <1>1, <1>2, FS_Injection

(* A step of a job moves that job alone.                                   *)
LEMMA GotoJob ==
  ASSUME TypeOK, NEW w \in Workers, NEW j, Goto(w, j)
  PROVE  job'[w] = j /\ \A v \in Workers : v # w => job'[v] = job[v]
BY DEF Goto, TypeOK

LEMMA GotoTypes ==
  ASSUME Types, NEW w \in Workers, NEW j \in Job, Goto(w, j),
         j.file # {} <=> j.pc \in {"writing", "put"}, Placed(j),
         local' \in [File -> Content],
         remote' \in [File -> {"absent", "partial", "mixed", "whole"}],
         now' = now,
         incidents' \subseteq {"kill", "delete", "stray delete", "overlap", "clash", "mix", "unmirrored"}
  PROVE  Types'
<1>1. job' \in [Workers -> Job] /\ now' \in Time
  BY DEF Types, TypeOK, Goto
<1>2. ASSUME NEW v \in Workers
      PROVE  Placed(job'[v]) /\ (job'[v].file # {} <=> job'[v].pc \in {"writing", "put"})
  <2>1. job'[v] = j \/ job'[v] = job[v]
    BY GotoJob DEF Types
  <2> QED
    BY <2>1 DEF Types, TypeOK
<1> QED
  BY <1>1, <1>2 DEF Types, TypeOK

-----------------------------------------------------------------------------
(* What each step does to its job, the types included.                     *)
Incidents == {"kill", "delete", "stray delete", "overlap", "clash", "mix", "unmirrored"}

StoresTyped ==
  /\ local' \in [File -> Content]
  /\ remote' \in [File -> {"absent", "partial", "mixed", "whole"}]
  /\ now' = now
  /\ incidents \subseteq incidents' /\ incidents' \subseteq Incidents

Moves(w) ==
  /\ Types'
  /\ \A v \in Workers : v # w => job'[v] = job[v]
  /\ incidents \subseteq incidents'

LEMMA MovesTo ==
  ASSUME Types, NEW w \in Workers, NEW j \in Job, Goto(w, j), Placed(j),
         j.file # {} <=> j.pc \in {"writing", "put"}, StoresTyped
  PROVE  Moves(w) /\ job'[w] = j
<1>1. Types'
  BY GotoTypes DEF Incidents, StoresTyped
<1>2. job'[w] = j /\ \A v \in Workers : v # w => job'[v] = job[v]
  BY GotoJob DEF Types
<1> QED
  BY <1>1, <1>2 DEF Moves, StoresTyped

LEMMA MovesToIdle ==
  ASSUME Types, NEW w \in Workers, End(w), StoresTyped
  PROVE  Moves(w) /\ job'[w] = Idle
<1>1. Idle.file # {} <=> Idle.pc \in {"writing", "put"}
  BY DEF Idle
<1> QED
  BY <1>1, IdleJob, MovesTo DEF End

LEMMA QuietTyped ==
  ASSUME Types, UNCHANGED <<now, local, remote>>, incidents \subseteq incidents',
         incidents' \subseteq Incidents
  PROVE  StoresTyped
BY DEF StoresTyped, Types, TypeOK

LEMMA KnownIncidents == Types => incidents \subseteq Incidents
BY DEF Types, TypeOK, Incidents

LEMMA NoteIncidents ==
  ASSUME Types, NEW tags \in SUBSET Incidents, Note(tags)
  PROVE  /\ incidents' = incidents \cup tags
         /\ incidents \subseteq incidents' /\ incidents' \subseteq Incidents
BY DEF Note, Types, TypeOK, Incidents

LEMMA BeginBackupEffect ==
  ASSUME Types, NEW w \in Workers, BeginBackup(w)
  PROVE  /\ Moves(w)
         /\ job'[w].pc = "dump" /\ job'[w].kind \in BackupKinds
         /\ job'[w].out = {} /\ job'[w].file = {} /\ job'[w].pruned = {}
         /\ Meeting(job'[w].kind) \subseteq incidents'
         /\ job[w].pc = "idle"
         /\ UNCHANGED <<local, remote>>
<1>1. PICK kind \in Kinds[w] \cap BackupKinds, all \in BOOLEAN, app \in Apps,
           svcs \in {{}} \cup {{s} : s \in Services}, keep \in Retentions :
        /\ job[w].pc = "idle"
        /\ Goto(w, [Idle EXCEPT !.pc = "dump", !.kind = kind, !.all = all,
                                !.target = IF all THEN Apps ELSE {app},
                                !.apps = IF all THEN Apps ELSE {app}, !.svcs = svcs,
                                !.keep = IF kind = "scheduled" THEN keep ELSE KeepAll])
        /\ Note(Meeting(kind))
        /\ UNCHANGED <<now, local, remote>>
  BY DEF BeginBackup
<1> DEFINE apps == IF all THEN Apps ELSE {app}
           kept == IF kind = "scheduled" THEN keep ELSE KeepAll
           j == [Idle EXCEPT !.pc = "dump", !.kind = kind, !.all = all, !.target = apps,
                             !.apps = apps, !.svcs = svcs, !.keep = kept]
<1>2. apps \in SUBSET Apps /\ kept \in Retention /\ (kind # "scheduled" => kept = KeepAll)
  BY DEF Retention
<1>3. kind \in BackupKinds /\ svcs \in SUBSET Services
  OBVIOUS
<1> HIDE DEF apps, kept
<1>4. j \in Job
  BY <1>2, <1>3, IdleJob DEF Job, Idle, AllKinds
<1>5. j.pc = "dump" /\ j.kind = kind /\ j.out = {} /\ j.file = {} /\ j.pruned = {} /\ j.keep = kept
  BY DEF Idle
<1> HIDE DEF j
<1>6. Placed(j)
  BY <1>2, <1>3, <1>5 DEF Placed
<1>7. Meeting(kind) \in SUBSET Incidents
  BY DEF Meeting, Incidents
<1>8. Goto(w, j)
  BY <1>1 DEF j, apps, kept
<1>9. Moves(w) /\ job'[w] = j
  BY <1>1, <1>4, <1>5, <1>6, <1>7, <1>8, NoteIncidents, QuietTyped, MovesTo
<1> QED
  BY <1>1, <1>3, <1>5, <1>7, <1>9, NoteIncidents

LEMMA BeginSyncEffect ==
  ASSUME Types, NEW w \in Workers, BeginSync(w)
  PROVE  /\ Moves(w)
         /\ job'[w].pc = "upload" /\ job'[w].kind = "sync"
         /\ job'[w].out = {} /\ job'[w].file = {} /\ job'[w].pruned = {}
         /\ Meeting("sync") \subseteq incidents'
         /\ job[w].pc = "idle"
         /\ UNCHANGED <<local, remote>>
<1> DEFINE j == [Idle EXCEPT !.pc = "upload", !.kind = "sync", !.send = Present(local)]
<1>1. j \in Job
  BY IdleJob DEF Job, Idle, AllKinds, Present
<1>2. /\ j.pc = "upload" /\ j.kind = "sync" /\ j.out = {} /\ j.file = {} /\ j.pruned = {}
      /\ Placed(j)
  BY DEF Idle, BeginSync, Placed
<1>3. Goto(w, j) /\ Note(Meeting("sync")) /\ UNCHANGED <<now, local, remote>>
  BY DEF BeginSync
<1> HIDE DEF j
<1>4. Meeting("sync") \in SUBSET Incidents
  BY DEF Meeting, Incidents
<1>5. Moves(w) /\ job'[w] = j
  BY <1>1, <1>2, <1>3, <1>4, NoteIncidents, QuietTyped, MovesTo
<1> QED
  BY <1>2, <1>3, <1>4, <1>5, NoteIncidents DEF BeginSync

(* A backup that turns to its next app or leaves one or a service out.     *)
LEMMA DumpEffect ==
  ASSUME Types, NEW w \in Workers, NextApp(w) \/ AppFails(w) \/ Skip(w)
  PROVE  /\ Moves(w)
         /\ \/ job'[w] = Idle
            \/ /\ job[w].pc = "dump" /\ job'[w].pc = "dump"
               /\ job'[w].kind = job[w].kind /\ job'[w].out = job[w].out
               /\ job'[w].file = job[w].file /\ job'[w].pruned = job[w].pruned
         /\ UNCHANGED <<local, remote, incidents>>
<1>0. job[w] \in Job /\ Placed(job[w]) /\ (job[w].file # {} <=> job[w].pc \in {"writing", "put"})
  BY DEF Types, TypeOK
<1>1. UNCHANGED <<now, local, remote, incidents>> /\ job[w].pc = "dump"
  BY DEF NextApp, AppFails, Skip
<1>5. StoresTyped
  BY <1>1, KnownIncidents, QuietTyped
<1>2. \/ Goto(w, Idle)
      \/ \E apps \in SUBSET Apps, todo \in SUBSET File :
           Goto(w, [job[w] EXCEPT !.apps = apps, !.todo = todo])
  <2>1. CASE NextApp(w)
    <3>1. PICK app \in job[w].apps :
            Goto(w, [job[w] EXCEPT
               !.apps = @ \ {app},
               !.todo = {[app |-> app, svc |-> s, ts |-> now] : s \in Chosen(app, job[w].svcs)}])
      BY <2>1 DEF NextApp
    <3> DEFINE todo == {[app |-> app, svc |-> s, ts |-> now] : s \in Chosen(app, job[w].svcs)}
               apps == job[w].apps \ {app}
    <3>2. app \in Apps /\ apps \in SUBSET Apps
      BY <1>0 DEF Job
    <3>3. todo \in SUBSET File
      BY <3>2, HasAssumption DEF Chosen, File, Types, TypeOK
    <3>4. Goto(w, [job[w] EXCEPT !.apps = apps, !.todo = todo])
      BY <3>1, <1>0 DEF Job
    <3> QED
      BY <3>2, <3>3, <3>4
  <2>2. CASE AppFails(w)
    <3>1. PICK app \in job[w].apps : Goto(w, [job[w] EXCEPT !.apps = @ \ {app}]) \/ End(w)
      BY <2>2 DEF AppFails
    <3>2. job[w].apps \ {app} \in SUBSET Apps /\ job[w].todo \in SUBSET File
      BY <1>0 DEF Job
    <3>3. [job[w] EXCEPT !.apps = @ \ {app}]
            = [job[w] EXCEPT !.apps = job[w].apps \ {app}, !.todo = job[w].todo]
      BY <1>0 DEF Job
    <3> QED
      BY <3>1, <3>2, <3>3 DEF End
  <2>3. CASE Skip(w)
    <3>1. PICK f \in job[w].todo : Goto(w, [job[w] EXCEPT !.todo = @ \ {f}])
      BY <2>3 DEF Skip
    <3>2. job[w].apps \in SUBSET Apps /\ job[w].todo \ {f} \in SUBSET File
      BY <1>0 DEF Job
    <3>3. [job[w] EXCEPT !.todo = @ \ {f}]
            = [job[w] EXCEPT !.apps = job[w].apps, !.todo = job[w].todo \ {f}]
      BY <1>0 DEF Job
    <3> QED
      BY <3>1, <3>2, <3>3
  <2> QED
    BY <2>1, <2>2, <2>3
<1>3. CASE Goto(w, Idle)
  BY <1>1, <1>3, <1>5, MovesToIdle DEF End
<1>4. ASSUME NEW apps \in SUBSET Apps, NEW todo \in SUBSET File,
             Goto(w, [job[w] EXCEPT !.apps = apps, !.todo = todo])
      PROVE  /\ Moves(w)
             /\ job'[w].pc = "dump" /\ job'[w].kind = job[w].kind /\ job'[w].out = job[w].out
             /\ job'[w].file = job[w].file /\ job'[w].pruned = job[w].pruned
  <2> DEFINE j == [job[w] EXCEPT !.apps = apps, !.todo = todo]
  <2>1. j \in Job
    BY <1>0 DEF Job
  <2>2. /\ j.pc = job[w].pc /\ j.kind = job[w].kind /\ j.keep = job[w].keep /\ j.out = job[w].out
        /\ j.file = job[w].file /\ j.pruned = job[w].pruned
    BY <1>0 DEF Job
  <2> HIDE DEF j
  <2>3. Placed(j)
    BY <1>0, <1>1, <2>2 DEF Placed
  <2>4. Goto(w, j)
    BY <1>4 DEF j
  <2>5. Moves(w) /\ job'[w] = j
    <3>1. j.file # {} <=> j.pc \in {"writing", "put"}
      BY <1>0, <2>2
    <3> QED
      BY <1>5, <2>1, <2>3, <2>4, <3>1, MovesTo
  <2> QED
    BY <1>1, <2>2, <2>5
<1> QED
  BY <1>1, <1>2, <1>3, <1>4

(* A run that is done with its dumps, its uploads or its removals.         *)
LEMMA DumpsDoneEffect ==
  ASSUME Types, NEW w \in Workers, DumpsDone(w)
  PROVE  /\ Moves(w)
         /\ job[w].pc = "dump"
         /\ \/ job'[w] = Idle
            \/ /\ job'[w].kind = job[w].kind /\ job'[w].out = job[w].out
               /\ job'[w].file = job[w].file /\ job'[w].pruned = job[w].pruned
               /\ \/ job'[w].pc = "prune" /\ (S3 => job[w].out = {})
                  \/ job'[w].pc = "upload" /\ job'[w].send = job[w].out
         /\ UNCHANGED <<local, remote, incidents>>
<1>0. job[w] \in Job /\ Placed(job[w]) /\ (job[w].file # {} <=> job[w].pc \in {"writing", "put"})
  BY DEF Types, TypeOK
<1>1. /\ UNCHANGED <<now, local, remote, incidents>> /\ job[w].pc = "dump"
      /\ Goto(w, AfterBackup([job[w] EXCEPT !.all = FALSE]))
  BY DEF DumpsDone
<1>2. StoresTyped
  BY <1>1, KnownIncidents, QuietTyped
<1>3. job[w].file = {} /\ job[w].kind \in BackupKinds
  BY <1>0, <1>1 DEF Placed
<1> DEFINE k == [job[w] EXCEPT !.all = FALSE]
<1>4. /\ k \in Job /\ k.pc = "dump" /\ k.kind = job[w].kind /\ k.out = job[w].out
      /\ k.file = job[w].file /\ k.pruned = job[w].pruned /\ k.keep = job[w].keep
  BY <1>0, <1>1 DEF Job
<1>5. Goto(w, AfterBackup(k))
  BY <1>1
<1> HIDE DEF k
<1>6. CASE AfterBackup(k) = Idle
  BY <1>1, <1>2, <1>5, <1>6, MovesToIdle DEF End
<1>7. CASE S3 /\ k.kind # "cli" /\ k.out # {}
  <2> DEFINE j == [k EXCEPT !.pc = "upload", !.send = k.out]
  <2>1. /\ j \in Job /\ j.pc = "upload" /\ j.send = k.out /\ j.kind = k.kind /\ j.out = k.out
        /\ j.file = k.file /\ j.pruned = k.pruned /\ j.keep = k.keep
    BY <1>4 DEF Job
  <2>2. Goto(w, j)
    BY <1>5, <1>7 DEF AfterBackup
  <2> HIDE DEF j
  <2>3. Placed(j)
    BY <1>0, <1>3, <1>4, <1>7, <2>1 DEF Placed
  <2>4. Moves(w) /\ job'[w] = j
    BY <1>2, <1>3, <1>4, <2>1, <2>2, <2>3, MovesTo
  <2> QED
    BY <1>1, <1>4, <2>1, <2>4
<1>8. CASE ~(S3 /\ k.kind # "cli" /\ k.out # {}) /\ k.keep # KeepAll
  <2> DEFINE j == [k EXCEPT !.pc = "prune"]
  <2>1. /\ j \in Job /\ j.pc = "prune" /\ j.kind = k.kind /\ j.out = k.out
        /\ j.file = k.file /\ j.pruned = k.pruned /\ j.keep = k.keep
    BY <1>4 DEF Job
  <2>2. Goto(w, j)
    BY <1>5, <1>8 DEF AfterBackup, AfterUpload
  <2> HIDE DEF j
  <2>3. Placed(j)
    BY <1>0, <1>3, <1>4, <1>8, <2>1 DEF Placed
  <2>4. Moves(w) /\ job'[w] = j
    BY <1>2, <1>3, <1>4, <2>1, <2>2, <2>3, MovesTo
  <2>5. S3 => job[w].out = {}
    BY <1>0, <1>4, <1>8 DEF Placed
  <2> QED
    BY <1>1, <1>4, <2>1, <2>4, <2>5
<1> QED
  BY <1>6, <1>7, <1>8 DEF AfterBackup, AfterUpload

LEMMA UploadsDoneEffect ==
  ASSUME Types, NEW w \in Workers, UploadsDone(w)
  PROVE  /\ Moves(w)
         /\ job[w].pc = "upload" /\ job[w].send = {}
         /\ \/ job'[w] = Idle
            \/ /\ job'[w].pc = "prune"
               /\ job'[w].kind = job[w].kind /\ job'[w].out = job[w].out
               /\ job'[w].file = job[w].file /\ job'[w].pruned = job[w].pruned
         /\ UNCHANGED <<local, remote, incidents>>
<1>0. job[w] \in Job /\ Placed(job[w]) /\ (job[w].file # {} <=> job[w].pc \in {"writing", "put"})
  BY DEF Types, TypeOK
<1>1. /\ UNCHANGED <<now, local, remote, incidents>> /\ job[w].pc = "upload" /\ job[w].send = {}
      /\ Goto(w, AfterUpload(job[w]))
  BY DEF UploadsDone
<1>2. StoresTyped
  BY <1>1, KnownIncidents, QuietTyped
<1>3. CASE job[w].keep = KeepAll
  BY <1>1, <1>2, <1>3, MovesToIdle DEF End, AfterUpload
<1>4. CASE job[w].keep # KeepAll
  <2> DEFINE j == [job[w] EXCEPT !.pc = "prune"]
  <2>1. /\ j \in Job /\ j.pc = "prune" /\ j.kind = job[w].kind /\ j.out = job[w].out
        /\ j.file = job[w].file /\ j.pruned = job[w].pruned /\ j.keep = job[w].keep
    BY <1>0 DEF Job
  <2>2. Goto(w, j)
    BY <1>1, <1>4 DEF AfterUpload
  <2> HIDE DEF j
  <2>3. Placed(j) /\ j.file = {}
    BY <1>0, <1>1, <1>4, <2>1 DEF Placed
  <2>4. Moves(w) /\ job'[w] = j
    BY <1>2, <2>1, <2>2, <2>3, MovesTo
  <2> QED
    BY <1>1, <2>1, <2>4
<1> QED
  BY <1>3, <1>4

LEMMA OpenUploadEffect ==
  ASSUME Types, NEW w \in Workers, OpenUpload(w)
  PROVE  /\ Moves(w)
         /\ job[w].pc = "upload" /\ job'[w].pc = "put"
         /\ job'[w].kind = job[w].kind /\ job'[w].out = job[w].out
         /\ job'[w].pruned = job[w].pruned /\ job'[w].send = job[w].send
         /\ \E f \in job[w].send \cap Present(local) :
              job'[w].file = {f} /\ job'[w].seen = local[f].body
         /\ UNCHANGED <<local, remote, incidents>>
<1>0. job[w] \in Job /\ Placed(job[w])
  BY DEF Types, TypeOK
<1>1. PICK f \in job[w].send \cap Present(local) :
        Goto(w, [job[w] EXCEPT !.pc = "put", !.file = {f}, !.seen = local[f].body])
  BY DEF OpenUpload
<1>2. UNCHANGED <<now, local, remote, incidents>> /\ job[w].pc = "upload"
  BY DEF OpenUpload
<1>3. f \in File /\ f \in job[w].send /\ local[f].body \in {"partial", "mixed", "whole"}
  BY DEF Present, Types, TypeOK, Content
<1> DEFINE j == [job[w] EXCEPT !.pc = "put", !.file = {f}, !.seen = local[f].body]
<1>4. /\ j \in Job /\ j.pc = "put" /\ j.kind = job[w].kind /\ j.out = job[w].out
      /\ j.file = {f} /\ j.seen = local[f].body /\ j.send = job[w].send
      /\ j.pruned = job[w].pruned /\ j.keep = job[w].keep
  BY <1>0, <1>3 DEF Job
<1>5. Goto(w, j)
  BY <1>1
<1> HIDE DEF j
<1>6. Placed(j)
  BY <1>0, <1>2, <1>3, <1>4 DEF Placed
<1>7. Moves(w) /\ job'[w] = j
  <2>1. StoresTyped
    BY <1>2, KnownIncidents, QuietTyped
  <2> QED
    BY <1>4, <1>5, <1>6, <2>1, MovesTo
<1> QED
  BY <1>1, <1>2, <1>4, <1>7

PruneTakes(w, kept, old) ==
  /\ job'[w].doomed = (InScope(job[w]) \ kept) \cup old
  /\ TooOld(InScope(job[w]), job[w].keep.days, old)
  /\ IF job[w].keep.count = 0 THEN kept = InScope(job[w])
     ELSE \A app \in Apps, svc \in Services :
            Newest(Group(app, svc) \cap InScope(job[w]), job[w].keep.count,
                   Group(app, svc) \cap kept)

LEMMA PruneEffect ==
  ASSUME Types, NEW w \in Workers, Prune(w)
  PROVE  /\ Moves(w)
         /\ job[w].pc = "prune" /\ job'[w].pc = "remove"
         /\ job'[w].kind = job[w].kind /\ job'[w].out = job[w].out /\ job'[w].file = job[w].file
         /\ job'[w].pruned = job[w].pruned /\ job'[w].keep = job[w].keep
         /\ job'[w].target = job[w].target /\ job'[w].svcs = job[w].svcs
         /\ \E kept, old \in SUBSET InScope(job[w]) : PruneTakes(w, kept, old)
         /\ UNCHANGED <<local, remote, incidents>>
<1>0. job[w] \in Job /\ Placed(job[w]) /\ (job[w].file # {} <=> job[w].pc \in {"writing", "put"})
  BY DEF Types, TypeOK
<1> DEFINE files == InScope(job[w])
           count == job[w].keep.count
           Kept(kept) == IF count = 0 THEN kept = files
                         ELSE \A app \in Apps, svc \in Services :
                                Newest(Group(app, svc) \cap files, count, Group(app, svc) \cap kept)
<1>1. PICK kept \in SUBSET files, old \in SUBSET files :
        /\ Kept(kept)
        /\ TooOld(files, job[w].keep.days, old)
        /\ Goto(w, [job[w] EXCEPT !.pc = "remove", !.doomed = (files \ kept) \cup old])
  BY DEF Prune
<1>2. UNCHANGED <<now, local, remote, incidents>> /\ job[w].pc = "prune"
  BY DEF Prune
<1>3. files \subseteq File
  BY DEF InScope, Present
<1> HIDE DEF files
<1> DEFINE doomed == (files \ kept) \cup old
           j == [job[w] EXCEPT !.pc = "remove", !.doomed = doomed]
<1>4. doomed \in SUBSET File
  BY <1>3
<1>5. Goto(w, j)
  BY <1>1
<1>6. /\ j \in Job /\ j.pc = "remove" /\ j.kind = job[w].kind /\ j.out = job[w].out
      /\ j.file = job[w].file /\ j.doomed = doomed /\ j.pruned = job[w].pruned
      /\ j.keep = job[w].keep /\ j.target = job[w].target /\ j.svcs = job[w].svcs
  <2> HIDE DEF doomed
  <2> QED
    BY <1>0, <1>4 DEF Job
<1> HIDE DEF j
<1>7. Placed(j)
  BY <1>0, <1>2, <1>6 DEF Placed
<1>8. Moves(w) /\ job'[w] = j
  <2>1. StoresTyped
    BY <1>2, KnownIncidents, QuietTyped
  <2>2. j.file # {} <=> j.pc \in {"writing", "put"}
    BY <1>0, <1>2, <1>6
  <2> QED
    BY <1>5, <1>6, <1>7, <2>1, <2>2, MovesTo
<1>9. job'[w].doomed = (files \ kept) \cup old
  BY <1>6, <1>8
<1> HIDE DEF doomed
<1>10. \E kp, od \in SUBSET files :
         /\ job'[w].doomed = (files \ kp) \cup od
         /\ TooOld(files, job[w].keep.days, od)
         /\ Kept(kp)
  BY <1>1, <1>9
<1> QED
  BY <1>2, <1>6, <1>8, <1>10 DEF files, PruneTakes

LEMMA RemoveFailsEffect ==
  ASSUME Types, NEW w \in Workers, RemoveFails(w)
  PROVE  /\ Moves(w) /\ job'[w] = Idle
         /\ job[w].pc = "remove" /\ Unmirrored(job[w].pruned) \subseteq incidents'
         /\ UNCHANGED <<local, remote>>
<1>1. /\ UNCHANGED <<now, local, remote>> /\ job[w].pc = "remove" /\ End(w)
      /\ Note(Unmirrored(job[w].pruned))
  BY DEF RemoveFails
<1>2. Unmirrored(job[w].pruned) \in SUBSET Incidents
  BY DEF Unmirrored, Incidents
<1> QED
  BY <1>1, <1>2, NoteIncidents, QuietTyped, MovesToIdle

LEMMA RemovesDoneEffect ==
  ASSUME Types, NEW w \in Workers, RemovesDone(w)
  PROVE  /\ Moves(w)
         /\ job[w].pc = "remove" /\ job[w].doomed = {}
         /\ \/ job'[w] = Idle /\ (S3 => job[w].pruned = {})
            \/ /\ job'[w].pc = "unmirror" /\ job'[w].send = job[w].pruned
               /\ job'[w].kind = job[w].kind /\ job'[w].out = job[w].out
               /\ job'[w].file = job[w].file /\ job'[w].pruned = job[w].pruned
         /\ UNCHANGED <<local, remote, incidents>>
<1>0. job[w] \in Job /\ Placed(job[w]) /\ (job[w].file # {} <=> job[w].pc \in {"writing", "put"})
  BY DEF Types, TypeOK
<1>1. /\ UNCHANGED <<now, local, remote, incidents>> /\ job[w].pc = "remove" /\ job[w].doomed = {}
      /\ Goto(w, AfterRemoves(job[w]))
  BY DEF RemovesDone
<1>2. StoresTyped
  BY <1>1, KnownIncidents, QuietTyped
<1>3. CASE ~(S3 /\ job[w].pruned # {})
  BY <1>1, <1>2, <1>3, MovesToIdle DEF End, AfterRemoves
<1>4. CASE S3 /\ job[w].pruned # {}
  <2> DEFINE j == [job[w] EXCEPT !.pc = "unmirror", !.send = job[w].pruned]
  <2>1. /\ j \in Job /\ j.pc = "unmirror" /\ j.kind = job[w].kind /\ j.out = job[w].out
        /\ j.file = job[w].file /\ j.pruned = job[w].pruned /\ j.keep = job[w].keep
        /\ j.send = job[w].pruned
    BY <1>0 DEF Job
  <2>2. Goto(w, j)
    BY <1>1, <1>4 DEF AfterRemoves
  <2> HIDE DEF j
  <2>3. Placed(j) /\ j.file = {}
    BY <1>0, <1>1, <1>4, <2>1 DEF Placed
  <2>4. Moves(w) /\ job'[w] = j
    BY <1>2, <2>1, <2>2, <2>3, MovesTo
  <2> QED
    BY <1>1, <2>1, <2>4
<1> QED
  BY <1>3, <1>4

-----------------------------------------------------------------------------
(* The steps that change the directory, file by file.                      *)
AtFile(f, c) == local'[f] = c /\ \A g \in File : g # f => local'[g] = local[g]

LEMMA AbsentContent == Absent \in Content /\ Absent.body = "absent" /\ Absent.writers = {}
BY TimeAssumption DEF Absent, Content, Time

LEMMA ContentAt ==
  ASSUME Types, NEW f \in File, NEW c \in Content, local' = [local EXCEPT ![f] = c]
  PROVE  AtFile(f, c) /\ local' \in [File -> Content]
BY DEF Types, TypeOK, AtFile

LEMMA LocalTyped ==
  ASSUME Types, local' \in [File -> Content], UNCHANGED <<now, remote>>,
         incidents \subseteq incidents', incidents' \subseteq Incidents
  PROVE  StoresTyped
BY DEF StoresTyped, Types, TypeOK

LEMMA DeleteByHandEffect ==
  ASSUME Types, NEW w \in Workers, DeleteByHand(w)
  PROVE  /\ Types' /\ (\A v \in Workers : v # w => job'[v] = job[v])
         /\ incidents \subseteq incidents' /\ UNCHANGED remote
         /\ job[w].pc = "idle"
         /\ "delete" \in incidents' \/ "stray delete" \in incidents'
         /\ \E f \in File :
              /\ AtFile(f, Absent)
              /\ \/ job'[w] = job[w] /\ (S3 => "stray delete" \in incidents')
                 \/ /\ job'[w].pc = "unmirror" /\ job'[w].send = {f} /\ job'[w].kind = "delete"
                    /\ job'[w].out = {} /\ job'[w].file = {} /\ job'[w].pruned = {}
         /\ Busy(AllKinds) # {} => "stray delete" \in incidents'
<1>1. PICK kind \in Kinds[w] \cap {"delete", "cli delete"}, f \in Present(local) :
        /\ local' = [local EXCEPT ![f] = Absent]
        /\ IF kind = "delete" /\ S3
           THEN Goto(w, [Idle EXCEPT !.pc = "unmirror", !.kind = kind, !.send = {f}])
           ELSE UNCHANGED job
        /\ Note(IF kind = "delete" /\ Busy(AllKinds) = {} THEN {"delete"} ELSE {"stray delete"})
        /\ UNCHANGED <<now, remote>>
  BY DEF DeleteByHand
<1> DEFINE tags == IF kind = "delete" /\ Busy(AllKinds) = {} THEN {"delete"} ELSE {"stray delete"}
<1>2. f \in File /\ job[w].pc = "idle"
  BY DEF DeleteByHand, Present
<1>3. AtFile(f, Absent) /\ local' \in [File -> Content]
  BY <1>1, <1>2, AbsentContent, ContentAt
<1>4. /\ incidents' = incidents \cup tags
      /\ incidents \subseteq incidents' /\ incidents' \subseteq Incidents
  <2>1. tags \in SUBSET Incidents
    BY DEF Incidents
  <2>2. Note(tags)
    BY <1>1
  <2> HIDE DEF tags
  <2> QED
    BY <2>1, <2>2, NoteIncidents
<1>5. StoresTyped
  <2> HIDE DEF tags
  <2> QED
    BY <1>1, <1>3, <1>4, LocalTyped
<1>6. CASE kind = "delete" /\ S3
  <2> DEFINE j == [Idle EXCEPT !.pc = "unmirror", !.kind = kind, !.send = {f}]
  <2>1. /\ j \in Job /\ j.pc = "unmirror" /\ j.send = {f} /\ j.kind = "delete" /\ j.out = {}
        /\ j.file = {} /\ j.pruned = {} /\ j.keep = KeepAll
    BY <1>2, <1>6, IdleJob DEF Idle, Job, AllKinds
  <2>2. Goto(w, j)
    BY <1>1, <1>6
  <2> HIDE DEF j
  <2>3. Placed(j)
    BY <1>6, <2>1 DEF Placed, BackupKinds
  <2>4. Moves(w) /\ job'[w] = j
    BY <1>5, <2>1, <2>2, <2>3, MovesTo
  <2> QED
    BY <1>1, <1>2, <1>3, <1>4, <2>1, <2>4 DEF Moves
<1>7. CASE ~(kind = "delete" /\ S3)
  <2>1. UNCHANGED job
    BY <1>1, <1>7
  <2>2. Types'
    BY <1>5, <2>1 DEF Types, TypeOK, StoresTyped, Incidents
  <2>3. S3 => "stray delete" \in incidents'
    BY <1>1, <1>4, <1>7
  <2> QED
    BY <1>1, <1>2, <1>3, <1>4, <2>1, <2>2, <2>3
<1> QED
  BY <1>6, <1>7

LEMMA OpenEffect ==
  ASSUME Types, NEW w \in Workers, Open(w)
  PROVE  /\ Moves(w) /\ UNCHANGED remote
         /\ job[w].pc = "dump" /\ job'[w].pc = "writing"
         /\ job'[w].kind = job[w].kind /\ job'[w].out = job[w].out
         /\ job'[w].pruned = job[w].pruned
         /\ \E f \in File :
              /\ AtFile(f, Opened(local[f], w)) /\ job'[w].file = {f}
              /\ Clash(f) \subseteq incidents'
<1>0. job[w] \in Job /\ Placed(job[w])
  BY DEF Types, TypeOK
<1>1. PICK f \in job[w].todo :
        /\ local' = [local EXCEPT ![f] = Opened(@, w)]
        /\ Note(Clash(f))
        /\ Goto(w, [job[w] EXCEPT !.pc = "writing", !.todo = @ \ {f}, !.file = {f}])
  BY DEF Open
<1>2. f \in File /\ job[w].pc = "dump" /\ UNCHANGED <<now, remote>>
  BY <1>0 DEF Open, Job
<1>3. AtFile(f, Opened(local[f], w)) /\ local' \in [File -> Content]
  <2>1. Opened(local[f], w) \in Content
    BY <1>2 DEF Opened, Content, Types, TypeOK
  <2>2. local' = [local EXCEPT ![f] = Opened(local[f], w)]
    BY <1>1, <1>2 DEF Types, TypeOK
  <2> QED
    BY <1>2, <2>1, <2>2, ContentAt
<1>4. /\ incidents' = incidents \cup Clash(f)
      /\ incidents \subseteq incidents' /\ incidents' \subseteq Incidents
  <2>1. Clash(f) \in SUBSET Incidents
    BY DEF Clash, Incidents
  <2> QED
    BY <1>1, <2>1, NoteIncidents
<1> DEFINE j == [job[w] EXCEPT !.pc = "writing", !.todo = @ \ {f}, !.file = {f}]
<1>5. /\ j \in Job /\ j.pc = "writing" /\ j.file = {f} /\ j.kind = job[w].kind
      /\ j.out = job[w].out /\ j.pruned = job[w].pruned /\ j.keep = job[w].keep
  BY <1>0, <1>2 DEF Job
<1>6. Goto(w, j)
  BY <1>1
<1> HIDE DEF j
<1>7. Placed(j)
  BY <1>0, <1>2, <1>5 DEF Placed
<1>8. Moves(w) /\ job'[w] = j
  BY <1>2, <1>3, <1>4, <1>5, <1>6, <1>7, LocalTyped, MovesTo
<1> QED
  BY <1>2, <1>3, <1>4, <1>5, <1>8

LEMMA RemoveEffect ==
  ASSUME Types, NEW w \in Workers, Remove(w)
  PROVE  /\ Moves(w) /\ UNCHANGED <<remote, incidents>>
         /\ job[w].pc = "remove" /\ job'[w].pc = "remove"
         /\ job'[w].kind = job[w].kind /\ job'[w].out = job[w].out /\ job'[w].file = job[w].file
         /\ job'[w].keep = job[w].keep
         /\ job'[w].target = job[w].target /\ job'[w].svcs = job[w].svcs
         /\ \E f \in job[w].doomed :
              /\ f \in File /\ AtFile(f, Absent)
              /\ job'[w].doomed = job[w].doomed \ {f} /\ job'[w].pruned = job[w].pruned \cup {f}
<1>0. job[w] \in Job /\ Placed(job[w]) /\ (job[w].file # {} <=> job[w].pc \in {"writing", "put"})
  BY DEF Types, TypeOK
<1>1. PICK f \in job[w].doomed :
        /\ local' = [local EXCEPT ![f] = Absent]
        /\ Goto(w, [job[w] EXCEPT !.doomed = @ \ {f}, !.pruned = @ \cup {f}])
  BY DEF Remove
<1>2. f \in File /\ job[w].pc = "remove" /\ UNCHANGED <<now, remote, incidents>>
  BY <1>0 DEF Remove, Job
<1>3. AtFile(f, Absent) /\ local' \in [File -> Content]
  BY <1>1, <1>2, AbsentContent, ContentAt
<1> DEFINE j == [job[w] EXCEPT !.doomed = @ \ {f}, !.pruned = @ \cup {f}]
<1>4. /\ j \in Job /\ j.pc = job[w].pc /\ j.kind = job[w].kind /\ j.out = job[w].out
      /\ j.file = job[w].file /\ j.keep = job[w].keep /\ j.target = job[w].target
      /\ j.svcs = job[w].svcs /\ j.doomed = job[w].doomed \ {f}
      /\ j.pruned = job[w].pruned \cup {f}
  BY <1>0, <1>2 DEF Job
<1>5. Goto(w, j)
  BY <1>1
<1> HIDE DEF j
<1>6. Placed(j)
  BY <1>0, <1>2, <1>4 DEF Placed
<1>7. Moves(w) /\ job'[w] = j
  BY <1>0, <1>2, <1>3, <1>4, <1>5, <1>6, LocalTyped, KnownIncidents, MovesTo
<1> QED
  BY <1>1, <1>2, <1>3, <1>4, <1>7

LEMMA CloseEffect ==
  ASSUME Types, NEW w \in Workers, Close(w)
  PROVE  /\ Moves(w) /\ UNCHANGED <<remote, incidents>>
         /\ job[w].pc = "writing" /\ job'[w].pc = "dump"
         /\ job'[w].kind = job[w].kind /\ job'[w].pruned = job[w].pruned /\ job'[w].file = {}
         /\ \E f \in File :
              /\ job[w].file = {f} /\ job'[w].out = job[w].out \cup {f}
              /\ AtFile(f, Closed(local[f], w))
<1>0. job[w] \in Job /\ Placed(job[w])
  BY DEF Types, TypeOK
<1>1. /\ job[w].pc = "writing" /\ UNCHANGED <<now, remote, incidents>>
      /\ local' = [f \in File |-> IF f \in job[w].file THEN Closed(local[f], w) ELSE local[f]]
      /\ Goto(w, [job[w] EXCEPT !.pc = "dump", !.out = @ \cup job[w].file, !.file = {}])
  BY DEF Close
<1>2. PICK f \in File : job[w].file = {f}
  BY <1>0, <1>1 DEF Placed
<1>3. AtFile(f, Closed(local[f], w)) /\ local' \in [File -> Content]
  <2>1. Closed(local[f], w) \in Content
    BY DEF Closed, Content, Types, TypeOK
  <2>2. local' = [local EXCEPT ![f] = Closed(local[f], w)]
    BY <1>1, <1>2 DEF Types, TypeOK
  <2> QED
    BY <2>1, <2>2, ContentAt
<1> DEFINE j == [job[w] EXCEPT !.pc = "dump", !.out = @ \cup job[w].file, !.file = {}]
<1>4. /\ j \in Job /\ j.pc = "dump" /\ j.file = {} /\ j.kind = job[w].kind
      /\ j.out = job[w].out \cup {f} /\ j.pruned = job[w].pruned /\ j.keep = job[w].keep
  BY <1>0, <1>2 DEF Job
<1>5. Goto(w, j)
  BY <1>1
<1> HIDE DEF j
<1>6. Placed(j)
  BY <1>0, <1>1, <1>4 DEF Placed
<1>7. Moves(w) /\ job'[w] = j
  BY <1>1, <1>3, <1>4, <1>5, <1>6, LocalTyped, KnownIncidents, MovesTo
<1> QED
  BY <1>1, <1>2, <1>3, <1>4, <1>7

LEMMA DumpFailsEffect ==
  ASSUME Types, NEW w \in Workers, DumpFails(w)
  PROVE  /\ Moves(w) /\ UNCHANGED remote
         /\ job'[w].pc = "dump" /\ job'[w].kind = job[w].kind /\ job'[w].out = job[w].out
         /\ job'[w].pruned = job[w].pruned /\ job'[w].file = {}
         /\ \E f \in File :
              /\ AtFile(f, Absent)
              /\ \/ job[w].pc = "dump" /\ Clash(f) \subseteq incidents'
                 \/ job[w].pc = "writing" /\ job[w].file = {f}
<1>0. job[w] \in Job /\ Placed(job[w]) /\ (job[w].file # {} <=> job[w].pc \in {"writing", "put"})
  BY DEF Types, TypeOK
<1>1. ASSUME job[w].pc = "dump",
             NEW f \in job[w].todo, local' = [local EXCEPT ![f] = Discarded(@)], Note(Clash(f)),
             Goto(w, [job[w] EXCEPT !.todo = @ \ {f}]), UNCHANGED <<now, remote>>
      PROVE  /\ Moves(w) /\ f \in File /\ AtFile(f, Absent) /\ Clash(f) \subseteq incidents'
             /\ job'[w].pc = "dump" /\ job'[w].kind = job[w].kind /\ job'[w].out = job[w].out
             /\ job'[w].pruned = job[w].pruned /\ job'[w].file = {}
  <2>1. f \in File
    BY <1>0 DEF Job
  <2>2. AtFile(f, Absent) /\ local' \in [File -> Content]
    BY <1>1, <2>1, AbsentContent, ContentAt DEF Discarded
  <2>3. /\ incidents' = incidents \cup Clash(f)
        /\ incidents \subseteq incidents' /\ incidents' \subseteq Incidents
    <3>1. Clash(f) \in SUBSET Incidents
      BY DEF Clash, Incidents
    <3> QED
      BY <1>1, <3>1, NoteIncidents
  <2> DEFINE j == [job[w] EXCEPT !.todo = @ \ {f}]
  <2>4. /\ j \in Job /\ j.pc = "dump" /\ j.file = {} /\ j.kind = job[w].kind
        /\ j.out = job[w].out /\ j.pruned = job[w].pruned /\ j.keep = job[w].keep
    BY <1>0, <1>1 DEF Job
  <2>5. Goto(w, j)
    BY <1>1
  <2> HIDE DEF j
  <2>6. Placed(j)
    BY <1>0, <1>1, <2>4 DEF Placed
  <2>7. Moves(w) /\ job'[w] = j
    BY <1>1, <2>2, <2>3, <2>4, <2>5, <2>6, LocalTyped, MovesTo
  <2> QED
    BY <2>1, <2>2, <2>3, <2>4, <2>7
<1>2. ASSUME job[w].pc = "writing",
             local' = [f \in File |-> IF f \in job[w].file THEN Discarded(local[f]) ELSE local[f]],
             Goto(w, [job[w] EXCEPT !.pc = "dump", !.file = {}]),
             UNCHANGED <<now, remote, incidents>>
      PROVE  /\ Moves(w) /\ \E f \in File : job[w].file = {f} /\ AtFile(f, Absent)
             /\ job'[w].pc = "dump" /\ job'[w].kind = job[w].kind /\ job'[w].out = job[w].out
             /\ job'[w].pruned = job[w].pruned /\ job'[w].file = {}
  <2>1. PICK f \in File : job[w].file = {f}
    BY <1>0, <1>2 DEF Placed
  <2>2. local' = [local EXCEPT ![f] = Absent]
    BY <1>2, <2>1 DEF Discarded, Types, TypeOK
  <2>3. AtFile(f, Absent) /\ local' \in [File -> Content]
    BY <2>2, AbsentContent, ContentAt
  <2> DEFINE j == [job[w] EXCEPT !.pc = "dump", !.file = {}]
  <2>4. /\ j \in Job /\ j.pc = "dump" /\ j.file = {} /\ j.kind = job[w].kind
        /\ j.out = job[w].out /\ j.pruned = job[w].pruned /\ j.keep = job[w].keep
    BY <1>0 DEF Job
  <2>5. Goto(w, j)
    BY <1>2
  <2> HIDE DEF j
  <2>6. Placed(j)
    BY <1>0, <1>2, <2>4 DEF Placed
  <2>7. Moves(w) /\ job'[w] = j
    BY <1>2, <2>3, <2>4, <2>5, <2>6, LocalTyped, KnownIncidents, MovesTo
  <2> QED
    BY <2>1, <2>3, <2>4, <2>7
<1>3. UNCHANGED remote
  BY DEF DumpFails
<1> QED
  BY <1>1, <1>2, <1>3 DEF DumpFails

LEMMA KillEffect ==
  ASSUME Types, NEW w \in Workers, Kill(w)
  PROVE  /\ Moves(w) /\ job'[w] = Idle /\ UNCHANGED remote
         /\ \A f \in File : /\ local'[f].body = local[f].body
                            /\ local'[f].writers = local[f].writers \ {w}
                            /\ local'[f].mtime = local[f].mtime
         /\ job[w].pc = "writing" => "kill" \in incidents'
         /\ job[w].pc = "unmirror" => "unmirrored" \in incidents'
         /\ job[w].pc # "unmirror" => Unmirrored(job[w].pruned) \subseteq incidents'
<1>1. /\ local' = [f \in File |-> [local[f] EXCEPT !.writers = @ \ {w}]]
      /\ End(w) /\ UNCHANGED <<now, remote>>
  BY DEF Kill
<1> DEFINE tags == (IF job[w].pc = "writing" THEN {"kill"} ELSE {})
             \cup (IF job[w].pc = "unmirror" THEN {"unmirrored"} ELSE Unmirrored(job[w].pruned))
<1>2. Note(tags)
  BY DEF Kill
<1>3. tags \in SUBSET Incidents
  BY DEF Incidents, Unmirrored
<1>4. ASSUME NEW f \in File
      PROVE  /\ local'[f].body = local[f].body
             /\ local'[f].writers = local[f].writers \ {w}
             /\ local'[f].mtime = local[f].mtime
             /\ local'[f] \in Content
  BY <1>1 DEF Types, TypeOK, Content
<1>5. local' \in [File -> Content]
  BY <1>1, <1>4
<1>6. job[w].pc = "writing" => "kill" \in tags
  OBVIOUS
<1>7. job[w].pc = "unmirror" => "unmirrored" \in tags
  OBVIOUS
<1>8. job[w].pc # "unmirror" => Unmirrored(job[w].pruned) \subseteq tags
  OBVIOUS
<1> HIDE DEF tags
<1>9. /\ incidents' = incidents \cup tags
      /\ incidents \subseteq incidents' /\ incidents' \subseteq Incidents
  BY <1>2, <1>3, NoteIncidents
<1>10. Moves(w) /\ job'[w] = Idle
  BY <1>1, <1>5, <1>9, LocalTyped, MovesToIdle
<1> QED
  BY <1>1, <1>4, <1>6, <1>7, <1>8, <1>9, <1>10

-----------------------------------------------------------------------------
(* The steps that change the bucket.                                       *)
AtObject(f, b) == remote'[f] = b /\ \A g \in File : g # f => remote'[g] = remote[g]

LEMMA RemoteTyped ==
  ASSUME Types, remote' \in [File -> {"absent", "partial", "mixed", "whole"}],
         UNCHANGED <<now, local>>, incidents \subseteq incidents', incidents' \subseteq Incidents
  PROVE  StoresTyped
BY DEF StoresTyped, Types, TypeOK

LEMMA StoredType ==
  ASSUME Types, NEW w \in Workers, job[w].pc = "put", NEW f \in File
  PROVE  Stored(f, job[w].seen) \in {"partial", "mixed", "whole"}
BY DEF Stored, Types, TypeOK, Placed, Job

LEMMA PutEffect ==
  ASSUME Types, NEW w \in Workers, Put(w)
  PROVE  /\ Moves(w) /\ UNCHANGED <<local, incidents>>
         /\ job[w].pc = "put" /\ job'[w].pc = "upload"
         /\ job'[w].kind = job[w].kind /\ job'[w].out = job[w].out
         /\ job'[w].pruned = job[w].pruned /\ job'[w].file = {}
         /\ \E f \in File : /\ job[w].file = {f} /\ job'[w].send = job[w].send \ {f}
                            /\ AtObject(f, Stored(f, job[w].seen))
<1>0. job[w] \in Job /\ Placed(job[w])
  BY DEF Types, TypeOK
<1>1. /\ job[w].pc = "put" /\ UNCHANGED <<now, local, incidents>>
      /\ remote' = [f \in File |->
           IF f \in job[w].file THEN Stored(f, job[w].seen) ELSE remote[f]]
      /\ Goto(w, [job[w] EXCEPT !.pc = "upload", !.send = @ \ job[w].file,
                                !.file = {}, !.seen = "none"])
  BY DEF Put
<1>2. PICK f \in File : job[w].file = {f}
  BY <1>0, <1>1 DEF Placed
<1>3. AtObject(f, Stored(f, job[w].seen))
  BY <1>1, <1>2 DEF AtObject
<1>4. remote' \in [File -> {"absent", "partial", "mixed", "whole"}]
  BY <1>1, StoredType DEF Types, TypeOK
<1> DEFINE j == [job[w] EXCEPT !.pc = "upload", !.send = @ \ job[w].file,
                               !.file = {}, !.seen = "none"]
<1>5. /\ j \in Job /\ j.pc = "upload" /\ j.file = {} /\ j.kind = job[w].kind
      /\ j.out = job[w].out /\ j.pruned = job[w].pruned /\ j.keep = job[w].keep
      /\ j.send = job[w].send \ {f}
  BY <1>0, <1>2 DEF Job
<1>6. Goto(w, j)
  BY <1>1
<1> HIDE DEF j
<1>7. Placed(j)
  BY <1>0, <1>1, <1>5 DEF Placed
<1>8. Moves(w) /\ job'[w] = j
  BY <1>1, <1>4, <1>5, <1>6, <1>7, RemoteTyped, KnownIncidents, MovesTo
<1> QED
  BY <1>1, <1>2, <1>3, <1>5, <1>8

LEMMA UploadFailsEffect ==
  ASSUME Types, NEW w \in Workers, UploadFails(w)
  PROVE  /\ Moves(w) /\ job'[w] = Idle /\ UNCHANGED <<local, incidents>>
         /\ \/ UNCHANGED remote
            \/ \E f \in File : /\ job[w].pc = "put" /\ job[w].file = {f}
                               /\ AtObject(f, Stored(f, job[w].seen))
<1>0. Placed(job[w]) /\ job[w].pc \in {"upload", "put"}
  BY DEF Types, UploadFails
<1>1. End(w) /\ UNCHANGED <<now, local, incidents>>
  BY DEF UploadFails, Refused, End
<1>2. CASE UNCHANGED remote
  BY <1>1, <1>2, KnownIncidents, QuietTyped, MovesToIdle
<1>3. ASSUME job[w].pc = "put",
             remote' = [f \in File |->
               IF f \in job[w].file THEN Stored(f, job[w].seen) ELSE remote[f]]
      PROVE  /\ Moves(w) /\ job'[w] = Idle
             /\ \E f \in File : job[w].file = {f} /\ AtObject(f, Stored(f, job[w].seen))
  <2>1. PICK f \in File : job[w].file = {f}
    BY <1>0, <1>3 DEF Placed
  <2>2. AtObject(f, Stored(f, job[w].seen))
    BY <1>3, <2>1 DEF AtObject
  <2>3. remote' \in [File -> {"absent", "partial", "mixed", "whole"}]
    BY <1>3, StoredType DEF Types, TypeOK
  <2> QED
    BY <1>1, <2>1, <2>2, <2>3, RemoteTyped, KnownIncidents, MovesToIdle
<1>4. \/ UNCHANGED remote
      \/ /\ job[w].pc = "put"
         /\ remote' = [f \in File |->
              IF f \in job[w].file THEN Stored(f, job[w].seen) ELSE remote[f]]
  <2>1. CASE job[w].pc = "upload"
    BY <2>1 DEF UploadFails
  <2>2. CASE job[w].pc = "put"
    <3>1. PICK stored \in BOOLEAN :
            remote' = [f \in File |->
              IF stored /\ f \in job[w].file THEN Stored(f, job[w].seen) ELSE remote[f]]
      BY <2>2 DEF UploadFails
    <3>2. CASE stored
      BY <2>2, <3>1, <3>2
    <3>3. CASE ~stored
      BY <3>1, <3>3 DEF Types, TypeOK
    <3> QED
      BY <3>2, <3>3
  <2> QED
    BY <1>0, <2>1, <2>2
<1> QED
  BY <1>1, <1>2, <1>3, <1>4

LEMMA UnmirrorEffect ==
  ASSUME Types, NEW w \in Workers, Unmirror(w)
  PROVE  /\ Moves(w) /\ UNCHANGED <<local, incidents>>
         /\ job[w].pc = "unmirror"
         /\ \E f \in job[w].send :
              /\ f \in File /\ AtObject(f, "absent")
              /\ \/ job'[w] = Idle /\ job[w].send = {f}
                 \/ /\ job'[w].pc = "unmirror" /\ job'[w].send = job[w].send \ {f}
                    /\ job'[w].kind = job[w].kind /\ job'[w].out = job[w].out
                    /\ job'[w].file = job[w].file /\ job'[w].pruned = job[w].pruned
<1>0. job[w] \in Job /\ Placed(job[w]) /\ (job[w].file # {} <=> job[w].pc \in {"writing", "put"})
  BY DEF Types, TypeOK
<1>1. PICK f \in job[w].send :
        /\ remote' = [remote EXCEPT ![f] = "absent"]
        /\ Goto(w, IF job[w].send = {f} THEN Idle ELSE [job[w] EXCEPT !.send = @ \ {f}])
  BY DEF Unmirror
<1>2. f \in File /\ job[w].pc = "unmirror" /\ UNCHANGED <<now, local, incidents>>
  BY <1>0 DEF Unmirror, Job
<1>3. AtObject(f, "absent") /\ remote' \in [File -> {"absent", "partial", "mixed", "whole"}]
  BY <1>1, <1>2 DEF AtObject, Types, TypeOK
<1>4. StoresTyped
  BY <1>2, <1>3, RemoteTyped, KnownIncidents
<1>5. CASE job[w].send = {f}
  BY <1>1, <1>2, <1>3, <1>4, <1>5, MovesToIdle DEF End
<1>6. CASE job[w].send # {f}
  <2> DEFINE j == [job[w] EXCEPT !.send = @ \ {f}]
  <2>1. /\ j \in Job /\ j.pc = job[w].pc /\ j.file = job[w].file /\ j.kind = job[w].kind
        /\ j.out = job[w].out /\ j.pruned = job[w].pruned /\ j.keep = job[w].keep
        /\ j.send = job[w].send \ {f}
    BY <1>0 DEF Job
  <2>2. Goto(w, j)
    BY <1>1, <1>6
  <2> HIDE DEF j
  <2>3. Placed(j)
    BY <1>0, <1>2, <2>1 DEF Placed
  <2>4. Moves(w) /\ job'[w] = j
    BY <1>0, <1>4, <2>1, <2>2, <2>3, MovesTo
  <2> QED
    BY <1>2, <1>3, <2>1, <2>4
<1> QED
  BY <1>5, <1>6

LEMMA UnmirrorFailsEffect ==
  ASSUME Types, NEW w \in Workers, UnmirrorFails(w)
  PROVE  /\ Moves(w) /\ job'[w] = Idle /\ UNCHANGED local
         /\ job[w].pc = "unmirror" /\ "unmirrored" \in incidents'
         /\ \E f \in job[w].send : f \in File /\ (UNCHANGED remote \/ AtObject(f, "absent"))
<1>1. PICK f \in job[w].send, done \in BOOLEAN :
        remote' = [remote EXCEPT ![f] = IF done THEN "absent" ELSE @]
  BY DEF UnmirrorFails
<1>2. f \in File
  BY DEF Types, TypeOK, Job
<1>3. /\ job[w].pc = "unmirror" /\ End(w) /\ UNCHANGED <<now, local>>
      /\ Note({"unmirrored"})
  BY DEF UnmirrorFails
<1>4. /\ UNCHANGED remote \/ AtObject(f, "absent")
      /\ remote' \in [File -> {"absent", "partial", "mixed", "whole"}]
  BY <1>1, <1>2 DEF AtObject, Types, TypeOK
<1>5. /\ incidents' = incidents \cup {"unmirrored"}
      /\ incidents \subseteq incidents' /\ incidents' \subseteq Incidents
  <2>1. {"unmirrored"} \in SUBSET Incidents
    BY DEF Incidents
  <2> QED
    BY <1>3, <2>1, NoteIncidents
<1> QED
  BY <1>2, <1>3, <1>4, <1>5, RemoteTyped, MovesToIdle

LEMMA TickEffect ==
  ASSUME Types, Tick
  PROVE  Types' /\ now' = now + 1 /\ UNCHANGED <<local, remote, job, incidents>>
<1>1. now < MaxNow /\ now' = now + 1 /\ UNCHANGED <<local, remote, job, incidents>>
  BY DEF Tick
<1>2. now' \in Time
  <2>1. now \in Time
    BY DEF Types, TypeOK
  <2> QED
    BY <1>1, <2>1, TimeAssumption DEF Time
<1> QED
  BY <1>1, <1>2 DEF Types, TypeOK

-----------------------------------------------------------------------------
(* Most steps leave the directory as it is: their jobs write no other      *)
(* file, produce none, and drop none that was not dropped already.         *)
Steady(j, k) ==
  /\ \A f \in File : Writes(j, f) <=> Writes(k, f)
  /\ k.out \subseteq j.out
  /\ \A f \in File : Dropped(k, f) => Dropped(j, f)

Begins(w) == BeginBackup(w) \/ BeginSync(w)

Quiet(w) ==
  \/ Begins(w) \/ NextApp(w) \/ AppFails(w) \/ Skip(w) \/ DumpsDone(w) \/ OpenUpload(w)
  \/ Put(w) \/ UploadFails(w) \/ UploadsDone(w) \/ Prune(w) \/ RemoveFails(w) \/ RemovesDone(w)
  \/ Unmirror(w) \/ UnmirrorFails(w)

LEMMA IdleHasNothing ==
  /\ Idle.pc = "idle" /\ Idle.out = {} /\ Idle.kind = "cli"
  /\ \A f \in File : ~Writes(Idle, f) /\ ~Dropped(Idle, f)
BY DEF Idle, Writes, Dropped

LEMMA QuietSteady ==
  ASSUME Types, NEW w \in Workers, Quiet(w)
  PROVE  /\ Moves(w) /\ UNCHANGED local
         /\ \A v \in Workers : Steady(job[v], job'[v])
<1>0. \A v \in Workers : Steady(job[v], job[v])
  BY DEF Steady
<1>1. Moves(w) /\ UNCHANGED local /\ Steady(job[w], job'[w])
  <2>1. CASE Begins(w)
    BY <2>1, BeginBackupEffect, BeginSyncEffect DEF Begins, Steady, Writes, Dropped
  <2>2. CASE NextApp(w) \/ AppFails(w) \/ Skip(w)
    BY <2>2, DumpEffect, IdleHasNothing DEF Steady, Writes, Dropped, NextApp, AppFails, Skip
  <2>3. CASE DumpsDone(w)
    BY <2>3, DumpsDoneEffect, IdleHasNothing DEF Steady, Writes, Dropped
  <2>4. CASE OpenUpload(w)
    BY <2>4, OpenUploadEffect DEF Steady, Writes, Dropped
  <2>5. CASE Put(w)
    BY <2>5, PutEffect DEF Steady, Writes, Dropped
  <2>6. CASE UploadFails(w)
    BY <2>6, UploadFailsEffect, IdleHasNothing DEF Steady, Writes, UploadFails
  <2>7. CASE UploadsDone(w)
    BY <2>7, UploadsDoneEffect, IdleHasNothing DEF Steady, Writes, Dropped
  <2>8. CASE Prune(w)
    BY <2>8, PruneEffect DEF Steady, Writes, Dropped
  <2>9. CASE RemoveFails(w)
    BY <2>9, RemoveFailsEffect, IdleHasNothing DEF Steady, Writes
  <2>10. CASE RemovesDone(w)
    BY <2>10, RemovesDoneEffect, IdleHasNothing DEF Steady, Writes, Dropped
  <2>11. CASE Unmirror(w)
    BY <2>11, UnmirrorEffect, IdleHasNothing DEF Steady, Writes, Dropped
  <2>12. CASE UnmirrorFails(w)
    BY <2>12, UnmirrorFailsEffect, IdleHasNothing DEF Steady, Writes
  <2> QED
    BY <2>1, <2>2, <2>3, <2>4, <2>5, <2>6, <2>7, <2>8, <2>9, <2>10, <2>11, <2>12 DEF Quiet
<1>2. \A v \in Workers : v # w => job'[v] = job[v]
  BY <1>1 DEF Moves
<1> QED
  BY <1>0, <1>1, <1>2

LEMMA NextCases ==
  ASSUME Next
  PROVE  \/ \E w \in Workers :
              \/ Quiet(w) \/ DeleteByHand(w) \/ Open(w) \/ Close(w) \/ DumpFails(w)
              \/ Remove(w) \/ Kill(w)
         \/ Tick
BY DEF Next, Quiet, Begins

LEMMA TypesNext ==
  ASSUME Types, Next
  PROVE  Types' /\ incidents \subseteq incidents'
<1>1. ASSUME NEW w \in Workers,
             Quiet(w) \/ Open(w) \/ Close(w) \/ DumpFails(w) \/ Remove(w) \/ Kill(w)
      PROVE  Moves(w)
  BY <1>1, QuietSteady, OpenEffect, CloseEffect, DumpFailsEffect, RemoveEffect, KillEffect
<1>2. ASSUME NEW w \in Workers, DeleteByHand(w) PROVE Types' /\ incidents \subseteq incidents'
  BY <1>2, DeleteByHandEffect
<1>3. CASE Tick
  BY <1>3, TickEffect
<1> QED
  BY <1>1, <1>2, <1>3, NextCases DEF Moves

-----------------------------------------------------------------------------
(* Who has a file open, whose a name is, and what its body is.             *)
LEMMA WritersWriteNext ==
  ASSUME Types, WritersWrite, Next
  PROVE  WritersWrite'
<1>1. ASSUME NEW w \in Workers, Quiet(w) PROVE WritersWrite'
  <2>1. local' = local /\ \A v \in Workers, f \in File : Writes(job[v], f) <=> Writes(job'[v], f)
    BY <1>1, QuietSteady DEF Steady
  <2>2. \A f \in File : local[f].writers \subseteq Workers
    BY DEF Types, TypeOK, Content
  <2> QED
    BY <2>1, <2>2 DEF WritersWrite
<1>2. ASSUME NEW w \in Workers, NEW f \in File, NEW c, AtFile(f, c),
             \A v \in Workers : v # w => job'[v] = job[v],
             c.body = "absent" => c.writers = {},
             \A v \in c.writers : IF v = w THEN Writes(job'[w], f) ELSE v \in local[f].writers,
             \A g \in File : Writes(job[w], g) => g = f
      PROVE  WritersWrite'
  <2>1. ASSUME NEW g \in File
        PROVE  /\ \A v \in local'[g].writers : Writes(job'[v], g)
               /\ local'[g].body = "absent" => local'[g].writers = {}
    <3>0. local[g].writers \subseteq Workers /\ local[f].writers \subseteq Workers
      BY DEF Types, TypeOK, Content
    <3>1. CASE g = f
      BY <1>2, <3>0, <3>1 DEF AtFile, WritersWrite
    <3>2. CASE g # f
      <4>1. local'[g] = local[g]
        BY <1>2, <3>2 DEF AtFile
      <4>2. ASSUME NEW v \in local[g].writers PROVE Writes(job'[v], g)
        BY <1>2, <3>0, <3>2 DEF WritersWrite
      <4> QED
        BY <4>1, <4>2 DEF WritersWrite
    <3> QED
      BY <3>1, <3>2
  <2> QED
    BY <2>1 DEF WritersWrite
<1>3. ASSUME NEW w \in Workers, DeleteByHand(w) PROVE WritersWrite'
  <2>1. PICK f \in File : AtFile(f, Absent)
    BY <1>3, DeleteByHandEffect
  <2> QED
    BY <1>2, <1>3, <2>1, AbsentContent, DeleteByHandEffect DEF Writes
<1>4. ASSUME NEW w \in Workers, Open(w) PROVE WritersWrite'
  <2>1. PICK f \in File : AtFile(f, Opened(local[f], w)) /\ job'[w].file = {f}
    BY <1>4, OpenEffect
  <2> DEFINE c == Opened(local[f], w)
  <2>2. c.body # "absent" /\ c.writers = local[f].writers \cup {w}
    BY DEF Opened
  <2>3. Writes(job'[w], f) /\ \A g \in File : ~Writes(job[w], g)
    BY <1>4, <2>1, OpenEffect DEF Writes
  <2>4. \A v \in Workers : v # w => job'[v] = job[v]
    BY <1>4, OpenEffect DEF Moves
  <2>5. AtFile(f, c)
    BY <2>1
  <2> HIDE DEF c
  <2> QED
    BY <1>2, <2>2, <2>3, <2>4, <2>5
<1>5. ASSUME NEW w \in Workers, Close(w) PROVE WritersWrite'
  <2>1. PICK f \in File : job[w].file = {f} /\ AtFile(f, Closed(local[f], w))
    BY <1>5, CloseEffect
  <2>2. /\ Closed(local[f], w).writers = local[f].writers \ {w}
        /\ Closed(local[f], w).body = "absent" => Closed(local[f], w).writers = {}
    BY DEF Closed, WritersWrite
  <2> QED
    BY <1>2, <1>5, <2>1, <2>2, CloseEffect DEF Writes, Moves
<1>6. ASSUME NEW w \in Workers, DumpFails(w) PROVE WritersWrite'
  <2>1. PICK f \in File : /\ AtFile(f, Absent)
                          /\ job[w].pc = "dump" \/ (job[w].pc = "writing" /\ job[w].file = {f})
    BY <1>6, DumpFailsEffect
  <2> QED
    BY <1>2, <1>6, <2>1, AbsentContent, DumpFailsEffect DEF Writes, Moves
<1>7. ASSUME NEW w \in Workers, Remove(w) PROVE WritersWrite'
  <2>1. PICK f \in File : AtFile(f, Absent)
    BY <1>7, RemoveEffect
  <2> QED
    BY <1>2, <1>7, <2>1, AbsentContent, RemoveEffect DEF Writes, Moves
<1>8. ASSUME NEW w \in Workers, Kill(w) PROVE WritersWrite'
  <2>1. \A f \in File : local[f].writers \subseteq Workers
    BY DEF Types, TypeOK, Content
  <2> QED
    BY <1>8, <2>1, KillEffect DEF WritersWrite, Moves
<1>9. CASE Tick
  BY <1>9, TickEffect DEF WritersWrite
<1> QED
  BY <1>1, <1>3, <1>4, <1>5, <1>6, <1>7, <1>8, <1>9, NextCases

LEMMA Unclashed ==
  ASSUME NEW f \in File, "clash" \notin incidents', Clash(f) \subseteq incidents'
  PROVE  /\ local[f].body = "absent" /\ remote[f] = "absent"
         /\ \A v \in Workers : f \notin job[v].out \cup job[v].file \cup job[v].doomed
                                       \cup job[v].pruned \cup job[v].send
BY DEF Clash

LEMMA BodiesNext ==
  ASSUME Types, WritersWrite, Bodies, Next
  PROVE  Bodies'
<1> SUFFICES ASSUME incidents' \cap {"kill", "clash"} = {}, NEW g \in File
             PROVE  \/ local'[g].writers = {} /\ local'[g].body \in {"absent", "whole"}
                    \/ local'[g].body = "partial" /\ \E v \in Workers : local'[g].writers = {v}
  BY DEF Bodies
<1>0. \/ local[g].writers = {} /\ local[g].body \in {"absent", "whole"}
      \/ local[g].body = "partial" /\ \E v \in Workers : local[g].writers = {v}
  BY TypesNext DEF Bodies
<1>1. ASSUME NEW w \in Workers, Quiet(w) PROVE local'[g] = local[g]
  BY <1>1, QuietSteady
<1>2. ASSUME NEW w \in Workers, DeleteByHand(w) \/ DumpFails(w) \/ Remove(w)
      PROVE  local'[g] = local[g] \/ local'[g] = Absent
  BY <1>2, DeleteByHandEffect, DumpFailsEffect, RemoveEffect DEF AtFile
<1>3. ASSUME NEW w \in Workers, Open(w)
      PROVE  local'[g] = local[g] \/ (local'[g].body = "partial" /\ local'[g].writers = {w})
  <2>1. PICK f \in File : AtFile(f, Opened(local[f], w)) /\ Clash(f) \subseteq incidents'
    BY <1>3, OpenEffect
  <2>2. local[f].writers = {}
    BY <2>1, Unclashed DEF WritersWrite
  <2> QED
    BY <2>1, <2>2 DEF AtFile, Opened
<1>4. ASSUME NEW w \in Workers, Close(w)
      PROVE  local'[g] = local[g] \/ (local'[g].body = "whole" /\ local'[g].writers = {})
  <2>1. PICK f \in File : AtFile(f, Closed(local[f], w))
    BY <1>4, CloseEffect
  <2> QED
    BY <1>0, <2>1 DEF AtFile, Closed
<1>5. ASSUME NEW w \in Workers, Kill(w)
      PROVE  local'[g].body = local[g].body /\ local'[g].writers = local[g].writers
  <2>1. "kill" \notin incidents'
    OBVIOUS
  <2>2. w \notin local[g].writers
    BY <1>5, <2>1, KillEffect DEF WritersWrite, Writes
  <2>3. local[g].writers \ {w} = local[g].writers
    BY <2>2
  <2>4. local'[g].body = local[g].body /\ local'[g].writers = local[g].writers \ {w}
    BY <1>5, KillEffect
  <2> QED
    BY <2>3, <2>4
<1>6. CASE Tick
  BY <1>0, <1>6, TickEffect
<1> QED
  BY <1>0, <1>1, <1>2, <1>3, <1>4, <1>5, <1>6, NextCases, AbsentContent

(* The directory only loses files, and jobs names.                         *)
Fades ==
  \A v \in Workers, h \in File :
    /\ local'[h] = local[h] \/ local'[h].body = "absent"
    /\ Writes(job'[v], h) => Writes(job[v], h)
    /\ h \in job'[v].out => h \in job[v].out
    /\ Dropped(job'[v], h) => Dropped(job[v], h) \/ local'[h].body = "absent"

LEMMA FadesNames ==
  ASSUME Names, Fades, incidents \subseteq incidents'
  PROVE  Names'
BY DEF Names, NameOf, Fades

LEMMA NamesNext ==
  ASSUME Types, WritersWrite, Names, Next
  PROVE  Names'
<1>0. incidents \subseteq incidents'
  BY TypesNext
<1>1. ASSUME NEW w \in Workers, Quiet(w) PROVE Fades
  BY <1>1, QuietSteady DEF Steady, Fades
<1>2. ASSUME NEW w \in Workers, DeleteByHand(w) PROVE Fades
  <2>1. PICK f \in File :
          /\ AtFile(f, Absent)
          /\ \/ job'[w] = job[w]
             \/ /\ job'[w].pc = "unmirror" /\ job'[w].send = {f}
                /\ job'[w].out = {} /\ job'[w].pruned = {}
    BY <1>2, DeleteByHandEffect
  <2>2. \A v \in Workers : v # w => job'[v] = job[v]
    BY <1>2, DeleteByHandEffect
  <2> QED
    BY <2>1, <2>2, AbsentContent DEF AtFile, Fades, Writes, Dropped
<1>3. ASSUME NEW w \in Workers, DumpFails(w) PROVE Fades
  <2>1. PICK f \in File : AtFile(f, Absent)
    BY <1>3, DumpFailsEffect
  <2>2. /\ job'[w].pc = "dump" /\ job'[w].out = job[w].out /\ job'[w].pruned = job[w].pruned
        /\ \A v \in Workers : v # w => job'[v] = job[v]
    BY <1>3, DumpFailsEffect DEF Moves
  <2> QED
    BY <2>1, <2>2, AbsentContent DEF AtFile, Fades, Writes, Dropped
<1>4. ASSUME NEW w \in Workers, Remove(w) PROVE Fades
  <2>1. PICK f \in File : AtFile(f, Absent) /\ job'[w].pruned = job[w].pruned \cup {f}
    BY <1>4, RemoveEffect
  <2>2. /\ job'[w].pc = "remove" /\ job'[w].out = job[w].out
        /\ \A v \in Workers : v # w => job'[v] = job[v]
    BY <1>4, RemoveEffect DEF Moves
  <2> QED
    BY <2>1, <2>2, AbsentContent DEF AtFile, Fades, Writes, Dropped
<1>5. CASE "clash" \in incidents'
  BY <1>5 DEF Names
<1>6. CASE "clash" \notin incidents'
  <2> SUFFICES ASSUME NEW u \in Workers, NEW h \in File
               PROVE  NameOf(u, h)'
    BY DEF Names
  <2>0. \A v \in Workers : NameOf(v, h)
    BY <1>0, <1>6 DEF Names
  <2>1. CASE Fades \/ Tick
    BY <1>0, <2>0, <2>1, TickEffect DEF Fades, NameOf
  <2>2. ASSUME NEW w \in Workers, Kill(w)
        PROVE  NameOf(u, h)'
    <3>1. /\ job'[w] = Idle /\ \A v \in Workers : v # w => job'[v] = job[v]
          /\ local'[h].body = local[h].body /\ local'[h].writers = local[h].writers \ {w}
      BY <2>2, KillEffect DEF Moves
    <3>2. u # w /\ local[h].writers = {u} => local'[h].writers = {u}
      BY <3>1
    <3> QED
      BY <2>0, <3>1, <3>2, IdleHasNothing DEF NameOf
  <2>3. ASSUME NEW w \in Workers, Open(w)
        PROVE  NameOf(u, h)'
    <3>1. PICK f \in File : /\ AtFile(f, Opened(local[f], w)) /\ job'[w].file = {f}
                            /\ Clash(f) \subseteq incidents'
      BY <2>3, OpenEffect
    <3>2. /\ job'[w].out = job[w].out /\ job'[w].pruned = job[w].pruned /\ job'[w].pc = "writing"
          /\ \A v \in Workers : v # w => job'[v] = job[v]
      BY <2>3, OpenEffect DEF Moves
    <3>3. /\ local[f].body = "absent" /\ local[f].writers = {}
          /\ \A v \in Workers : f \notin job[v].out /\ ~Writes(job[v], f) /\ ~Dropped(job[v], f)
      BY <1>6, <3>1, Unclashed DEF WritersWrite, Writes, Dropped
    <3>4. CASE h = f
      <4>1. local'[f].body = "partial" /\ local'[f].writers = {w}
        BY <3>1, <3>3 DEF AtFile, Opened
      <4>2. /\ \A v \in Workers : f \notin job'[v].out /\ ~Dropped(job'[v], f)
            /\ \A v \in Workers : Writes(job'[v], f) => v = w
        BY <3>2, <3>3 DEF Dropped
      <4> QED
        BY <3>4, <4>1, <4>2 DEF NameOf
    <3>5. CASE h # f
      <4>1. local'[h] = local[h]
        BY <3>1, <3>5 DEF AtFile
      <4>2. \A v \in Workers :
              /\ Writes(job'[v], h) => Writes(job[v], h) /\ v # w
              /\ job'[v].out = job[v].out
              /\ Dropped(job'[v], h) => Dropped(job[v], h)
        BY <3>1, <3>2, <3>5 DEF Writes, Dropped
      <4> QED
        BY <2>0, <4>1, <4>2 DEF NameOf
    <3> QED
      BY <3>4, <3>5
  <2>4. ASSUME NEW w \in Workers, Close(w)
        PROVE  NameOf(u, h)'
    <3>1. PICK f \in File : /\ job[w].file = {f} /\ job'[w].out = job[w].out \cup {f}
                            /\ AtFile(f, Closed(local[f], w))
      BY <2>4, CloseEffect
    <3>2. /\ job[w].pc = "writing" /\ job'[w].pc = "dump" /\ job'[w].pruned = job[w].pruned
          /\ \A v \in Workers : v # w => job'[v] = job[v]
      BY <2>4, CloseEffect DEF Moves
    <3>3. CASE h = f
      <4>1. Writes(job[w], f)
        BY <3>1, <3>2 DEF Writes
      <4>2. local'[f].body = IF local[f].body = "absent" THEN "absent" ELSE "whole"
        <5>1. local'[f] = Closed(local[f], w)
          BY <3>1 DEF AtFile
        <5>2. local[f].body = "absent" => local[f].writers = {}
          BY DEF WritersWrite
        <5> QED
          BY <2>0, <3>3, <4>1, <5>1, <5>2 DEF Closed, NameOf
      <4>3. \A v \in Workers :
              /\ ~Writes(job'[v], f)
              /\ Dropped(job'[v], f) => Dropped(job[v], f)
        BY <2>0, <3>2, <3>3, <4>1 DEF Writes, Dropped, NameOf
      <4> QED
        BY <2>0, <3>3, <4>2, <4>3 DEF NameOf
    <3>4. CASE h # f
      <4>1. local'[h] = local[h]
        BY <3>1, <3>4 DEF AtFile
      <4>2. \A v \in Workers :
              /\ Writes(job'[v], h) => Writes(job[v], h)
              /\ h \in job'[v].out => h \in job[v].out
              /\ Dropped(job'[v], h) => Dropped(job[v], h)
        BY <3>1, <3>2, <3>4 DEF Writes, Dropped
      <4> QED
        BY <2>0, <4>1, <4>2 DEF NameOf
    <3> QED
      BY <3>3, <3>4
  <2> QED
    BY <1>1, <1>2, <1>3, <1>4, <2>1, <2>2, <2>3, <2>4, NextCases
<1> QED
  BY <1>5, <1>6

-----------------------------------------------------------------------------
(* Which jobs are under way together.                                      *)
LEMMA MeetingIs ==
  ASSUME Types, NEW kind, NEW v \in Workers, Busily(v)
  PROVE  /\ kind \in BackupKinds /\ job[v].kind \in BackupKinds => "overlap" \in Meeting(kind)
         /\ kind \notin BackupKinds \/ job[v].kind \notin BackupKinds => "mix" \in Meeting(kind)
<1> DEFINE others == {job[x].kind : x \in Busy(AllKinds)}
<1>1. job[v].kind \in others
  BY DEF Busy, Busily, Types, TypeOK, Job
<1>2. Meeting(kind) =
        {i \in {"overlap", "mix"} :
           IF i = "overlap" THEN kind \in BackupKinds /\ others \cap BackupKinds # {}
           ELSE others # {} /\ ({kind} \cup others) \ BackupKinds # {}}
  BY DEF Meeting
<1> HIDE DEF others
<1>3. kind \in BackupKinds /\ job[v].kind \in BackupKinds => "overlap" \in Meeting(kind)
  BY <1>1, <1>2
<1>4. kind \notin BackupKinds \/ job[v].kind \notin BackupKinds => "mix" \in Meeting(kind)
  BY <1>1, <1>2
<1> QED
  BY <1>3, <1>4

Continues(j, k) == k.pc # "idle" => j.pc # "idle" /\ k.kind = j.kind

LEMMA StepContinues ==
  ASSUME Types, NEW w \in Workers,
         \/ Quiet(w) /\ ~Begins(w)
         \/ Open(w) \/ Close(w) \/ DumpFails(w) \/ Remove(w) \/ Kill(w)
  PROVE  Moves(w) /\ Continues(job[w], job'[w])
<1>1. CASE NextApp(w) \/ AppFails(w) \/ Skip(w)
  BY <1>1, DumpEffect, IdleHasNothing DEF Continues
<1>2. CASE DumpsDone(w) \/ OpenUpload(w) \/ Put(w) \/ UploadFails(w) \/ UploadsDone(w)
  BY <1>2, DumpsDoneEffect, OpenUploadEffect, PutEffect, UploadFailsEffect, UploadsDoneEffect,
     IdleHasNothing DEF Continues
<1>3. CASE Prune(w) \/ RemoveFails(w) \/ RemovesDone(w) \/ Unmirror(w) \/ UnmirrorFails(w)
  BY <1>3, PruneEffect, RemoveFailsEffect, RemovesDoneEffect, UnmirrorEffect, UnmirrorFailsEffect,
     IdleHasNothing DEF Continues
<1>4. CASE Open(w) \/ Close(w) \/ Remove(w)
  BY <1>4, OpenEffect, CloseEffect, RemoveEffect DEF Continues
<1>5. CASE DumpFails(w)
  BY <1>5, DumpFailsEffect DEF Continues
<1>6. CASE Kill(w)
  BY <1>6, KillEffect, IdleHasNothing DEF Continues
<1> QED
  BY <1>1, <1>2, <1>3, <1>4, <1>5, <1>6 DEF Quiet

LEMMA CompanyNext ==
  ASSUME Types, Company, Next
  PROVE  Company'
<1>0. incidents \subseteq incidents'
  BY TypesNext
<1>1. ASSUME \A v \in Workers : Continues(job[v], job'[v]) PROVE Company'
  BY <1>0, <1>1 DEF Company, Continues, Backs, Busily
<1>2. ASSUME NEW w \in Workers,
             \/ Quiet(w) /\ ~Begins(w)
             \/ Open(w) \/ Close(w) \/ DumpFails(w) \/ Remove(w) \/ Kill(w)
      PROVE  Company'
  <2>1. Moves(w) /\ Continues(job[w], job'[w])
    BY <1>2, StepContinues
  <2>2. \A v \in Workers : Continues(job[v], job'[v])
    BY <2>1 DEF Moves, Continues
  <2> QED
    BY <1>1, <2>2
<1>3. ASSUME NEW w \in Workers, Begins(w) PROVE Company'
  <2> DEFINE kind == job'[w].kind
  <2>1. /\ kind \in BackupKinds \cup {"sync"} /\ "sync" \notin BackupKinds
        /\ Meeting(kind) \subseteq incidents'
        /\ \A v \in Workers : v # w => job'[v] = job[v]
    BY <1>3, BeginBackupEffect, BeginSyncEffect DEF Begins, Moves, BackupKinds
  <2> HIDE DEF kind
  <2>2. ASSUME NEW v \in Workers, Busily(v)
        PROVE  /\ kind \in BackupKinds /\ job[v].kind \in BackupKinds => "overlap" \in incidents'
               /\ kind \notin BackupKinds \/ job[v].kind \notin BackupKinds => "mix" \in incidents'
    BY <2>1, <2>2, MeetingIs
  <2>3. ASSUME NEW u \in Workers, NEW v \in Workers
        PROVE  /\ "overlap" \notin incidents' /\ Backs(u)' /\ Backs(v)' => u = v
               /\ "mix" \notin incidents' =>
                    ~(Backs(u)' /\ Busily(v)' /\ job'[v].kind = "sync")
               /\ incidents' \cap {"overlap", "mix", "stray delete"} = {}
                    /\ Busily(u)' /\ Busily(v)' => u = v
    BY <1>0, <2>1, <2>2 DEF Company, Backs, Busily, kind
  <2> QED
    BY <2>3 DEF Company
<1>4. ASSUME NEW w \in Workers, DeleteByHand(w) PROVE Company'
  <2>1. CASE job'[w] = job[w]
    <3>1. \A v \in Workers : Continues(job[v], job'[v])
      BY <1>4, <2>1, DeleteByHandEffect DEF Continues
    <3> QED
      BY <1>1, <3>1
  <2>2. CASE job'[w] # job[w]
    <3>1. /\ job'[w].kind = "delete" /\ "delete" \notin BackupKinds
          /\ \A v \in Workers : v # w => job'[v] = job[v]
      BY <1>4, <2>2, DeleteByHandEffect DEF BackupKinds
    <3>2. ASSUME NEW v \in Workers, Busily(v) PROVE "stray delete" \in incidents'
      BY <1>4, <3>2, DeleteByHandEffect DEF Busy, Busily, Types, TypeOK, Job
    <3>3. ~Backs(w)' /\ job'[w].kind # "sync"
      BY <3>1 DEF Backs
    <3>4. \A v \in Workers : v # w => (Backs(v)' <=> Backs(v)) /\ (Busily(v)' <=> Busily(v))
      BY <3>1 DEF Backs, Busily
    <3>5. "stray delete" \notin incidents' =>
            \A u, v \in Workers : Busily(u)' /\ Busily(v)' => u = v
      BY <3>2, <3>4
    <3>6. ASSUME NEW u \in Workers, NEW v \in Workers
          PROVE  /\ "overlap" \notin incidents' /\ Backs(u)' /\ Backs(v)' => u = v
                 /\ "mix" \notin incidents' =>
                      ~(Backs(u)' /\ Busily(v)' /\ job'[v].kind = "sync")
      BY <1>0, <3>1, <3>3, <3>4 DEF Company
    <3> QED
      BY <3>5, <3>6 DEF Company
  <2> QED
    BY <2>1, <2>2
<1>5. CASE Tick
  BY <1>1, <1>5, TickEffect DEF Continues
<1> QED
  BY <1>2, <1>3, <1>4, <1>5, NextCases

-----------------------------------------------------------------------------
(* A job that is removing files goes on with them; next to it, without an  *)
(* overlap, nobody adds a file, and only a deletion by hand takes one.     *)
LEMMA StillRemoving ==
  ASSUME Types, NEW w \in Workers, NEW u \in Workers, job'[u].pc = "remove",
         \/ Quiet(w) \/ DeleteByHand(w) \/ Open(w) \/ Close(w) \/ DumpFails(w)
         \/ Remove(w) \/ Kill(w)
  PROVE  job'[u] = job[u] \/ (u = w /\ (Prune(w) \/ Remove(w)))
<1>1. CASE u # w
  BY <1>1, QuietSteady, DeleteByHandEffect, OpenEffect, CloseEffect, DumpFailsEffect, RemoveEffect,
     KillEffect DEF Moves
<1>2. CASE u = w
  <2>1. CASE Begins(w) \/ NextApp(w) \/ AppFails(w) \/ Skip(w) \/ DumpsDone(w) \/ OpenUpload(w)
    BY <1>2, <2>1, BeginBackupEffect, BeginSyncEffect, DumpEffect, DumpsDoneEffect,
       OpenUploadEffect, IdleHasNothing DEF Begins
  <2>2. CASE Put(w) \/ UploadFails(w) \/ UploadsDone(w)
    BY <1>2, <2>2, PutEffect, UploadFailsEffect, UploadsDoneEffect, IdleHasNothing
  <2>3. CASE RemoveFails(w) \/ RemovesDone(w) \/ Unmirror(w) \/ UnmirrorFails(w)
    BY <1>2, <2>3, RemoveFailsEffect, RemovesDoneEffect, UnmirrorEffect, UnmirrorFailsEffect,
       IdleHasNothing
  <2>4. CASE DeleteByHand(w)
    BY <1>2, <2>4, DeleteByHandEffect
  <2>5. CASE Open(w) \/ Close(w) \/ DumpFails(w) \/ Kill(w)
    BY <1>2, <2>5, OpenEffect, CloseEffect, DumpFailsEffect, KillEffect, IdleHasNothing
  <2> QED
    BY <1>2, <2>1, <2>2, <2>3, <2>4, <2>5 DEF Quiet
<1> QED
  BY <1>1, <1>2

LEMMA RemovesAlone ==
  ASSUME Types, Company, "overlap" \notin incidents,
         NEW u \in Workers, NEW w \in Workers, job[u].pc = "remove",
         job[w].pc \in {"dump", "writing", "prune", "remove"}
  PROVE  w = u
BY DEF Company, Backs, Busily, Types, Placed

LEMMA FilesNextToRemoval ==
  ASSUME Types, WritersWrite, Company, Next, "overlap" \notin incidents,
         NEW u \in Workers, job[u].pc = "remove", NEW f \in File
  PROVE  /\ local'[f].body # "absent" => local[f].body # "absent"
         /\ local[f].body = "whole" =>
              \/ local'[f].body = "whole"
              \/ "delete" \in incidents' \/ "stray delete" \in incidents'
              \/ Remove(u)
<1>1. ASSUME NEW w \in Workers, Quiet(w) PROVE local'[f] = local[f]
  BY <1>1, QuietSteady
<1>2. ASSUME NEW w \in Workers, DeleteByHand(w)
      PROVE  /\ local'[f] = local[f] \/ local'[f] = Absent
             /\ "delete" \in incidents' \/ "stray delete" \in incidents'
  BY <1>2, DeleteByHandEffect DEF AtFile
<1>3. ASSUME NEW w \in Workers, Open(w) \/ DumpFails(w) PROVE FALSE
  BY <1>3, RemovesAlone, OpenEffect, DumpFailsEffect
<1>4. ASSUME NEW w \in Workers, Close(w) PROVE FALSE
  BY <1>4, RemovesAlone, CloseEffect
<1>5. ASSUME NEW w \in Workers, Remove(w)
      PROVE  Remove(u) /\ (local'[f] = local[f] \/ local'[f] = Absent)
  BY <1>5, RemovesAlone, RemoveEffect DEF AtFile
<1>6. ASSUME NEW w \in Workers, Kill(w) PROVE local'[f].body = local[f].body
  BY <1>6, KillEffect
<1>7. CASE Tick
  BY <1>7, TickEffect
<1> QED
  BY <1>1, <1>2, <1>3, <1>4, <1>5, <1>6, <1>7, NextCases, AbsentContent

LEMMA GroupBound ==
  ASSUME NEW app, NEW svc, NEW S \in SUBSET Group(app, svc), NEW T \in SUBSET S
  PROVE  /\ IsFiniteSet(S) /\ IsFiniteSet(T)
         /\ Cardinality(T) \in Nat /\ Cardinality(S) \in Nat
         /\ Cardinality(T) <= Cardinality(S)
<1>1. IsFiniteSet(S)
  BY GroupFinite, FS_Subset
<1>2. IsFiniteSet(T) /\ Cardinality(T) <= Cardinality(S)
  BY <1>1, FS_Subset
<1> QED
  BY <1>1, <1>2, FS_CardinalityType

(* What Prune leaves of an app's service: no more than the count, and at   *)
(* least one of what it found.                                             *)
LEMMA NewestIs ==
  ASSUME NEW app, NEW svc, NEW group \in SUBSET Group(app, svc), NEW kept,
         NEW count \in Nat \ {0}, Newest(group, count, kept)
  PROVE  /\ kept \subseteq group /\ Cardinality(kept) <= count
         /\ group # {} => kept # {}
<1>1. kept \subseteq group
  BY DEF Newest
<1>2. /\ IsFiniteSet(group) /\ IsFiniteSet(kept)
      /\ Cardinality(group) \in Nat /\ Cardinality(kept) \in Nat
  BY <1>1, GroupBound
<1>3. Cardinality(kept) = IF Cardinality(group) < count THEN Cardinality(group) ELSE count
  BY DEF Newest
<1>4. Cardinality(kept) <= count
  BY <1>2, <1>3
<1>5. ASSUME group # {} PROVE kept # {}
  <2>1. Cardinality(group) # 0
    BY <1>2, <1>5, FS_EmptySet
  <2>2. Cardinality(kept) # 0
    BY <1>2, <1>3, <2>1
  <2> QED
    BY <1>2, <2>2, FS_EmptySet
<1> QED
  BY <1>1, <1>4, <1>5

LEMMA KeepIs ==
  ASSUME NEW j \in Job
  PROVE  j.keep.count \in Nat /\ j.keep.days \in Nat
<1>1. j.keep \in Retention
  BY DEF Job
<1>2. Retention \subseteq [days : Nat, count : Nat]
  BY RetentionsAssumption DEF Retention, KeepAll
<1> QED
  BY <1>1, <1>2

LEMMA QuotaNext ==
  ASSUME Types, WritersWrite, Company, Quota, Next
  PROVE  Quota'
<1> SUFFICES ASSUME "overlap" \notin incidents', NEW u \in Workers,
                    job'[u].pc = "remove", job'[u].keep.count > 0,
                    NEW app \in Apps, NEW svc \in Services
             PROVE  Cardinality((Group(app, svc) \cap InScope(job[u])') \ job'[u].doomed)
                      <= job'[u].keep.count
  BY DEF Quota
<1>0. "overlap" \notin incidents /\ Types'
  BY TypesNext
<1> DEFINE S == (Group(app, svc) \cap InScope(job[u])) \ job[u].doomed
           T == (Group(app, svc) \cap InScope(job[u])') \ job'[u].doomed
           k == job'[u].keep.count
<1>1. k \in Nat
  <2>1. job'[u] \in Job
    BY <1>0 DEF Types, TypeOK
  <2> QED
    BY <2>1, KeepIs
<1>2. ASSUME job[u].pc = "remove", job'[u].keep = job[u].keep, T \subseteq S
      PROVE  Cardinality(T) <= k
  <2>1. Cardinality(S) <= k
    BY <1>0, <1>2 DEF Quota
  <2>2. S \subseteq Group(app, svc)
    OBVIOUS
  <2>3. T \in SUBSET S
    BY <1>2
  <2> HIDE DEF S, T, k
  <2>4. Cardinality(T) \in Nat /\ Cardinality(S) \in Nat /\ Cardinality(T) <= Cardinality(S)
    BY <2>2, <2>3, GroupBound
  <2> QED
    BY <1>1, <2>1, <2>4
<1>3. ASSUME job[u].pc = "remove" PROVE Present(local)' \subseteq Present(local)
  BY <1>0, <1>3, FilesNextToRemoval DEF Present
<1>4. CASE job'[u] = job[u]
  <2>1. job[u].pc = "remove"
    BY <1>4
  <2>2. InScope(job[u])' \subseteq InScope(job[u])
    BY <1>3, <1>4, <2>1 DEF InScope
  <2>3. T \subseteq S
    BY <1>4, <2>2
  <2> QED
    BY <1>2, <1>4, <2>1, <2>3
<1>5. CASE Remove(u)
  <2>1. PICK f \in job[u].doomed :
          f \in File /\ AtFile(f, Absent) /\ job'[u].doomed = job[u].doomed \ {f}
    BY <1>5, RemoveEffect
  <2>2. /\ job[u].pc = "remove" /\ job'[u].keep = job[u].keep
        /\ job'[u].target = job[u].target /\ job'[u].svcs = job[u].svcs
    BY <1>5, RemoveEffect
  <2>3. InScope(job[u])' \subseteq InScope(job[u]) /\ f \notin InScope(job[u])'
    BY <1>3, <2>1, <2>2, AbsentContent DEF InScope, Present, AtFile
  <2>4. T \subseteq S
    BY <2>1, <2>3
  <2> QED
    BY <1>2, <2>2, <2>4
<1>6. CASE Prune(u)
  <2>1. /\ job'[u].keep = job[u].keep /\ local' = local
        /\ job'[u].target = job[u].target /\ job'[u].svcs = job[u].svcs
    BY <1>6, PruneEffect
  <2>2. InScope(job[u])' = InScope(job[u])
    BY <2>1 DEF InScope, Present
  <2>3. PICK kept, old \in SUBSET InScope(job[u]) : PruneTakes(u, kept, old)
    BY <1>6, PruneEffect
  <2> DEFINE group == Group(app, svc) \cap InScope(job[u])
             few == Group(app, svc) \cap kept
  <2>4. T \in SUBSET few
    BY <2>2, <2>3 DEF PruneTakes
  <2>5. group \in SUBSET Group(app, svc) /\ few \in SUBSET Group(app, svc)
    OBVIOUS
  <2>6. k = job[u].keep.count /\ k # 0
    BY <1>1, <2>1
  <2>7. k \in Nat \ {0}
    BY <1>1, <2>6
  <2>10. Newest(group, k, few)
    BY <2>3, <2>6 DEF PruneTakes
  <2> HIDE DEF T, k, group, few
  <2>8. Cardinality(few) <= k
    BY <2>5, <2>7, <2>10, NewestIs
  <2>9. Cardinality(T) \in Nat /\ Cardinality(few) \in Nat /\ Cardinality(T) <= Cardinality(few)
    BY <2>4, <2>5, GroupBound
  <2>11. Cardinality(T) <= k
    BY <2>7, <2>8, <2>9
  <2> QED
    BY <2>11 DEF T, k
<1>7. job'[u] = job[u] \/ Prune(u) \/ Remove(u)
  BY NextCases, StillRemoving, TickEffect
<1> QED
  BY <1>4, <1>5, <1>6, <1>7

LEMMA NoneOlder ==
  ASSUME NEW files, NEW days, NEW old, days = 0, TooOld(files, days, old)
  PROVE  old = {}
BY DEF TooOld

LEMMA SparedNext ==
  ASSUME Types, WritersWrite, Bodies, Company, Spared, Next
  PROVE  Spared'
<1> SUFFICES ASSUME incidents' \cap {"kill", "delete", "stray delete", "overlap", "clash"} = {},
                    NEW u \in Workers, job'[u].pc = "remove", job'[u].keep.days = 0,
                    NEW f \in job'[u].doomed
             PROVE  \E g \in Group(f.app, f.svc) : g \notin job'[u].doomed /\ local'[g].body = "whole"
  BY DEF Spared
<1>0. /\ incidents \cap {"kill", "delete", "stray delete", "overlap", "clash"} = {}
      /\ "overlap" \notin incidents /\ "delete" \notin incidents' /\ "stray delete" \notin incidents'
      /\ incidents \cap {"kill", "clash"} = {}
      /\ Types'
  BY TypesNext
<1>1. f \in File
  BY <1>0 DEF Types, TypeOK, Job
<1>2. Group(f.app, f.svc) \subseteq File /\ f \in Group(f.app, f.svc)
      /\ f.app \in Apps /\ f.svc \in Services
  BY <1>1, GroupFile
<1>3. CASE job'[u] = job[u] /\ ~Remove(u)
  <2>1. PICK g \in Group(f.app, f.svc) : g \notin job[u].doomed /\ local[g].body = "whole"
    BY <1>0, <1>3 DEF Spared
  <2>2. local'[g].body = "whole"
    BY <1>0, <1>2, <1>3, <2>1, FilesNextToRemoval
  <2> QED
    BY <1>3, <2>1, <2>2
<1>4. CASE Remove(u)
  <2>1. PICK h \in job[u].doomed : AtFile(h, Absent) /\ job'[u].doomed = job[u].doomed \ {h}
    BY <1>4, RemoveEffect
  <2>2. job[u].pc = "remove" /\ job'[u].keep = job[u].keep
    BY <1>4, RemoveEffect
  <2>3. PICK g \in Group(f.app, f.svc) : g \notin job[u].doomed /\ local[g].body = "whole"
    BY <1>0, <2>1, <2>2 DEF Spared
  <2>4. local'[g] = local[g]
    BY <1>2, <2>1, <2>3 DEF AtFile
  <2> QED
    BY <2>1, <2>3, <2>4
<1>5. CASE Prune(u)
  <2>1. job'[u].keep = job[u].keep /\ local' = local /\ job[u].pc = "prune"
    BY <1>5, PruneEffect
  <2>2. PICK kept, old \in SUBSET InScope(job[u]) : PruneTakes(u, kept, old)
    BY <1>5, PruneEffect
  <2>3. old = {}
    <3>1. TooOld(InScope(job[u]), job[u].keep.days, old)
      BY <2>2 DEF PruneTakes
    <3>2. job[u].keep.days = 0
      BY <2>1
    <3> QED
      BY <3>1, <3>2, NoneOlder
  <2> DEFINE group == Group(f.app, f.svc) \cap InScope(job[u])
             few == Group(f.app, f.svc) \cap kept
             k == job[u].keep.count
  <2>4. f \in group /\ f \notin kept
    BY <1>2, <2>2, <2>3 DEF PruneTakes
  <2>5. k \in Nat \ {0}
    <3>1. k # 0
      BY <2>2, <2>4 DEF PruneTakes
    <3>2. k \in Nat
      BY KeepIs DEF Types, TypeOK
    <3> QED
      BY <3>1, <3>2
  <2>6. Newest(group, k, few)
    BY <1>2, <2>2, <2>5 DEF PruneTakes
  <2>7. group \in SUBSET Group(f.app, f.svc)
    OBVIOUS
  <2>8. few # {}
    <3> HIDE DEF group, few, k
    <3> QED
      BY <2>4, <2>5, <2>6, <2>7, NewestIs
  <2>9. PICK g \in few : TRUE
    BY <2>8
  <2>10. g \in Group(f.app, f.svc) /\ g \notin job'[u].doomed /\ local[g].body # "absent" /\ g \in File
    BY <1>2, <2>2, <2>3, <2>9 DEF InScope, Present, PruneTakes
  <2>11. local[g].body = "whole"
    <3>1. ASSUME NEW x \in Workers, local[g].writers = {x} PROVE FALSE
      <4>1. Writes(job[x], g)
        BY <2>10, <3>1 DEF WritersWrite
      <4>2. Backs(x) /\ Backs(u)
        BY <2>1, <4>1 DEF Writes, Backs, Busily, Types, Placed
      <4> QED
        BY <1>0, <2>1, <4>1, <4>2 DEF Company, Writes
    <3> QED
      BY <1>0, <2>10, <3>1 DEF Bodies
  <2> QED
    BY <2>1, <2>10, <2>11
<1>6. job'[u] = job[u] \/ Prune(u) \/ Remove(u)
  BY NextCases, StillRemoving, TickEffect
<1> QED
  BY <1>3, <1>4, <1>5, <1>6

-----------------------------------------------------------------------------
(* The bucket: an object is put from a file opened to upload, or deleted   *)
(* after its file.                                                         *)
Step(w) ==
  Quiet(w) \/ DeleteByHand(w) \/ Open(w) \/ Close(w) \/ DumpFails(w) \/ Remove(w) \/ Kill(w)

LEMMA StepMoves ==
  ASSUME Types, NEW w \in Workers, Step(w)
  PROVE  Types' /\ incidents \subseteq incidents' /\ \A v \in Workers : v # w => job'[v] = job[v]
BY QuietSteady, DeleteByHandEffect, OpenEffect, CloseEffect, DumpFailsEffect, RemoveEffect,
   KillEffect DEF Step, Moves

LEMMA RemoteUnchanged ==
  ASSUME Types, NEW w \in Workers, Step(w),
         ~(Put(w) \/ UploadFails(w) \/ Unmirror(w) \/ UnmirrorFails(w))
  PROVE  remote' = remote
<1>1. CASE Quiet(w)
  BY <1>1, BeginBackupEffect, BeginSyncEffect, DumpEffect, DumpsDoneEffect, OpenUploadEffect,
     UploadsDoneEffect, PruneEffect, RemoveFailsEffect, RemovesDoneEffect DEF Quiet, Begins
<1>2. CASE ~Quiet(w)
  BY <1>2, DeleteByHandEffect, OpenEffect, CloseEffect, DumpFailsEffect, RemoveEffect,
     KillEffect DEF Step
<1> QED
  BY <1>1, <1>2

LEMMA ObjectChanges ==
  ASSUME Types, NEW w \in Workers, Step(w), NEW f \in File
  PROVE  \/ remote'[f] = remote[f]
         \/ /\ job[w].pc = "put" /\ f \in job[w].file
            /\ remote'[f] = Stored(f, job[w].seen) /\ (Put(w) \/ UploadFails(w))
         \/ /\ job[w].pc = "unmirror" /\ f \in job[w].send
            /\ remote'[f] = "absent" /\ (Unmirror(w) \/ UnmirrorFails(w))
<1>1. CASE Put(w)
  BY <1>1, PutEffect DEF AtObject
<1>2. CASE UploadFails(w)
  BY <1>2, UploadFailsEffect DEF AtObject
<1>3. CASE Unmirror(w)
  BY <1>3, UnmirrorEffect DEF AtObject
<1>4. CASE UnmirrorFails(w)
  BY <1>4, UnmirrorFailsEffect DEF AtObject
<1> QED
  BY <1>1, <1>2, <1>3, <1>4, RemoteUnchanged

LEMMA NoBucketNext ==
  ASSUME Types, NoBucket, Next
  PROVE  NoBucket'
<1> SUFFICES ASSUME ~S3, NEW f \in File PROVE remote'[f] = "absent"
  BY DEF NoBucket
<1>0. remote[f] = "absent"
  BY DEF NoBucket
<1>1. ASSUME NEW w \in Workers, Step(w) PROVE remote'[f] = remote[f]
  <2>1. Placed(job[w])
    BY DEF Types
  <2>2. job[w].pc # "put" /\ job[w].pc # "unmirror"
    BY <2>1 DEF Placed
  <2> QED
    BY <1>1, <2>2, ObjectChanges
<1>2. CASE Tick
  BY <1>0, <1>2, TickEffect
<1> QED
  BY <1>0, <1>1, <1>2, TickEffect, NextCases DEF Step

(* Who comes to write or to upload, and how a file appears or goes.        *)
LEMMA NewWrites ==
  ASSUME Types, NEW w \in Workers, Step(w), NEW f \in File, Writes(job'[w], f)
  PROVE  Writes(job[w], f) \/ Open(w)
BY QuietSteady, DeleteByHandEffect, CloseEffect, DumpFailsEffect, RemoveEffect, KillEffect,
   IdleHasNothing DEF Step, Writes, Steady

LEMMA NewPut ==
  ASSUME Types, NEW w \in Workers, Step(w), job'[w].pc = "put"
  PROVE  OpenUpload(w) \/ (DeleteByHand(w) /\ job'[w] = job[w])
<1>1. CASE Begins(w) \/ NextApp(w) \/ AppFails(w) \/ Skip(w) \/ DumpsDone(w)
  BY <1>1, BeginBackupEffect, BeginSyncEffect, DumpEffect, DumpsDoneEffect, IdleHasNothing DEF Begins
<1>2. CASE Put(w) \/ UploadFails(w) \/ UploadsDone(w) \/ Prune(w)
  BY <1>2, PutEffect, UploadFailsEffect, UploadsDoneEffect, PruneEffect, IdleHasNothing
<1>3. CASE RemoveFails(w) \/ RemovesDone(w) \/ Unmirror(w) \/ UnmirrorFails(w)
  BY <1>3, RemoveFailsEffect, RemovesDoneEffect, UnmirrorEffect, UnmirrorFailsEffect, IdleHasNothing
<1>4. CASE Open(w) \/ Close(w) \/ DumpFails(w) \/ Remove(w) \/ Kill(w)
  BY <1>4, OpenEffect, CloseEffect, DumpFailsEffect, RemoveEffect, KillEffect, IdleHasNothing
<1>5. CASE DeleteByHand(w)
  BY <1>5, DeleteByHandEffect
<1> QED
  BY <1>1, <1>2, <1>3, <1>4, <1>5 DEF Step, Quiet

LEMMA FileAppears ==
  ASSUME Types, WritersWrite, NEW w \in Workers, Step(w), NEW f \in File,
         local[f].body = "absent", local'[f].body # "absent"
  PROVE  Open(w) /\ job'[w].file = {f} /\ Clash(f) \subseteq incidents'
<1>1. CASE Quiet(w) \/ Kill(w)
  BY <1>1, QuietSteady, KillEffect
<1>2. CASE DeleteByHand(w)
  BY <1>2, DeleteByHandEffect, AbsentContent DEF AtFile
<1>3. CASE DumpFails(w)
  BY <1>3, DumpFailsEffect, AbsentContent DEF AtFile
<1>4. CASE Remove(w)
  BY <1>4, RemoveEffect, AbsentContent DEF AtFile
<1>5. CASE Open(w)
  BY <1>5, OpenEffect DEF AtFile
<1>6. CASE Close(w)
  BY <1>6, CloseEffect DEF AtFile, Closed, WritersWrite
<1> QED
  BY <1>1, <1>2, <1>3, <1>4, <1>5, <1>6 DEF Step

LEMMA FileGoes ==
  ASSUME Types, NEW w \in Workers, Step(w), NEW f \in File,
         local[f].body # "absent", local'[f].body = "absent"
  PROVE  (DeleteByHand(w) \/ DumpFails(w) \/ Remove(w)) /\ AtFile(f, Absent)
<1>1. ASSUME Quiet(w) \/ Kill(w) PROVE FALSE
  <2>1. local'[f].body = local[f].body
    BY <1>1, QuietSteady, KillEffect
  <2> QED
    BY <2>1
<1>2. ASSUME Open(w) PROVE FALSE
  <2>1. local'[f] = local[f] \/ local'[f] = Opened(local[f], w)
    BY <1>2, OpenEffect DEF AtFile
  <2>2. Opened(local[f], w).body # "absent"
    BY DEF Opened
  <2> QED
    BY <2>1, <2>2
<1>3. ASSUME Close(w) PROVE FALSE
  <2>1. local'[f] = local[f] \/ local'[f] = Closed(local[f], w)
    BY <1>3, CloseEffect DEF AtFile
  <2>2. Closed(local[f], w).body # "absent"
    BY DEF Closed
  <2> QED
    BY <2>1, <2>2
<1>4. CASE DeleteByHand(w) \/ DumpFails(w) \/ Remove(w)
  <2>1. PICK g \in File : AtFile(g, Absent)
    BY <1>4, DeleteByHandEffect, DumpFailsEffect, RemoveEffect
  <2>2. g = f
    BY <2>1 DEF AtFile
  <2> QED
    BY <1>4, <2>1, <2>2
<1> QED
  BY <1>1, <1>2, <1>3, <1>4 DEF Step

-----------------------------------------------------------------------------
(* What a run has sent, it keeps in the bucket.                            *)
LEMMA SentGrows ==
  ASSUME Types, S3, NEW w \in Workers, Step(w), NEW f \in File, f \in Sent(job'[w])
  PROVE  /\ job'[w].kind = job[w].kind
         /\ f \in Sent(job[w]) \/ (Put(w) /\ f \in job[w].file)
<1>0. ~(f \in Sent(Idle))
  BY IdleHasNothing DEF Sent
<1>1. CASE Begins(w)
  BY <1>1, BeginBackupEffect, BeginSyncEffect DEF Begins, Sent
<1>2. CASE NextApp(w) \/ AppFails(w) \/ Skip(w)
  BY <1>0, <1>2, DumpEffect DEF Sent
<1>3. CASE DumpsDone(w)
  BY <1>0, <1>3, DumpsDoneEffect DEF Sent
<1>4. CASE OpenUpload(w)
  BY <1>4, OpenUploadEffect DEF Sent
<1>5. CASE Put(w)
  BY <1>5, PutEffect DEF Sent
<1>6. CASE UploadFails(w) \/ RemoveFails(w) \/ UnmirrorFails(w) \/ Kill(w)
  BY <1>0, <1>6, UploadFailsEffect, RemoveFailsEffect, UnmirrorFailsEffect, KillEffect
<1>7. CASE UploadsDone(w)
  BY <1>0, <1>7, UploadsDoneEffect DEF Sent
<1>8. CASE Prune(w)
  BY <1>8, PruneEffect DEF Sent
<1>9. CASE RemovesDone(w)
  BY <1>0, <1>9, RemovesDoneEffect DEF Sent
<1>10. CASE Unmirror(w)
  BY <1>0, <1>10, UnmirrorEffect DEF Sent
<1>11. CASE DeleteByHand(w)
  BY <1>11, DeleteByHandEffect DEF Sent
<1>12. CASE Open(w)
  BY <1>12, OpenEffect DEF Sent
<1>13. CASE Close(w)
  BY <1>13, CloseEffect DEF Sent
<1>14. CASE DumpFails(w)
  BY <1>14, DumpFailsEffect DEF Sent
<1>15. CASE Remove(w)
  BY <1>15, RemoveEffect DEF Sent
<1> QED
  BY <1>1, <1>2, <1>3, <1>4, <1>5, <1>6, <1>7, <1>8, <1>9, <1>10, <1>11, <1>12, <1>13, <1>14,
     <1>15 DEF Step, Quiet

LEMMA SentOut ==
  ASSUME NEW j \in Job, Placed(j), NEW f \in Sent(j), j.kind # "sync"
  PROVE  f \in j.out /\ j.pc # "idle" /\ j.kind \in BackupKinds
BY DEF Sent, Placed

LEMMA MirroredNext ==
  ASSUME Types, WritersWrite, Names, Company, Mirrored, Next
  PROVE  Mirrored'
<1> SUFFICES ASSUME S3, incidents' \cap {"mix", "clash"} = {}, NEW u \in Workers,
                    job'[u].kind # "sync"
             PROVE  /\ \A f \in Sent(job'[u]) : local'[f].body # "absent" => remote'[f] = "whole"
                    /\ job'[u].pc = "put" => job'[u].seen = "whole"
  BY DEF Mirrored
<1>0. /\ incidents \cap {"mix", "clash"} = {} /\ "mix" \notin incidents
      /\ "clash" \notin incidents /\ "clash" \notin incidents'
  BY TypesNext
<1>1. ASSUME NEW v \in Workers, job[v].kind # "sync"
      PROVE  /\ \A f \in Sent(job[v]) : local[f].body # "absent" => remote[f] = "whole"
             /\ job[v].pc = "put" => job[v].seen = "whole"
  BY <1>0, <1>1 DEF Mirrored
<1>2. \A v \in Workers : job[v] \in Job /\ Placed(job[v])
  BY DEF Types, TypeOK
(* Of a file that was put, what a backup produced and is still there.      *)
<1>3. ASSUME NEW w \in Workers, NEW v \in Workers, NEW f \in File, f \in job[v].out,
             local[f].body # "absent", job[w].pc = "put", job[w].kind # "sync"
      PROVE  Stored(f, job[w].seen) = "whole"
  <2>1. job[w].seen = "whole"
    BY <1>1, <1>3
  <2>2. local[f].body = "whole"
    BY <1>0, <1>3 DEF Names, NameOf
  <2> QED
    BY <2>1, <2>2 DEF Stored
<1>4. ASSUME NEW w \in Workers, Step(w), NEW f \in Sent(job'[u]), local'[f].body # "absent"
      PROVE  remote'[f] = "whole"
  <2>1. f \in File
    BY <1>4, StepMoves DEF Sent, Types, TypeOK, Job
  <2>2. /\ job'[u].kind = job[u].kind
        /\ f \in Sent(job[u]) \/ (u = w /\ Put(w) /\ f \in job[w].file)
    BY <1>4, <2>1, SentGrows, StepMoves
  <2>3. /\ f \in job[u].out /\ job[u].kind \in BackupKinds /\ job[u].kind # "sync"
        /\ job[u].pc # "idle"
    <3>1. CASE f \in Sent(job[u])
      BY <1>2, <2>2, <3>1, SentOut
    <3>2. CASE u = w /\ Put(w) /\ f \in job[w].file
      BY <1>2, <2>2, <3>2, PutEffect DEF Placed
    <3> QED
      BY <2>2, <3>1, <3>2
  <2>4. local[f].body # "absent"
    <3> SUFFICES ASSUME local[f].body = "absent" PROVE FALSE
      OBVIOUS
    <3>1. Clash(f) \subseteq incidents'
      BY <1>4, <2>1, FileAppears
    <3> QED
      BY <1>0, <2>1, <2>3, <3>1, Unclashed
  <2>5. CASE remote'[f] = remote[f] /\ f \in Sent(job[u])
    BY <1>1, <2>3, <2>4, <2>5
  <2>6. CASE u = w /\ Put(w) /\ f \in job[w].file
    <3>1. PICK g \in File : job[w].file = {g} /\ AtObject(g, Stored(g, job[w].seen))
      BY <2>6, PutEffect
    <3>2. g = f /\ job[w].pc = "put"
      BY <2>6, <3>1, PutEffect
    <3>3. Stored(f, job[w].seen) = "whole"
      BY <1>3, <2>1, <2>3, <2>4, <2>6, <3>2
    <3> QED
      BY <3>1, <3>2, <3>3 DEF AtObject
  <2>7. CASE job[w].pc = "put" /\ remote'[f] = Stored(f, job[w].seen)
    <3>1. job[w].kind # "sync"
      BY <1>0, <2>3, <2>7 DEF Company, Backs, Busily
    <3> QED
      BY <1>3, <2>1, <2>3, <2>4, <2>7, <3>1
  <2>8. CASE job[w].pc = "unmirror" /\ f \in job[w].send
    <3>1. local[f].body = "absent"
      BY <1>0, <2>1, <2>8 DEF Names, NameOf, Dropped
    <3> QED
      BY <2>4, <3>1
  <2> QED
    BY <1>4, <2>1, <2>2, <2>5, <2>6, <2>7, <2>8, ObjectChanges
<1>5. ASSUME NEW w \in Workers, Step(w), job'[u].pc = "put"
      PROVE  job'[u].seen = "whole"
  <2>1. CASE job'[u] = job[u]
    BY <1>1, <1>5, <2>1
  <2>2. CASE u = w /\ OpenUpload(w)
    <3>1. PICK f \in job[w].send \cap Present(local) :
            job'[w].file = {f} /\ job'[w].seen = local[f].body
      BY <2>2, OpenUploadEffect
    <3>2. job[w].pc = "upload" /\ job[w].kind = job'[w].kind
      BY <2>2, OpenUploadEffect
    <3>3. f \in job[w].out
      BY <1>2, <2>2, <3>1, <3>2 DEF Placed
    <3>4. local[f].body \in {"absent", "whole"} /\ local[f].body # "absent"
      BY <1>0, <3>1, <3>3 DEF Names, NameOf, Present
    <3> QED
      BY <2>2, <3>1, <3>4
  <2> QED
    BY <1>5, <2>1, <2>2, NewPut, StepMoves
<1>6. CASE Tick
  BY <1>1, <1>6, TickEffect
<1> QED
  BY <1>4, <1>5, <1>6, NextCases DEF Step

-----------------------------------------------------------------------------
(* The bucket follows the directory while jobs come one after the other.   *)
LEMMA StillToUnmirror ==
  ASSUME Types, NEW w \in Workers, Step(w), "unmirrored" \notin incidents', S3,
         NEW f \in File, ToUnmirror(job[w], f)
  PROVE  ToUnmirror(job'[w], f) \/ remote'[f] = "absent"
<1>1. CASE job[w].pc = "remove" /\ f \in job[w].pruned
  <2>1. CASE Remove(w)
    BY <1>1, <2>1, RemoveEffect DEF ToUnmirror
  <2>2. CASE RemovesDone(w)
    BY <1>1, <2>2, RemovesDoneEffect DEF ToUnmirror
  <2>3. CASE RemoveFails(w) \/ Kill(w)
    <3>1. Unmirrored(job[w].pruned) \subseteq incidents'
      BY <1>1, <2>3, RemoveFailsEffect, KillEffect
    <3> QED
      BY <1>1, <3>1 DEF Unmirrored
  <2>4. CASE Quiet(w) /\ ~RemovesDone(w) /\ ~RemoveFails(w)
    BY <1>1, <2>4 DEF Quiet, Begins, BeginBackup, BeginSync, NextApp, AppFails, Skip, DumpsDone,
       OpenUpload, Put, UploadFails, UploadsDone, Prune, Unmirror, UnmirrorFails
  <2>5. CASE DeleteByHand(w) \/ Open(w) \/ Close(w) \/ DumpFails(w)
    BY <1>1, <2>5 DEF DeleteByHand, Open, Close, DumpFails
  <2> QED
    BY <2>1, <2>2, <2>3, <2>4, <2>5 DEF Step
<1>2. CASE job[w].pc = "unmirror" /\ f \in job[w].send
  <2>1. CASE Unmirror(w)
    BY <1>2, <2>1, UnmirrorEffect DEF ToUnmirror, AtObject
  <2>2. CASE UnmirrorFails(w) \/ Kill(w)
    BY <1>2, <2>2, UnmirrorFailsEffect, KillEffect
  <2>3. CASE Quiet(w) /\ ~Unmirror(w) /\ ~UnmirrorFails(w)
    BY <1>2, <2>3 DEF Quiet, Begins, BeginBackup, BeginSync, NextApp, AppFails, Skip, DumpsDone,
       OpenUpload, Put, UploadFails, UploadsDone, Prune, RemoveFails, RemovesDone
  <2>4. CASE DeleteByHand(w) \/ Open(w) \/ Close(w) \/ DumpFails(w) \/ Remove(w)
    BY <1>2, <2>4 DEF DeleteByHand, Open, Close, DumpFails, Remove
  <2> QED
    BY <2>1, <2>2, <2>3, <2>4 DEF Step
<1> QED
  BY <1>1, <1>2 DEF ToUnmirror

LEMMA FollowingNext ==
  ASSUME Types, WritersWrite, Company, NoBucket, Following, Next
  PROVE  Following'
<1> SUFFICES ASSUME incidents' \cap {"stray delete", "overlap", "clash", "mix", "unmirrored"} = {},
                    NEW f \in File
             PROVE  /\ remote'[f] # "absent" /\ local'[f].body = "absent" =>
                         \E x \in Workers : ToUnmirror(job'[x], f)
                    /\ \A u \in Workers :
                         /\ Writes(job'[u], f) => remote'[f] = "absent"
                         /\ job'[u].pc = "put" /\ f \in job'[u].file => local'[f].body # "absent"
  BY DEF Following
<1>0. /\ incidents \cap {"stray delete", "overlap", "clash", "mix", "unmirrored"} = {}
      /\ incidents \cap {"overlap", "mix", "stray delete"} = {}
      /\ "stray delete" \notin incidents' /\ "clash" \notin incidents'
      /\ "unmirrored" \notin incidents'
  BY TypesNext
<1>1. /\ remote[f] # "absent" /\ local[f].body = "absent" =>
           \E x \in Workers : ToUnmirror(job[x], f)
      /\ \A u \in Workers :
           /\ Writes(job[u], f) => remote[f] = "absent"
           /\ job[u].pc = "put" /\ f \in job[u].file => local[f].body # "absent"
  BY <1>0 DEF Following
<1>2. ASSUME NEW u \in Workers, NEW v \in Workers, job[u].pc # "idle", job[v].pc # "idle"
      PROVE  u = v
  BY <1>0, <1>2 DEF Company, Busily
<1>3. CASE Tick
  BY <1>1, <1>3, TickEffect
<1>4. ASSUME NEW w \in Workers, Step(w), remote'[f] # "absent", local'[f].body = "absent"
      PROVE  \E x \in Workers : ToUnmirror(job'[x], f)
  <2>0. \A v \in Workers : v # w => job'[v] = job[v]
    BY <1>4, StepMoves
  <2>1. CASE remote[f] # "absent" /\ local[f].body = "absent"
    <3>1. PICK x \in Workers : ToUnmirror(job[x], f)
      BY <1>1, <2>1
    <3>2. S3
      BY <2>1 DEF NoBucket
    <3>3. ToUnmirror(job'[x], f)
      BY <1>0, <1>4, <2>0, <3>1, <3>2, StillToUnmirror
    <3> QED
      BY <3>3
  <2>2. CASE remote[f] = "absent" /\ local[f].body = "absent"
    BY <1>1, <1>4, <2>2, ObjectChanges
  <2>3. CASE local[f].body # "absent"
    <3>1. (DeleteByHand(w) \/ DumpFails(w) \/ Remove(w)) /\ AtFile(f, Absent)
      BY <1>4, <2>3, FileGoes
    <3>2. CASE DeleteByHand(w)
      <4>1. PICK g \in File :
              /\ AtFile(g, Absent)
              /\ \/ job'[w] = job[w] /\ (S3 => "stray delete" \in incidents')
                 \/ job'[w].pc = "unmirror" /\ job'[w].send = {g}
        BY <3>2, DeleteByHandEffect
      <4>2. g = f
        BY <1>4, <2>3, <4>1 DEF AtFile
      <4>3. S3
        BY <1>4, <3>2, DeleteByHandEffect DEF NoBucket
      <4> QED
        BY <1>0, <4>1, <4>2, <4>3 DEF ToUnmirror
    <3>3. CASE DumpFails(w)
      <4>1. PICK g \in File : /\ AtFile(g, Absent)
                              /\ \/ job[w].pc = "dump" /\ Clash(g) \subseteq incidents'
                                 \/ job[w].pc = "writing" /\ job[w].file = {g}
        BY <3>3, DumpFailsEffect
      <4>2. g = f
        BY <1>4, <2>3, <4>1 DEF AtFile
      <4>3. Writes(job[w], f)
        BY <1>0, <2>3, <4>1, <4>2, Unclashed DEF Writes
      <4>4. remote'[f] = remote[f]
        BY <3>3, DumpFailsEffect
      <4> QED
        BY <1>1, <1>4, <4>3, <4>4
    <3>4. CASE Remove(w)
      <4>1. PICK g \in File : AtFile(g, Absent) /\ job'[w].pruned = job[w].pruned \cup {g}
        BY <3>4, RemoveEffect
      <4>2. g = f
        BY <1>4, <2>3, <4>1 DEF AtFile
      <4> QED
        BY <3>4, <4>1, <4>2, RemoveEffect DEF ToUnmirror
    <3> QED
      BY <3>1, <3>2, <3>3, <3>4
  <2> QED
    BY <2>1, <2>2, <2>3
<1>5. ASSUME NEW w \in Workers, Step(w), NEW u \in Workers, Writes(job'[u], f)
      PROVE  remote'[f] = "absent"
  <2>1. CASE Writes(job[u], f)
    <3>1. remote[f] = "absent"
      BY <1>1, <2>1
    <3>2. ~(job[w].pc = "put")
      BY <1>2, <2>1 DEF Writes
    <3> QED
      BY <1>5, <3>1, <3>2, ObjectChanges
  <2>2. CASE ~Writes(job[u], f)
    <3>1. u = w /\ Open(w)
      BY <1>5, <2>2, NewWrites, StepMoves
    <3>2. PICK g \in File : job'[w].file = {g} /\ Clash(g) \subseteq incidents'
      BY <3>1, OpenEffect
    <3>3. g = f
      BY <1>5, <3>1, <3>2 DEF Writes
    <3>4. remote[f] = "absent" /\ remote' = remote
      BY <1>0, <3>1, <3>2, <3>3, Unclashed, OpenEffect
    <3> QED
      BY <3>4
  <2> QED
    BY <2>1, <2>2
<1>6. ASSUME NEW w \in Workers, Step(w), NEW u \in Workers,
             job'[u].pc = "put", f \in job'[u].file, local'[f].body = "absent"
      PROVE  FALSE
  <2>1. CASE u = w /\ OpenUpload(w)
    <3>1. PICK g \in job[w].send \cap Present(local) : job'[w].file = {g}
      BY <2>1, OpenUploadEffect
    <3>2. g = f /\ local' = local
      BY <1>6, <2>1, <3>1, OpenUploadEffect
    <3> QED
      BY <1>6, <3>1, <3>2 DEF Present
  <2>2. CASE job'[u] = job[u]
    <3>1. local[f].body # "absent"
      BY <1>1, <1>6, <2>2
    <3>2. DeleteByHand(w) \/ DumpFails(w) \/ Remove(w)
      BY <1>6, <3>1, FileGoes
    <3>3. CASE DeleteByHand(w)
      <4>1. u \in Busy(AllKinds)
        BY <1>6, <2>2 DEF Busy, Types, TypeOK, Job
      <4> QED
        BY <1>0, <3>3, <4>1, DeleteByHandEffect
    <3>4. CASE DumpFails(w) \/ Remove(w)
      <4>1. job[w].pc # "idle" /\ job[w].pc # "put"
        BY <3>4, DumpFailsEffect, RemoveEffect
      <4> QED
        BY <1>2, <1>6, <2>2, <4>1
    <3> QED
      BY <3>2, <3>3, <3>4
  <2> QED
    BY <1>6, <2>1, <2>2, NewPut, StepMoves
<1> QED
  BY <1>3, <1>4, <1>5, <1>6, NextCases DEF Step

-----------------------------------------------------------------------------
(* The theorems.                                                           *)
LEMMA KeepingInit == Init => Keeping
<1> SUFFICES ASSUME Init PROVE Keeping
  OBVIOUS
<1>0. /\ \A w \in Workers : job[w] = Idle
      /\ \A f \in File : local[f] = Absent /\ remote[f] = "absent"
  BY DEF Init
<1>1. Types
  <2>1. now \in Time
    BY TimeAssumption DEF Init, Time
  <2>2. Idle.file # {} <=> Idle.pc \in {"writing", "put"}
    BY DEF Idle
  <2> QED
    BY <1>0, <2>1, <2>2, IdleJob, AbsentContent DEF Init, Types, TypeOK
<1>2. WritersWrite /\ Bodies /\ NoBucket
  BY <1>0, AbsentContent DEF WritersWrite, Bodies, NoBucket
<1>3. Names
  BY <1>0, IdleHasNothing DEF Names, NameOf
<1>4. Company /\ Spared /\ Quota
  BY <1>0, IdleHasNothing DEF Company, Spared, Quota, Backs, Busily
<1>5. Mirrored
  BY <1>0, IdleHasNothing DEF Mirrored, Sent
<1>6. Following
  BY <1>0, IdleHasNothing DEF Following
<1> QED
  BY <1>1, <1>2, <1>3, <1>4, <1>5, <1>6 DEF Keeping

LEMMA KeepingNext == Keeping /\ [Next]_vars => Keeping'
<1> SUFFICES ASSUME Keeping, [Next]_vars PROVE Keeping'
  OBVIOUS
<1>1. CASE Next
  BY <1>1, TypesNext, WritersWriteNext, NamesNext, BodiesNext, CompanyNext, SparedNext, QuotaNext,
     MirroredNext, NoBucketNext, FollowingNext DEF Keeping
<1>2. CASE UNCHANGED vars
  <2>1. Types' /\ WritersWrite' /\ Names'
    BY <1>2 DEF vars, Keeping, Types, TypeOK, WritersWrite, Names, NameOf
  <2>2. Bodies' /\ Company' /\ NoBucket' /\ Following'
    BY <1>2 DEF vars, Keeping, Bodies, Company, Backs, Busily, NoBucket, Following
  <2>3. Spared' /\ Mirrored'
    BY <1>2 DEF vars, Keeping, Spared, Mirrored
  <2>4. Quota'
    BY <1>2 DEF vars, Keeping, Quota, InScope, Present
  <2> QED
    BY <2>1, <2>2, <2>3, <2>4 DEF Keeping
<1> QED
  BY <1>1, <1>2

(* In every behaviour of the backup store its inductive invariant holds.   *)
THEOREM BackupInvariant == Spec => []Keeping
BY KeepingInit, KeepingNext, PTL DEF Spec

(* Every variable has its type, and a job has a file open at the           *)
(* statements that write or send one (BackupApp, PutFile), only there.     *)
THEOREM BackupTypeOK == Spec => []TypeOK
<1>1. Keeping => TypeOK
  BY DEF Keeping, Types
<1> QED
  BY <1>1, BackupInvariant, PTL

(* BackupApp leaves no half-written file behind, whatever dump failed,     *)
(* unless its writer was killed or two backups shared a name.              *)
THEOREM BackupOnDiskWhole == Spec => []OnDiskWhole
<1>1. Keeping => OnDiskWhole
  BY DEF Keeping, Bodies, OnDiskWhole, Present
<1> QED
  BY <1>1, BackupInvariant, PTL

(* A run that pruned without an error leaves no more files of an app's     *)
(* service than its retention keeps, while no other backup was under way.  *)
THEOREM BackupQuotaMet == Spec => []QuotaMet
<1>1. Keeping => QuotaMet
  <2> SUFFICES ASSUME Keeping, NEW w \in Workers, job[w].pc = "remove", job[w].doomed = {},
                      job[w].keep.count > 0, "overlap" \notin incidents,
                      NEW app \in Apps, NEW svc \in Services
               PROVE  Cardinality(Group(app, svc) \cap InScope(job[w])) <= job[w].keep.count
    BY DEF QuotaMet
  <2>1. Cardinality((Group(app, svc) \cap InScope(job[w])) \ job[w].doomed) <= job[w].keep.count
    BY DEF Keeping, Quota
  <2>2. (Group(app, svc) \cap InScope(job[w])) \ job[w].doomed = Group(app, svc) \cap InScope(job[w])
    OBVIOUS
  <2> QED
    BY <2>1, <2>2
<1> QED
  BY <1>1, BackupInvariant, PTL

(* A run that comes to its retention has a whole copy in the bucket of     *)
(* every file it produced that is still there, unless an upload of         *)
(* everything ran next to it or a name was used twice.                     *)
THEOREM BackupMirrorComplete == Spec => []MirrorComplete
<1>1. Keeping => MirrorComplete
  <2> SUFFICES ASSUME Keeping, NEW w \in Workers, S3, job[w].kind # "sync",
                      job[w].pc \in {"prune", "remove"} \/ (job[w].pc = "upload" /\ job[w].send = {}),
                      incidents \cap {"mix", "clash"} = {}, NEW f \in job[w].out,
                      local[f].body # "absent"
               PROVE  remote[f] = "whole"
    BY DEF MirrorComplete
  <2>1. f \in Sent(job[w])
    BY DEF Sent
  <2> QED
    BY <2>1 DEF Keeping, Mirrored
<1> QED
  BY <1>1, BackupInvariant, PTL

(* Between jobs that came one after the other the bucket holds nothing     *)
(* the directory has lost, unless a remote deletion failed.                *)
THEOREM BackupMirrorFollows == Spec => []MirrorFollows
<1>1. Keeping => MirrorFollows
  <2> SUFFICES ASSUME Keeping, Busy(AllKinds) = {},
                      incidents \cap {"stray delete", "overlap", "clash", "mix", "unmirrored"} = {},
                      NEW f \in File, remote[f] # "absent"
               PROVE  local[f].body # "absent"
    BY DEF MirrorFollows, Present
  <2>1. \A w \in Workers : job[w].pc = "idle"
    BY DEF Busy, Keeping, Types, TypeOK, Job
  <2> QED
    BY <2>1 DEF Keeping, Following, ToUnmirror
<1> QED
  BY <1>1, BackupInvariant, PTL

(* Retention by count never takes the last whole backup of an app's        *)
(* service, as long as no writer was killed, no two backups were under way *)
(* together or shared a name, and nobody deleted a file by hand.           *)
THEOREM BackupLastBackupStays == Spec => LastBackupStays
<1> DEFINE Stays ==
             \A app \in Apps, svc \in Services :
               /\ incidents' \cap {"kill", "delete", "stray delete", "overlap", "clash"} = {}
               /\ \A w \in Workers : job[w].keep.days = 0
               /\ HasWhole(local, app, svc)
               => HasWhole(local', app, svc)
<1>1. Keeping /\ [Next]_vars => [Stays]_vars
  <2> SUFFICES ASSUME Keeping, Next, NEW app \in Apps, NEW svc \in Services,
                      incidents' \cap {"kill", "delete", "stray delete", "overlap", "clash"} = {},
                      \A w \in Workers : job[w].keep.days = 0,
                      HasWhole(local, app, svc)
               PROVE  HasWhole(local', app, svc)
    OBVIOUS
  <2>0. /\ Types /\ Names
        /\ "delete" \notin incidents' /\ "stray delete" \notin incidents'
        /\ "clash" \notin incidents' /\ "clash" \notin incidents
        /\ incidents \cap {"kill", "delete", "stray delete", "overlap", "clash"} = {}
    BY TypesNext DEF Keeping
  <2>1. PICK g \in Group(app, svc) : local[g].body = "whole"
    BY DEF HasWhole
  <2>2. g \in File /\ g.app = app /\ g.svc = svc
    BY <2>1 DEF Group
  <2>3. ASSUME NEW w \in Workers, Quiet(w) \/ Kill(w) PROVE local'[g].body = "whole"
    BY <2>1, <2>2, <2>3, <2>0, QuietSteady, KillEffect
  <2>4. ASSUME NEW w \in Workers, Open(w) PROVE local'[g].body = "whole"
    <3>1. PICK f \in File : AtFile(f, Opened(local[f], w)) /\ Clash(f) \subseteq incidents'
      BY <2>0, <2>4, OpenEffect
    <3>2. f # g
      BY <2>0, <2>1, <3>1, Unclashed
    <3> QED
      BY <2>1, <2>2, <3>1, <3>2 DEF AtFile
  <2>5. ASSUME NEW w \in Workers, Close(w) PROVE local'[g].body = "whole"
    <3>1. local'[g] = local[g] \/ local'[g] = Closed(local[g], w)
      BY <2>0, <2>2, <2>5, CloseEffect DEF AtFile
    <3>2. Closed(local[g], w).body = "whole"
      BY <2>1 DEF Closed
    <3> QED
      BY <2>1, <3>1, <3>2
  <2>6. ASSUME NEW w \in Workers, DumpFails(w) PROVE local'[g].body = "whole"
    <3>1. PICK f \in File : /\ AtFile(f, Absent)
                            /\ \/ job[w].pc = "dump" /\ Clash(f) \subseteq incidents'
                               \/ job[w].pc = "writing" /\ job[w].file = {f}
      BY <2>0, <2>6, DumpFailsEffect
    <3>2. local[f].body # "whole"
      BY <2>0, <3>1, Unclashed DEF Names, NameOf, Writes
    <3> QED
      BY <2>1, <2>2, <3>1, <3>2 DEF AtFile
  <2>7. ASSUME NEW w \in Workers, Remove(w) PROVE HasWhole(local', app, svc)
    <3>1. PICK f \in job[w].doomed : f \in File /\ AtFile(f, Absent)
      BY <2>0, <2>7, RemoveEffect
    <3>2. CASE f = g
      <4>1. PICK h \in Group(app, svc) : h \notin job[w].doomed /\ local[h].body = "whole"
        BY <2>0, <2>2, <2>7, <3>1, <3>2, RemoveEffect DEF Keeping, Spared
      <4>2. h \in File /\ h # f
        BY <3>1, <4>1, GroupFile
      <4>3. local'[h].body = "whole"
        BY <3>1, <4>1, <4>2 DEF AtFile
      <4> QED
        BY <4>1, <4>3 DEF HasWhole
    <3>3. CASE f # g
      BY <2>1, <2>2, <3>1, <3>3 DEF AtFile, HasWhole
    <3> QED
      BY <3>2, <3>3
  <2>8. ASSUME NEW w \in Workers, DeleteByHand(w) PROVE FALSE
    BY <2>0, <2>8, DeleteByHandEffect
  <2>9. CASE Tick
    BY <2>0, <2>1, <2>9, TickEffect
  <2> QED
    BY <2>1, <2>3, <2>4, <2>5, <2>6, <2>7, <2>8, <2>9, NextCases DEF HasWhole
<1>2. Spec => [][Stays]_vars
  BY <1>1, BackupInvariant, PTL DEF Spec
<1> QED
  BY <1>2 DEF LastBackupStays

=============================================================================
