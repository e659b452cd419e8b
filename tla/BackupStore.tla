----------------------------- MODULE BackupStore -----------------------------
(***************************************************************************)
(* The backup files: backups/<app>/<service>_<timestamp>.<ext>, their S3   *)
(* mirror, and the jobs that write, upload, prune and delete them.  A job  *)
(* is a scheduled run, a backup from the web page or the command line, an  *)
(* "upload all", or a deletion.  Every file or S3 call is a step, so jobs  *)
(* interleave between any two of them.                                     *)
(*                                                                         *)
(* Loops over services, files and groups take their elements in any order. *)
(***************************************************************************)
EXTENDS Naturals, FiniteSets

CONSTANTS
  Apps,        \* registered apps
  Services,    \* services that can be backed up
  Has,         \* app -> its services that can be backed up
  Workers,     \* jobs that may be under way together
  Kinds,       \* worker -> kinds of job it is given
  Retentions,  \* retention of the schedules: [days, count], 0 disables a rule
  S3,          \* an S3 bucket is configured
  MayKill,     \* a job's process may be killed
  Day,         \* seconds in a day of the model
  MaxNow,      \* bound on time
  MaxIncidents \* bound on the kinds of incident in a behaviour

BackupKinds == {"scheduled", "web", "cli"}
AllKinds == BackupKinds \cup {"sync", "delete", "cli delete"}

ASSUME HasAssumption == Has \in [Apps -> SUBSET Services]
ASSUME KindsAssumption == Kinds \in [Workers -> SUBSET AllKinds]
ASSUME RetentionsAssumption == Retentions \subseteq [days : Nat, count : Nat]
ASSUME FlagsAssumption == S3 \in BOOLEAN /\ MayKill \in BOOLEAN
ASSUME TimeAssumption == Day \in Nat \ {0} /\ MaxNow \in Nat /\ MaxIncidents \in Nat

VARIABLES
  now,        \* the clock, in seconds
  local,      \* file name -> what the backups directory holds under it
  remote,     \* file name -> what the bucket holds under it
  job,        \* worker -> its job
  incidents   \* history: what happened that the code does not make good

vars == <<now, local, remote, job, incidents>>

Time == 0..MaxNow
File == [app : Apps, svc : Services, ts : Time]
Group(app, svc) == {f \in File : f.app = app /\ f.svc = svc}

(***************************************************************************)
(* A local file: half written, written by two jobs at once, or whole; its  *)
(* modification time, and the jobs that have it open for writing.          *)
(***************************************************************************)
Content ==
  [body : {"absent", "partial", "mixed", "whole"}, mtime : Time, writers : SUBSET Workers]
Absent == [body |-> "absent", mtime |-> 0, writers |-> {}]

Present(files) == {f \in File : files[f].body # "absent"}

KeepAll == [days |-> 0, count |-> 0]
Retention == Retentions \cup {KeepAll}

Job ==
  [pc : {"idle", "dump", "writing", "upload", "put", "prune", "remove", "unmirror"},
   kind : AllKinds,
   all : BOOLEAN,            \* every app, not one
   target : SUBSET Apps,     \* apps asked for
   apps : SUBSET Apps,       \* apps left to back up
   svcs : SUBSET Services,   \* services asked for; none: all of them
   keep : Retention,
   todo : SUBSET File,       \* files of the app at hand left to dump
   out : SUBSET File,        \* the files produced
   file : SUBSET File,       \* the file being written or uploaded
   seen : {"none", "partial", "mixed", "whole"},  \* what was opened for upload
   send : SUBSET File,       \* files left to upload, or to delete remotely
   doomed : SUBSET File,     \* files left to prune
   pruned : SUBSET File]     \* files pruned

Idle ==
  [pc |-> "idle", kind |-> "cli", all |-> FALSE, target |-> {}, apps |-> {},
   svcs |-> {}, keep |-> KeepAll, todo |-> {}, out |-> {}, file |-> {}, seen |-> "none",
   send |-> {}, doomed |-> {}, pruned |-> {}]

Goto(w, j) == job' = [job EXCEPT ![w] = j]
End(w) == Goto(w, Idle)

Note(tags) ==
  /\ incidents' = incidents \cup tags
  /\ Cardinality(incidents') <= MaxIncidents

Busy(kinds) == {w \in Workers : job[w].pc # "idle" /\ job[w].kind \in kinds}

Init ==
  /\ now = 0
  /\ local = [f \in File |-> Absent]
  /\ remote = [f \in File |-> "absent"]
  /\ job = [w \in Workers |-> Idle]
  /\ incidents = {}

(***************************************************************************)
(* Starting a job.  Two jobs under way together are an incident: "overlap" *)
(* for two backups, "mix" for an upload of everything or a deletion next   *)
(* to anything else.  A deletion is one too: "delete" if it comes alone    *)
(* and goes on to the bucket, "stray delete" if not.                       *)
(***************************************************************************)
Meeting(kind) ==
  LET others == {job[v].kind : v \in Busy(AllKinds)}
  IN  {i \in {"overlap", "mix"} :
         IF i = "overlap" THEN kind \in BackupKinds /\ others \cap BackupKinds # {}
         ELSE others # {} /\ ({kind} \cup others) \ BackupKinds # {}}

(* BackupApp or BackupAll, from the command line, the web page or cron. *)
BeginBackup(w) ==
  \E kind \in Kinds[w] \cap BackupKinds, all \in BOOLEAN, app \in Apps,
     svcs \in {{}} \cup {{s} : s \in Services}, keep \in Retentions :
    /\ job[w].pc = "idle"
    /\ Goto(w, [Idle EXCEPT !.pc = "dump", !.kind = kind, !.all = all,
                            !.target = IF all THEN Apps ELSE {app},
                            !.apps = IF all THEN Apps ELSE {app}, !.svcs = svcs,
                            !.keep = IF kind = "scheduled" THEN keep ELSE KeepAll])
    /\ Note(Meeting(kind))
    /\ UNCHANGED <<now, local, remote>>

(* UploadAll: every file the directory lists. *)
BeginSync(w) ==
  /\ S3 /\ "sync" \in Kinds[w] /\ job[w].pc = "idle" /\ Present(local) # {}
  /\ Goto(w, [Idle EXCEPT !.pc = "upload", !.kind = "sync", !.send = Present(local)])
  /\ Note(Meeting("sync"))
  /\ UNCHANGED <<now, local, remote>>

(* DeleteFile of the web page deletes the remote copy next; DeleteBackup   *)
(* of the command line knows no bucket.                                    *)
DeleteByHand(w) ==
  \E kind \in Kinds[w] \cap {"delete", "cli delete"}, f \in Present(local) :
    /\ job[w].pc = "idle"
    /\ local' = [local EXCEPT ![f] = Absent]
    /\ IF kind = "delete" /\ S3
       THEN Goto(w, [Idle EXCEPT !.pc = "unmirror", !.kind = kind, !.send = {f}])
       ELSE UNCHANGED job
    /\ Note(IF kind = "delete" /\ Busy(AllKinds) = {} THEN {"delete"} ELSE {"stray delete"})
    /\ UNCHANGED <<now, remote>>

(***************************************************************************)
(* BackupApp: one app at a time, one file per service.                     *)
(***************************************************************************)
Chosen(app, svcs) == {s \in Has[app] : svcs = {} \/ s \in svcs}

NextApp(w) ==
  /\ job[w].pc = "dump" /\ job[w].todo = {}
  /\ \E app \in job[w].apps :
       /\ Chosen(app, job[w].svcs) # {}
       /\ Goto(w, [job[w] EXCEPT
             !.apps = @ \ {app},
             !.todo = {[app |-> app, svc |-> s, ts |-> now] : s \in Chosen(app, job[w].svcs)}])
  /\ UNCHANGED <<now, local, remote, incidents>>

(* An app with no such service, a registry that cannot be read or a        *)
(* directory that cannot be made: BackupAll goes on with the next app.     *)
AppFails(w) ==
  /\ job[w].pc = "dump" /\ job[w].todo = {}
  /\ \E app \in job[w].apps :
       IF job[w].all THEN Goto(w, [job[w] EXCEPT !.apps = @ \ {app}])
       ELSE End(w)
  /\ UNCHANGED <<now, local, remote, incidents>>

(* The container of the service is not running. *)
Skip(w) ==
  /\ job[w].pc = "dump"
  /\ \E f \in job[w].todo : Goto(w, [job[w] EXCEPT !.todo = @ \ {f}])
  /\ UNCHANGED <<now, local, remote, incidents>>

(* os.Create, or WriteFile: a file of that name is truncated and kept. *)
Opened(c, w) ==
  [body |-> IF c.writers = {} THEN "partial" ELSE "mixed",
   mtime |-> now, writers |-> c.writers \cup {w}]

(* A name in use already belongs to a backup of the same second: "clash". *)
Clash(f) ==
  IF /\ local[f].body = "absent" /\ remote[f] = "absent"
     /\ \A v \in Workers : f \notin job[v].out \cup job[v].file \cup job[v].doomed
                                    \cup job[v].pruned \cup job[v].send
  THEN {} ELSE {"clash"}

Open(w) ==
  /\ job[w].pc = "dump"
  /\ \E f \in job[w].todo :
       /\ local' = [local EXCEPT ![f] = Opened(@, w)]
       /\ Note(Clash(f))
       /\ Goto(w, [job[w] EXCEPT !.pc = "writing", !.todo = @ \ {f}, !.file = {f}])
  /\ UNCHANGED <<now, remote>>

(* The dump is complete.  The file may have been removed under its writer. *)
Closed(c, w) ==
  IF w \notin c.writers THEN c
  ELSE [body |-> IF c.body = "partial" THEN "whole" ELSE c.body,
        mtime |-> now, writers |-> c.writers \ {w}]

Close(w) ==
  /\ job[w].pc = "writing"
  /\ local' = [f \in File |-> IF f \in job[w].file THEN Closed(local[f], w) ELSE local[f]]
  /\ Goto(w, [job[w] EXCEPT !.pc = "dump", !.out = @ \cup job[w].file, !.file = {}])
  /\ UNCHANGED <<now, remote, incidents>>

(* A failing dump, before or after its file was opened: the name is        *)
(* removed, whoever's file it is, and the next service follows.            *)
DiscardedNot(c) == [c EXCEPT !.writers = {}]   \* mutant: the partial file stays
Discarded(c) == Absent

DumpFails(w) ==
  \/ /\ job[w].pc = "dump"
     /\ \E f \in job[w].todo :
          /\ local' = [local EXCEPT ![f] = Discarded(@)]
          /\ Note(Clash(f))
          /\ Goto(w, [job[w] EXCEPT !.todo = @ \ {f}])
     /\ UNCHANGED <<now, remote>>
  \/ /\ job[w].pc = "writing"
     /\ local' = [f \in File |-> IF f \in job[w].file THEN Discarded(local[f]) ELSE local[f]]
     /\ Goto(w, [job[w] EXCEPT !.pc = "dump", !.file = {}])
     /\ UNCHANGED <<now, remote, incidents>>

(***************************************************************************)
(* BackupWithRetention after the dumps: upload what was produced, stop at  *)
(* the first failure, then prune.  A run whose services all failed is no   *)
(* failure.                                                                *)
(***************************************************************************)
AfterUpload(j) == IF j.keep = KeepAll THEN Idle ELSE [j EXCEPT !.pc = "prune"]

AfterBackup(j) ==
  IF S3 /\ j.kind # "cli" /\ j.out # {} THEN [j EXCEPT !.pc = "upload", !.send = j.out]
  ELSE AfterUpload(j)

DumpsDone(w) ==
  /\ job[w].pc = "dump" /\ job[w].todo = {} /\ job[w].apps = {}
  /\ Goto(w, AfterBackup([job[w] EXCEPT !.all = FALSE]))
  /\ UNCHANGED <<now, local, remote, incidents>>

OpenUpload(w) ==
  /\ job[w].pc = "upload"
  /\ \E f \in job[w].send \cap Present(local) :
       Goto(w, [job[w] EXCEPT !.pc = "put", !.file = {f}, !.seen = local[f].body])
  /\ UNCHANGED <<now, local, remote, incidents>>

(* What PutObject stores of a file that another job changed meanwhile. *)
Stored(f, seen) == IF local[f].body \in {"absent", seen} THEN seen ELSE "partial"

Put(w) ==
  /\ job[w].pc = "put"
  /\ remote' = [f \in File |->
       IF f \in job[w].file THEN Stored(f, job[w].seen) ELSE remote[f]]
  /\ Goto(w, [job[w] EXCEPT !.pc = "upload", !.send = @ \ job[w].file,
                            !.file = {}, !.seen = "none"])
  /\ UNCHANGED <<now, local, incidents>>

(* UploadMany stops at the first failure, and the run with it. *)
RefusedGoesOn(j) ==                              \* mutant: the error is dropped
  [j EXCEPT !.pc = "upload", !.file = {}, !.seen = "none", !.send = {}]
Refused(j) == Idle

(* No file of that name any more, or no answer from S3, which may have     *)
(* stored the object.                                                      *)
UploadFails(w) ==
  \/ /\ job[w].pc = "upload" /\ job[w].send # {}
     /\ Goto(w, Refused(job[w]))
     /\ UNCHANGED <<now, local, remote, incidents>>
  \/ /\ job[w].pc = "put"
     /\ \E stored \in BOOLEAN :
          remote' = [f \in File |->
            IF stored /\ f \in job[w].file THEN Stored(f, job[w].seen) ELSE remote[f]]
     /\ Goto(w, Refused(job[w]))
     /\ UNCHANGED <<now, local, incidents>>

UploadsDone(w) ==
  /\ job[w].pc = "upload" /\ job[w].send = {}
  /\ Goto(w, AfterUpload(job[w]))
  /\ UNCHANGED <<now, local, remote, incidents>>

(***************************************************************************)
(* Prune: newest first by modification time in each app and service; files *)
(* of the same time come in any order.  It lists the directory again, with *)
(* every file in it, whole or not.                                         *)
(***************************************************************************)
InScope(j) ==
  {f \in Present(local) : f.app \in j.target /\ (j.svcs = {} \/ f.svc \in j.svcs)}

(* Mutants: an index off by one, upwards and downwards. *)
NewestAndOne(group, count, kept) ==
  /\ kept \subseteq group
  /\ Cardinality(kept) = IF Cardinality(group) <= count THEN Cardinality(group) ELSE count + 1
NewestButOne(group, count, kept) ==
  /\ kept \subseteq group
  /\ Cardinality(kept) = IF Cardinality(group) < count THEN Cardinality(group) ELSE count - 1

(* The files whose index is below count. *)
Newest(group, count, kept) ==
  /\ kept \subseteq group
  /\ Cardinality(kept) = IF Cardinality(group) < count THEN Cardinality(group) ELSE count
  /\ \A f \in kept, g \in group \ kept : local[f].mtime >= local[g].mtime

(* The files of before the cutoff, whose fraction of a second is not modelled. *)
TooOld(files, days, old) ==
  /\ old \subseteq files
  /\ \A f \in files : days > 0 /\ local[f].mtime + days * Day < now => f \in old
  /\ \A f \in old : days > 0 /\ local[f].mtime + days * Day <= now

Prune(w) ==
  LET files == InScope(job[w])
      count == job[w].keep.count
  IN  /\ job[w].pc = "prune"
      /\ \E kept \in SUBSET files : \E old \in SUBSET files :
           /\ IF count = 0 THEN kept = files
              ELSE \A app \in Apps, svc \in Services :
                     Newest(Group(app, svc) \cap files, count, Group(app, svc) \cap kept)
           /\ TooOld(files, job[w].keep.days, old)
           /\ Goto(w, [job[w] EXCEPT !.pc = "remove", !.doomed = (files \ kept) \cup old])
      /\ UNCHANGED <<now, local, remote, incidents>>

(* A file that is gone already counts as pruned. *)
Remove(w) ==
  /\ job[w].pc = "remove"
  /\ \E f \in job[w].doomed :
       /\ local' = [local EXCEPT ![f] = Absent]
       /\ Goto(w, [job[w] EXCEPT !.doomed = @ \ {f}, !.pruned = @ \cup {f}])
  /\ UNCHANGED <<now, remote, incidents>>

(* applyRetention returns on Prune's error: what was removed before stays  *)
(* in the bucket.                                                          *)
Unmirrored(files) == IF S3 /\ files # {} THEN {"unmirrored"} ELSE {}

RemoveFails(w) ==
  /\ job[w].pc = "remove" /\ job[w].doomed # {}
  /\ End(w)
  /\ Note(Unmirrored(job[w].pruned))
  /\ UNCHANGED <<now, local, remote>>

AfterRemovesLocally(j) == Idle   \* mutant: DeleteMany is not called
AfterRemoves(j) ==
  IF S3 /\ j.pruned # {} THEN [j EXCEPT !.pc = "unmirror", !.send = j.pruned] ELSE Idle

RemovesDone(w) ==
  /\ job[w].pc = "remove" /\ job[w].doomed = {}
  /\ Goto(w, AfterRemoves(job[w]))
  /\ UNCHANGED <<now, local, remote, incidents>>

Unmirror(w) ==
  /\ job[w].pc = "unmirror"
  /\ \E f \in job[w].send :
       /\ remote' = [remote EXCEPT ![f] = "absent"]
       /\ Goto(w, IF job[w].send = {f} THEN Idle ELSE [job[w] EXCEPT !.send = @ \ {f}])
  /\ UNCHANGED <<now, local, incidents>>

(* DeleteMany stops at the first failure, which may have deleted. *)
UnmirrorFails(w) ==
  /\ job[w].pc = "unmirror"
  /\ \E f \in job[w].send, done \in BOOLEAN :
       remote' = [remote EXCEPT ![f] = IF done THEN "absent" ELSE @]
  /\ End(w)
  /\ Note({"unmirrored"})
  /\ UNCHANGED <<now, local>>

(***************************************************************************)
(* The process of a job is killed; time passes.  A backup does not last a  *)
(* day: a scheduled run has a deadline of 30 minutes.                      *)
(***************************************************************************)
Kill(w) ==
  /\ MayKill /\ job[w].pc # "idle"
  /\ local' = [f \in File |-> [local[f] EXCEPT !.writers = @ \ {w}]]
  /\ Note(   (IF job[w].pc = "writing" THEN {"kill"} ELSE {})
          \cup (IF job[w].pc = "unmirror" THEN {"unmirrored"} ELSE Unmirrored(job[w].pruned)))
  /\ End(w)
  /\ UNCHANGED <<now, remote>>

Tick ==
  /\ now < MaxNow
  /\ (now + 1) % Day = 0 => Busy(AllKinds) = {}
  /\ now' = now + 1
  /\ UNCHANGED <<local, remote, job, incidents>>

Next ==
  \/ \E w \in Workers :
       \/ BeginBackup(w) \/ BeginSync(w) \/ DeleteByHand(w)
       \/ NextApp(w) \/ AppFails(w) \/ Skip(w) \/ Open(w) \/ Close(w) \/ DumpFails(w)
       \/ DumpsDone(w) \/ OpenUpload(w) \/ Put(w) \/ UploadFails(w) \/ UploadsDone(w)
       \/ Prune(w) \/ Remove(w) \/ RemoveFails(w) \/ RemovesDone(w)
       \/ Unmirror(w) \/ UnmirrorFails(w) \/ Kill(w)
  \/ Tick

Spec == Init /\ [][Next]_vars

(***************************************************************************)
(* Properties.  Each names the incidents it does not survive; TLC finds it *)
(* violated when one of them is left out.                                  *)
(***************************************************************************)

(* Types, and where the fields of a job mean something. *)
TypeOK ==
  /\ now \in Time
  /\ local \in [File -> Content]
  /\ remote \in [File -> {"absent", "partial", "mixed", "whole"}]
  /\ job \in [Workers -> Job]
  /\ incidents \subseteq {"kill", "delete", "stray delete", "overlap", "clash", "mix", "unmirrored"}
  /\ \A w \in Workers : job[w].file # {} <=> job[w].pc \in {"writing", "put"}

(***************************************************************************)
(* "Clean up the empty/partial file so retention/upload doesn't see it"    *)
(* (BackupApp): a file nobody is writing is whole, whatever dump failed,   *)
(* unless its writer was killed or two backups shared its name.            *)
(***************************************************************************)
OnDiskWhole ==
  incidents \cap {"kill", "clash"} = {} =>
    \A f \in Present(local) : local[f].writers = {} => local[f].body = "whole"

(***************************************************************************)
(* Retention by count never takes the last whole backup of an app's        *)
(* service, however many runs fail to make a new one.  Left out are a      *)
(* deletion by hand, and what may be counted as a newer backup: the file   *)
(* of a killed writer, one that another backup is still writing, and one   *)
(* whose name two backups shared.                                          *)
(***************************************************************************)
HasWhole(files, app, svc) == \E f \in Group(app, svc) : files[f].body = "whole"

LastBackupStays ==
  [][\A app \in Apps, svc \in Services :
       /\ incidents' \cap {"kill", "delete", "stray delete", "overlap", "clash"} = {}
       /\ \A w \in Workers : job[w].keep.days = 0
       /\ HasWhole(local, app, svc)
       => HasWhole(local', app, svc)]_vars

(***************************************************************************)
(* "keep only the last N files per app/service" (docs/BACKUPS.md): when a  *)
(* run has pruned without an error, no app and service in its scope has    *)
(* more files than the schedule keeps, partial files of killed runs        *)
(* included; only another backup under way adds some.                      *)
(***************************************************************************)
QuotaMet ==
  \A w \in Workers :
    /\ job[w].pc = "remove" /\ job[w].doomed = {}
    /\ job[w].keep.count > 0 /\ "overlap" \notin incidents
    => \A app \in Apps, svc \in Services :
         Cardinality(Group(app, svc) \cap InScope(job[w])) <= job[w].keep.count

(***************************************************************************)
(* "the web UI also uploads them after every backup" (docs/BACKUPS.md): a  *)
(* run that comes to its retention has a whole copy in the bucket of every *)
(* file it produced that is still there.  An "upload all" that read the    *)
(* file while it was written may put its half over it.                     *)
(***************************************************************************)
MirrorComplete ==
  \A w \in Workers :
    /\ S3 /\ job[w].kind # "sync"
    /\ job[w].pc \in {"prune", "remove"} \/ (job[w].pc = "upload" /\ job[w].send = {})
    /\ incidents \cap {"mix", "clash"} = {}
    => \A f \in job[w].out : local[f].body # "absent" => remote[f] = "whole"

(***************************************************************************)
(* "the matching remote objects are pruned too" (docs/BACKUPS.md): between *)
(* jobs the bucket holds nothing the directory has lost, unless a remote   *)
(* deletion failed or was never tried (nothing tries again), or an upload  *)
(* ran into a deletion.                                                    *)
(***************************************************************************)
MirrorFollows ==
  Busy(AllKinds) = {} /\ incidents \cap {"stray delete", "overlap", "clash", "mix", "unmirrored"} = {} =>
    {f \in File : remote[f] # "absent"} \subseteq Present(local)

=============================================================================
