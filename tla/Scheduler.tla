------------------------------ MODULE Scheduler ------------------------------
(***************************************************************************)
(* Backup schedules: the SQLite tables schedules and backup_runs, the      *)
(* manager of the web process (its cron table, its entries map and the     *)
(* lock Reload holds), the handlers that change a schedule and reload, the *)
(* shelf schedule command, which changes the same tables from another      *)
(* process, and the runs started by cron, by "run now" and by hand.        *)
(*                                                                         *)
(* A backup is one step with an arbitrary outcome: module Provisioning and *)
(* the backup modules look at the services.                                *)
(***************************************************************************)
EXTENDS Naturals, FiniteSets

CONSTANTS
  Schedules,   \* ids the schedules table can give out
  Handlers,    \* concurrent requests of the web app that change schedules
  Jobs,        \* concurrent runs
  EntryIds,    \* ids of cron entries (cron's counter, reused when unused)
  Runs,        \* ids the backup_runs table can give out: bounds the runs
  Cli,         \* shelf schedule is used
  MayCancel,   \* a request's context may be cancelled: its client went away
  MayExpire,   \* a run may reach its 30 minutes
  MayStop,     \* the web process may be stopped, killed and started again
  None

ASSUME FlagsAssumption ==
  /\ Cli \in BOOLEAN /\ MayCancel \in BOOLEAN
  /\ MayExpire \in BOOLEAN /\ MayStop \in BOOLEAN
ASSUME NoneAssumption == None \notin Schedules \cup EntryIds \cup Runs \cup Handlers

VARIABLES
  schedules,   \* table schedules
  runs,        \* table backup_runs
  cron,        \* the cron table: entry id -> schedule it runs
  entries,     \* Manager.entries: schedule -> entry id
  lock,        \* holder of Manager.entryLock
  request,     \* handler -> where its request is
  job,         \* run under way -> where it is
  phase,       \* the web process
  stale,       \* history: schedules the command line changed, or a request
               \* that was cancelled created, which nothing has listed since
  emptied,     \* history: cron was emptied by a start, a stop or a reload that
               \* failed, and has not been filled since
  abandoned    \* history: runs whose goroutine was killed or timed out

vars == <<schedules, runs, cron, entries, lock, request, job, phase, stale, emptied, abandoned>>

Schedule ==
  [state : {"unused", "enabled", "paused", "deleted"},
   valid : BOOLEAN,                            \* cron accepts its expression
   last  : {"", "success", "failed"}]          \* last_status

Run == [status : {"unused", "running", "success", "failed"},
        schedule : Schedules \cup {None}]

Request == [pc : {"idle", "reload", "list", "install"}, listed : SUBSET Schedules]
NoRequest == [pc |-> "idle", listed |-> {}]

Job ==
  [pc : {"free", "get", "start", "backup", "finish", "mark"},
   schedule : Schedules \cup {None},           \* None: a manual backup
   entry : EntryIds \cup {None},               \* None: not started by cron
   run : Runs \cup {None},
   status : {"", "success", "failed"},
   expired : BOOLEAN]                          \* its context is done
NoJob == [pc |-> "free", schedule |-> None, entry |-> None, run |-> None,
          status |-> "", expired |-> FALSE]

Exists(s) == schedules[s].state \in {"enabled", "paused"}
Due(s) == schedules[s].state = "enabled" /\ schedules[s].valid
Scheduled(s) == \E e \in EntryIds : cron[e] = s

NoCron == [e \in EntryIds |-> None]
NoEntries == [s \in Schedules |-> None]

db == <<schedules, runs>>
manager == <<cron, entries, lock>>

Init ==
  /\ schedules = [s \in Schedules |-> [state |-> "unused", valid |-> TRUE, last |-> ""]]
  /\ runs = [r \in Runs |-> [status |-> "unused", schedule |-> None]]
  /\ cron = NoCron
  /\ entries = NoEntries
  /\ lock = None
  /\ request = [h \in Handlers |-> NoRequest]
  /\ job = [j \in Jobs |-> NoJob]
  /\ phase = "down"
  /\ stale = {}
  /\ emptied = TRUE
  /\ abandoned = {}

-----------------------------------------------------------------------------
(* The statements of store.go on the schedules table.                      *)
CreateSchedule(s, enabled, valid) ==
  /\ schedules[s].state = "unused"
  /\ schedules' = [schedules EXCEPT ![s].state = IF enabled THEN "enabled" ELSE "paused",
                                    ![s].valid = valid]
  /\ UNCHANGED runs

SetScheduleEnabled(s, enabled) ==
  /\ Exists(s)
  /\ schedules' = [schedules EXCEPT ![s].state = IF enabled THEN "enabled" ELSE "paused"]
  /\ UNCHANGED runs

(* ON DELETE SET NULL: the schedule's runs lose their schedule.            *)
DeleteSchedule(s) ==
  /\ Exists(s)
  /\ schedules' = [schedules EXCEPT ![s].state = "deleted"]
  /\ runs' = [r \in Runs |-> IF runs[r].schedule = s
                             THEN [runs[r] EXCEPT !.schedule = None] ELSE runs[r]]

(***************************************************************************)
(* The handlers createSchedule (which validates the expression),           *)
(* pauseSchedule, resumeSchedule and deleteSchedule: the statement, then   *)
(* Reload with the request's context.                                      *)
(***************************************************************************)
WebChange(h) ==
  /\ phase = "up"
  /\ request[h].pc = "idle"
  /\ \E s \in Schedules :
       \/ CreateSchedule(s, TRUE, TRUE)
       \/ \E b \in BOOLEAN : SetScheduleEnabled(s, b)
       \/ DeleteSchedule(s)
  /\ request' = [request EXCEPT ![h].pc = "reload"]
  /\ UNCHANGED <<manager, job, phase, stale, emptied, abandoned>>

(* CreateSchedule inserts the row and then cannot read it back, the        *)
(* request's context being done: the handler returns without a reload.     *)
CreateCancelled(h) ==
  /\ MayCancel
  /\ phase = "up"
  /\ request[h].pc = "idle"
  /\ \E s \in Schedules : CreateSchedule(s, TRUE, TRUE) /\ stale' = stale \cup {s}
  /\ UNCHANGED <<manager, request, job, phase, emptied, abandoned>>

(* The entries of the manager's map are gone from cron.                     *)
Removed == [e \in EntryIds |-> IF \E s \in Schedules : entries[s] = e THEN None ELSE cron[e]]

(* Reload takes the lock and removes every entry of its map from cron.     *)
ReloadRemove(h) ==
  /\ request[h].pc = "reload"
  /\ lock = None
  /\ lock' = h
  /\ cron' = Removed
  /\ entries' = NoEntries
  /\ request' = [request EXCEPT ![h].pc = "list"]
  /\ UNCHANGED <<db, job, phase, stale, emptied, abandoned>>

(* The schedules Reload does not pass over; a mutant first.                *)
AllListed == {s \in Schedules : Exists(s)}
Listed == {s \in Schedules : schedules[s].state = "enabled"}

(* ListSchedules; what is enabled is added later, from this list.          *)
ReloadList(h) ==
  /\ request[h].pc = "list"
  /\ request' = [request EXCEPT ![h] =
       [pc |-> "install", listed |-> Listed]]
  /\ stale' = {}
  /\ UNCHANGED <<db, manager, job, phase, emptied, abandoned>>

(* ListSchedules fails: Reload returns with every entry removed.           *)
ReloadFails(h) ==
  /\ MayCancel
  /\ request[h].pc = "list"
  /\ request' = [request EXCEPT ![h] = NoRequest]
  /\ lock' = None
  /\ emptied' = TRUE
  /\ UNCHANGED <<db, cron, entries, job, phase, stale, abandoned>>

(* addSchedule for every listed schedule; one whose expression cron        *)
(* rejects is skipped.  A new entry has its own skip-if-still-running      *)
(* token: no job that is still running has its id.                         *)
Fresh == {e \in EntryIds : cron[e] = None /\ \A j \in Jobs : job[j].entry # e}

(* Manager.entries after the entries f of the schedules in S were added.   *)
EntriesWith(f, S) == [s \in Schedules |-> IF s \in S THEN f[s] ELSE entries[s]]

Install(listed) ==
  LET S == {s \in listed : schedules[s].valid} IN
  \E f \in [S -> Fresh] :
    /\ \A s, t \in S : f[s] = f[t] => s = t
    /\ cron' = [e \in EntryIds |-> IF \E s \in S : f[s] = e
                                   THEN CHOOSE s \in S : f[s] = e ELSE cron[e]]
    /\ entries' = EntriesWith(f, S)

ReloadInstall(h) ==
  /\ request[h].pc = "install"
  /\ Install(request[h].listed)
  /\ lock' = None
  /\ emptied' = FALSE
  /\ request' = [request EXCEPT ![h] = NoRequest]
  /\ UNCHANGED <<db, job, phase, stale, abandoned>>

(* shelf schedule create, pause, resume, delete: the statement only, and   *)
(* create does not validate the expression.                                *)
CliChange ==
  /\ Cli
  /\ \E s \in Schedules :
       /\ \/ \E b, v \in BOOLEAN : CreateSchedule(s, b, v)
          \/ \E b \in BOOLEAN : SetScheduleEnabled(s, b)
          \/ DeleteSchedule(s)
       /\ stale' = stale \cup {s}
  /\ UNCHANGED <<manager, request, job, phase, emptied, abandoned>>

-----------------------------------------------------------------------------
(* A goroutine for a run, while the table has room for its row.            *)
Spawn(j, o) ==
  /\ job[j].pc = "free"
  /\ Cardinality({r \in Runs : runs[r].status # "unused"})
       + Cardinality({k \in Jobs : job[k].pc \in {"get", "start"}}) < Cardinality(Runs)
  /\ job' = [job EXCEPT ![j] = o]

(* A job of the entry is still running.                                    *)
StillRunning(e) == \E k \in Jobs : job[k].entry = e

(* Cron's tick: SkipIfStillRunning drops it while a job of the entry runs. *)
Fire(j, e) ==
  /\ phase \in {"up", "draining"}
  /\ cron[e] # None
  /\ ~StillRunning(e)
  /\ Spawn(j, [NoJob EXCEPT !.pc = "get", !.schedule = cron[e], !.entry = e])
  /\ UNCHANGED <<db, manager, request, phase, stale, emptied, abandoned>>

(* runSchedule: GetSchedule, whatever its state; nothing to do when the    *)
(* schedule is gone.                                                       *)
GetSchedule(j) ==
  /\ job[j].pc = "get"
  /\ job' = [job EXCEPT ![j] = IF Exists(job[j].schedule)
                               THEN [@ EXCEPT !.pc = "start"] ELSE NoJob]
  /\ UNCHANGED <<db, manager, request, phase, stale, emptied, abandoned>>

(* RunNow: GetSchedule in the handler, then a goroutine cron knows nothing *)
(* about.  A manual backup has no schedule and runs in the handler.        *)
RunNow(j, s) ==
  /\ phase = "up"
  /\ Exists(s)
  /\ Spawn(j, [NoJob EXCEPT !.pc = "start", !.schedule = s])
  /\ UNCHANGED <<db, manager, request, phase, stale, emptied, abandoned>>

ManualBackup(j) ==
  /\ phase = "up"
  /\ Spawn(j, [NoJob EXCEPT !.pc = "start"])
  /\ UNCHANGED <<db, manager, request, phase, stale, emptied, abandoned>>

(* The row StartRun inserts is a new one; a mutant first.                  *)
NotRunning(r) == runs[r].status # "running"
NewRow(r) == runs[r].status = "unused"

(* StartRun inserts the row, unless the foreign key fails because the      *)
(* schedule was deleted meanwhile.                                         *)
StartRun(j) ==
  LET s == job[j].schedule IN
  /\ job[j].pc = "start"
  /\ IF s = None \/ Exists(s)
     THEN \E r \in Runs :
            /\ NewRow(r)
            /\ runs' = [runs EXCEPT ![r] = [status |-> "running", schedule |-> s]]
            /\ job' = [job EXCEPT ![j].pc = "backup", ![j].run = r]
     ELSE job' = [job EXCEPT ![j] = NoJob] /\ UNCHANGED runs
  /\ UNCHANGED <<schedules, manager, request, phase, stale, emptied, abandoned>>

Backup(j) ==
  /\ job[j].pc = "backup"
  /\ \E status \in {"success", "failed"} :
       job' = [job EXCEPT ![j].pc = "finish", ![j].status = status]
  /\ UNCHANGED <<db, manager, request, phase, stale, emptied, abandoned>>

(* The run's context ends, after 30 minutes or with the manual backup's    *)
(* request; the statements that follow use the same context.               *)
Expire(j) ==
  /\ IF job[j].schedule = None THEN MayCancel ELSE MayExpire
  /\ job[j].pc \in {"backup", "finish", "mark"}
  /\ ~job[j].expired
  /\ job' = [job EXCEPT ![j].expired = TRUE]
  /\ abandoned' = IF job[j].pc = "mark" THEN abandoned ELSE abandoned \cup {job[j].run}
  /\ UNCHANGED <<db, manager, request, phase, stale, emptied>>

(* backup_runs after FinishRun; a mutant first, that returns on failure.   *)
FinishedIfGood(j) ==
  IF job[j].expired \/ job[j].status = "failed" THEN runs
  ELSE [runs EXCEPT ![job[j].run].status = job[j].status]
Finished(j) ==
  IF job[j].expired THEN runs
  ELSE [runs EXCEPT ![job[j].run].status = job[j].status]

FinishRun(j) ==
  /\ job[j].pc = "finish"
  /\ runs' = Finished(j)
  /\ job' = [job EXCEPT ![j] = IF job[j].schedule = None THEN NoJob
                               ELSE [@ EXCEPT !.pc = "mark"]]
  /\ UNCHANGED <<schedules, manager, request, phase, stale, emptied, abandoned>>

(* The statement of MarkScheduleRun reaches a row; a mutant first, with a  *)
(* context of its own.                                                     *)
MarksAlways(j) == Exists(job[j].schedule)
Marks(j) == ~job[j].expired /\ Exists(job[j].schedule)

(* MarkScheduleRun does not mind that the schedule is gone.                *)
MarkScheduleRun(j) ==
  LET s == job[j].schedule IN
  /\ job[j].pc = "mark"
  /\ schedules' = IF Marks(j) THEN [schedules EXCEPT ![s].last = job[j].status]
                  ELSE schedules
  /\ job' = [job EXCEPT ![j] = NoJob]
  /\ UNCHANGED <<runs, manager, request, phase, stale, emptied, abandoned>>

-----------------------------------------------------------------------------
(* main: Reload, then Start.  Nothing looks at rows left "running".        *)
Boot ==
  /\ phase = "down"
  /\ Install(Listed)
  /\ phase' = "up"
  /\ stale' = {}
  /\ emptied' = FALSE
  /\ UNCHANGED <<db, lock, request, job, abandoned>>

(* SIGTERM: the server takes no more requests while cron still fires, ...  *)
Shutdown ==
  /\ MayStop
  /\ phase = "up"
  /\ phase' = "draining"
  /\ UNCHANGED <<db, manager, request, job, stale, emptied, abandoned>>

(* ... then cron.Stop lets no more jobs start ...                          *)
StopCron ==
  /\ phase = "draining"
  /\ phase' = "stopping"
  /\ UNCHANGED <<db, manager, request, job, stale, emptied, abandoned>>

(* In-memory state goes; the runs that are lost with it stay "running".    *)
Die(lost) ==
  /\ phase' = "down"
  /\ cron' = NoCron
  /\ entries' = NoEntries
  /\ lock' = None
  /\ request' = [h \in Handlers |-> NoRequest]
  /\ job' = [j \in Jobs |-> NoJob]
  /\ emptied' = TRUE
  /\ abandoned' = abandoned \cup ({job[j].run : j \in lost} \ {None})
  /\ UNCHANGED <<db, stale>>

(* cron.Stop's context is done; a mutant first.                            *)
NoWait == TRUE
CronJobsDone == \A j \in Jobs : job[j].entry = None

(* ... and the process exits when the jobs cron started have returned.     *)
Exit ==
  /\ phase = "stopping"
  /\ CronJobsDone
  /\ Die({j \in Jobs : job[j].entry = None})

Crash == MayStop /\ phase # "down" /\ Die(Jobs)

-----------------------------------------------------------------------------
Reload(h) == ReloadRemove(h) \/ ReloadList(h) \/ ReloadFails(h) \/ ReloadInstall(h)

Query(j) == GetSchedule(j) \/ StartRun(j) \/ FinishRun(j) \/ MarkScheduleRun(j)
Work(j) == Query(j) \/ Backup(j)

Next ==
  \/ \E h \in Handlers : WebChange(h) \/ CreateCancelled(h) \/ Reload(h)
  \/ CliChange
  \/ \E j \in Jobs :
       \/ Work(j) \/ Expire(j) \/ ManualBackup(j)
       \/ \E e \in EntryIds : Fire(j, e)
       \/ \E s \in Schedules : RunNow(j, s)
  \/ Boot \/ Shutdown \/ StopCron \/ Exit \/ Crash

Spec == Init /\ [][Next]_vars

(* Goroutines run until they return, the statements of SQLite end, and a   *)
(* mutex is handed to every goroutine that waits for it.  A run of a       *)
(* schedule has 30 minutes (context.WithTimeout in manager.go), after      *)
(* which its command is killed; a manual backup has its request's context, *)
(* which has no deadline, so nothing says that it ends.                    *)
Fairness ==
  /\ \A h \in Handlers :
       /\ SF_vars(ReloadRemove(h))
       /\ WF_vars(ReloadList(h) \/ ReloadFails(h))
       /\ WF_vars(ReloadInstall(h))
  /\ \A j \in Jobs :
       /\ WF_vars(Query(j))
       /\ WF_vars(job[j].schedule # None /\ Backup(j))

FairSpec == Spec /\ Fairness

-----------------------------------------------------------------------------
TypeOK ==
  /\ schedules \in [Schedules -> Schedule]
  /\ runs \in [Runs -> Run]
  /\ cron \in [EntryIds -> Schedules \cup {None}]
  /\ entries \in [Schedules -> EntryIds \cup {None}]
  /\ lock \in Handlers \cup {None}
  /\ request \in [Handlers -> Request]
  /\ job \in [Jobs -> Job]
  /\ phase \in {"up", "draining", "stopping", "down"}
  /\ stale \subseteq Schedules
  /\ emptied \in BOOLEAN
  /\ abandoned \subseteq Runs

(***************************************************************************)
(* The entries map and the cron table stay in step: cron runs nothing the  *)
(* manager could not remove, and no schedule twice.  And cron follows the  *)
(* table, row by row, whatever requests, reloads, failures and stops       *)
(* interleave.  It runs no schedule that is paused, deleted or invalid,    *)
(* but for one changed by the command line since the last list, and while  *)
(* a request still has its reload to do.  It misses no schedule that is    *)
(* due, but for one created or changed by the command line or by a request *)
(* that was cancelled since the last list, while a request is under way,   *)
(* and after a reload that failed, which leaves cron empty until the next. *)
(***************************************************************************)
EntriesMatchCron ==
  \A e \in EntryIds, s \in Schedules : cron[e] = s <=> entries[s] = e

Waiting == \E h \in Handlers : request[h].pc = "reload"
Quiet == \A h \in Handlers : request[h].pc = "idle"

CronFollowsTable ==
  /\ EntriesMatchCron
  /\ \A s \in Schedules \ stale :
       /\ ~Waiting /\ Scheduled(s) => Due(s)
       /\ Quiet /\ ~emptied /\ Due(s) => Scheduled(s)

(***************************************************************************)
(* A row says "running" only while a goroutine will still finish it.  Left *)
(* behind is only the row of a run whose context expired or was cancelled  *)
(* before its FinishRun, whose process was killed, or whose process was    *)
(* stopped over a run that is not cron's.                                  *)
(***************************************************************************)
RunningIsOwned ==
  \A r \in Runs :
    runs[r].status = "running" =>
      \/ r \in abandoned
      \/ \E j \in Jobs : job[j].run = r /\ job[j].pc \in {"backup", "finish"}

(***************************************************************************)
(* The last status a schedule shows is that of a run of it which says so.  *)
(***************************************************************************)
LastStatusIsOfARun ==
  \A s \in Schedules :
    Exists(s) /\ schedules[s].last # "" =>
      \E r \in Runs : runs[r].schedule = s /\ runs[r].status = schedules[s].last

(***************************************************************************)
(* History is append-only: a finished run keeps its status, and a row goes *)
(* from unused to running to finished.                                     *)
(***************************************************************************)
HistoryIsFinal ==
  [][\A r \in Runs :
       /\ runs[r].status \in {"success", "failed"} => runs'[r].status = runs[r].status
       /\ runs[r].status = "unused" => runs'[r].status \in {"unused", "running"}]_vars

(***************************************************************************)
(* "Pause a schedule": cron starts no run of a schedule that is paused or  *)
(* deleted, in whatever phase the web process is, but for the moment in    *)
(* which a request that changed a schedule is about to reload, and for a   *)
(* schedule the command line changed since the last list (shelf schedule   *)
(* pause changes the row only, and runSchedule does not look at it, so     *)
(* cron goes on with that one schedule until the web process reloads).     *)
(***************************************************************************)
PausedDoesNotFire ==
  [][\A j \in Jobs :
       job[j].pc = "free" /\ job'[j].pc = "get" /\ ~Waiting =>
         LET s == job'[j].schedule
         IN  schedules[s].state = "enabled" \/ s \in stale]_vars

(***************************************************************************)
(* A run of a schedule, by cron or by "run now", ends while its process    *)
(* lasts: the goroutine returns, so that cron does not skip the entry for  *)
(* ever, and the row it recorded stops saying "running", unless its 30     *)
(* minutes were over before the row was finished.  Nothing bounds a manual *)
(* backup.                                                                 *)
(***************************************************************************)
EveryRunEnds ==
  /\ \A j \in Jobs : job[j].schedule # None ~> job[j].pc = "free"
  /\ \A r \in Runs :
       (\E j \in Jobs : job[j].run = r /\ job[j].schedule # None)
         ~> runs[r].status # "running" \/ r \in abandoned

(***************************************************************************)
(* A schedule that was paused or deleted on the web does not stay in cron, *)
(* one that was enabled does not stay out, unless a reload fails or a      *)
(* change that no list has seen intervenes.                                *)
(***************************************************************************)
WebChangeTakesEffect ==
  \A s \in Schedules :
    (phase = "up" /\ (Scheduled(s) <=> ~Due(s)))
      ~> ((Scheduled(s) <=> Due(s)) \/ s \in stale \/ emptied \/ phase # "up")

=============================================================================
