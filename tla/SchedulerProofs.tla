--------------------------- MODULE SchedulerProofs ---------------------------
(***************************************************************************)
(* For any schedules, requests, jobs, entries and runs, and whatever is    *)
(* cancelled, timed out, stopped or killed: the invariants of Scheduler    *)
(* and its two action properties.                                          *)
(***************************************************************************)
EXTENDS Scheduler, TLAPS

(***************************************************************************)
(* The inductive invariant.  A job has what its next statement uses:       *)
(***************************************************************************)
Placed ==
  \A j \in Jobs :
    /\ job[j].pc \in {"finish", "mark"} => job[j].status # ""
    /\ job[j].pc \in {"backup", "finish"} => job[j].run # None
    /\ job[j].pc \in {"get", "mark"} => job[j].schedule # None
    /\ job[j].pc \in {"get", "start"} => ~job[j].expired

Types == TypeOK /\ Placed

(* Between its remove and its install a reload holds the lock and cron is  *)
(* empty, as it is while the process is down; down, no request waits.      *)
Reloading(h) == request[h].pc \in {"list", "install"}

LockHeld ==
  /\ \A h \in Handlers : Reloading(h) => lock = h
  /\ phase = "down" => \A h \in Handlers : request[h].pc = "idle"

EmptyMeanwhile ==
  phase = "down" \/ (\E h \in Handlers : Reloading(h)) => cron = NoCron /\ entries = NoEntries

Manager == EntriesMatchCron /\ LockHeld /\ EmptyMeanwhile

(* What cron runs, a reload has listed or a job works for was created.     *)
Created(s) == schedules[s].state # "unused"

ReloadsCreated ==
  /\ \A s \in Schedules : Scheduled(s) => Created(s)
  /\ \A h \in Handlers : request[h].pc = "install" => \A s \in request[h].listed : Created(s)

WorksCreated ==
  /\ \A j \in Jobs : job[j].pc # "free" /\ job[j].schedule # None => Created(job[j].schedule)
  /\ \A s \in Schedules : ~Created(s) => schedules[s].last = ""

(* Cron runs, or a reload is about to install, what is due of the rows     *)
(* whose last change has been listed.                                      *)
Follows ==
  ~Waiting =>
    \A s \in Schedules \ stale :
      /\ Scheduled(s) => Due(s)
      /\ ~emptied /\ (\A h \in Handlers : ~Reloading(h)) => (Due(s) => Scheduled(s))
      /\ \A h \in Handlers : request[h].pc = "install" =>
           (s \in request[h].listed /\ schedules[s].valid <=> Due(s))

(* A job at its backup has a running row of its own, and one whose context *)
(* has ended has left it behind.                                           *)
Owner(j) == job[j].pc \in {"backup", "finish"}

OwnRow ==
  /\ \A j \in Jobs : Owner(j) => runs[job[j].run].status = "running"
  /\ \A j, k \in Jobs : Owner(j) /\ Owner(k) /\ job[j].run = job[k].run => j = k
  /\ \A j \in Jobs : Owner(j) /\ job[j].expired => job[j].run \in abandoned

(* A row is that of its job's schedule, while there is one; once finished  *)
(* it says what the job is about to mark.                                  *)
ToMark(j) == job[j].pc = "mark" /\ ~job[j].expired
HasSchedule(j) == job[j].schedule # None /\ Exists(job[j].schedule)

RowOfJob ==
  \A j \in Jobs :
    /\ Owner(j) /\ HasSchedule(j) => runs[job[j].run].schedule = job[j].schedule
    /\ ToMark(j) =>
         /\ job[j].run # None
         /\ runs[job[j].run].status = job[j].status
         /\ HasSchedule(j) => runs[job[j].run].schedule = job[j].schedule

-----------------------------------------------------------------------------
(* Types.                                                                  *)
LEMMA NoneOutside ==
  /\ \A s \in Schedules : s # None
  /\ \A e \in EntryIds : e # None
  /\ \A r \in Runs : r # None
  /\ \A h \in Handlers : h # None
BY NoneAssumption

LEMMA NoJobIs ==
  /\ NoJob.pc = "free" /\ NoJob.schedule = None /\ NoJob.entry = None
  /\ NoRequest.pc = "idle"
BY DEF NoJob, NoRequest

LEMMA NoJobType == NoJob \in Job /\ NoRequest \in Request
BY DEF NoJob, Job, NoRequest, Request

(* A statement of store.go on the schedules table: it leaves rows of the   *)
(* types there, what was created stays created, and a run loses its        *)
(* schedule only when that is deleted.                                     *)
Statement(s) ==
  \/ \E b, v \in BOOLEAN : CreateSchedule(s, b, v)
  \/ \E b \in BOOLEAN : SetScheduleEnabled(s, b)
  \/ DeleteSchedule(s)

Outcome == {"", "success", "failed"}

LEMMA OutcomeRow ==
  ASSUME NEW row \in Schedule, NEW v \in Outcome
  PROVE  [row EXCEPT !.last = v] \in Schedule
<1>1. Schedule = [state : {"unused", "enabled", "paused", "deleted"}, valid : BOOLEAN,
                  last : Outcome]
  BY DEF Schedule, Outcome
<1> QED
  BY <1>1

LEMMA StatementType ==
  ASSUME TypeOK, NEW s \in Schedules, Statement(s)
  PROVE  schedules' \in [Schedules -> Schedule] /\ runs' \in [Runs -> Run]
<1>1. CASE \E b, v \in BOOLEAN : CreateSchedule(s, b, v)
  <2>1. PICK b \in BOOLEAN, v \in BOOLEAN : CreateSchedule(s, b, v)
    BY <1>1
  <2> DEFINE row == [schedules[s] EXCEPT !.state = IF b THEN "enabled" ELSE "paused", !.valid = v]
  <2>2. row \in Schedule
    BY DEF TypeOK, Schedule
  <2>3. schedules' = [schedules EXCEPT ![s] = row]
    BY <2>1 DEF CreateSchedule, TypeOK, Schedule
  <2> HIDE DEF row
  <2>4. schedules' \in [Schedules -> Schedule]
    BY <2>2, <2>3 DEF TypeOK
  <2>5. runs' \in [Runs -> Run]
    BY <2>1 DEF CreateSchedule, TypeOK
  <2> QED
    BY <2>4, <2>5
<1>2. CASE \E b \in BOOLEAN : SetScheduleEnabled(s, b)
  <2>1. PICK b \in BOOLEAN : SetScheduleEnabled(s, b)
    BY <1>2
  <2> DEFINE row == [schedules[s] EXCEPT !.state = IF b THEN "enabled" ELSE "paused"]
  <2>2. row \in Schedule
    BY DEF TypeOK, Schedule
  <2>3. schedules' = [schedules EXCEPT ![s] = row]
    BY <2>1 DEF SetScheduleEnabled
  <2> HIDE DEF row
  <2>4. schedules' \in [Schedules -> Schedule]
    BY <2>2, <2>3 DEF TypeOK
  <2>5. runs' \in [Runs -> Run]
    BY <2>1 DEF SetScheduleEnabled, TypeOK
  <2> QED
    BY <2>4, <2>5
<1>3. CASE DeleteSchedule(s)
  <2>1. schedules' \in [Schedules -> Schedule]
    BY <1>3 DEF DeleteSchedule, TypeOK, Schedule
  <2>2. ASSUME NEW r \in Runs PROVE [runs[r] EXCEPT !.schedule = None] \in Run /\ runs[r] \in Run
    BY DEF TypeOK, Run
  <2>3. runs' \in [Runs -> Run]
    BY <1>3, <2>2 DEF DeleteSchedule
  <2> QED
    BY <2>1, <2>3
<1> QED
  BY <1>1, <1>2, <1>3 DEF Statement

LEMMA StatementEffect ==
  ASSUME TypeOK, NEW s \in Schedules, Statement(s)
  PROVE  /\ \A t \in Schedules : t # s => schedules'[t] = schedules[t]
         /\ schedules'[s].last = schedules[s].last
         /\ Created(s)'
         /\ Created(s) => schedules'[s].valid = schedules[s].valid
         /\ Exists(s)' => Exists(s) \/ ~Created(s)
         /\ \A r \in Runs :
              /\ runs'[r].status = runs[r].status
              /\ \/ runs'[r].schedule = runs[r].schedule
                 \/ runs[r].schedule = s /\ ~Exists(s)'
<1>1. CASE \E b, v \in BOOLEAN : CreateSchedule(s, b, v)
  <2>1. PICK b \in BOOLEAN, v \in BOOLEAN : CreateSchedule(s, b, v)
    BY <1>1
  <2> QED
    BY <2>1 DEF CreateSchedule, TypeOK, Schedule, Created, Exists
<1>2. CASE \E b \in BOOLEAN : SetScheduleEnabled(s, b)
  <2>1. PICK b \in BOOLEAN : SetScheduleEnabled(s, b)
    BY <1>2
  <2>2. /\ schedules'[s].state \in {"enabled", "paused"} /\ Exists(s)
        /\ schedules'[s].last = schedules[s].last /\ schedules'[s].valid = schedules[s].valid
        /\ \A t \in Schedules : t # s => schedules'[t] = schedules[t]
    BY <2>1 DEF SetScheduleEnabled, TypeOK, Schedule
  <2>3. runs' = runs
    BY <2>1 DEF SetScheduleEnabled
  <2> QED
    BY <2>2, <2>3 DEF Created, Exists
<1>3. CASE DeleteSchedule(s)
  <2>1. /\ schedules'[s].state = "deleted" /\ Exists(s)
        /\ schedules'[s].last = schedules[s].last /\ schedules'[s].valid = schedules[s].valid
        /\ \A t \in Schedules : t # s => schedules'[t] = schedules[t]
    BY <1>3 DEF DeleteSchedule, TypeOK, Schedule
  <2>2. ASSUME NEW r \in Runs
        PROVE  /\ runs'[r].status = runs[r].status
               /\ runs'[r].schedule = runs[r].schedule \/ runs[r].schedule = s
    BY <1>3 DEF DeleteSchedule, TypeOK, Run
  <2> QED
    BY <2>1, <2>2 DEF Created, Exists
<1> QED
  BY <1>1, <1>2, <1>3 DEF Statement

(* The three ways to get there.                                            *)
LEMMA ChangeIsStatement ==
  ASSUME \/ \E h \in Handlers : WebChange(h) \/ CreateCancelled(h)
         \/ CliChange
  PROVE  \E s \in Schedules : Statement(s)
BY DEF WebChange, CreateCancelled, CliChange, Statement

(* The new entries are entries of listed schedules, each of its own.       *)
LEMMA InstallSets ==
  ASSUME TypeOK, NEW listed \in SUBSET Schedules, Install(listed),
         cron = NoCron, entries = NoEntries
  PROVE  /\ cron' \in [EntryIds -> Schedules \cup {None}]
         /\ entries' \in [Schedules -> EntryIds \cup {None}]
         /\ EntriesMatchCron'
         /\ \A s \in Schedules : Scheduled(s)' <=> s \in listed /\ schedules[s].valid
<1> DEFINE S == {s \in listed : schedules[s].valid}
<1>1. PICK f \in [S -> Fresh] :
        /\ \A s, t \in S : f[s] = f[t] => s = t
        /\ cron' = [e \in EntryIds |-> IF \E s \in S : f[s] = e
                                       THEN CHOOSE s \in S : f[s] = e ELSE cron[e]]
        /\ entries' = EntriesWith(f, S)
  BY DEF Install
<1>2. S \subseteq Schedules /\ \A s \in S : f[s] \in EntryIds
  BY <1>1 DEF Fresh
<1>3. \A e \in EntryIds : cron'[e] \in Schedules \cup {None}
                         /\ \A s \in Schedules : cron'[e] = s <=> s \in S /\ f[s] = e
  <2> TAKE e \in EntryIds
  <2>1. CASE \E s \in S : f[s] = e
    <3>1. PICK s \in S : f[s] = e
      BY <2>1
    <3>2. (CHOOSE t \in S : f[t] = e) \in S /\ f[CHOOSE t \in S : f[t] = e] = e
      BY <3>1
    <3>3. cron'[e] = CHOOSE t \in S : f[t] = e
      BY <1>1, <2>1
    <3>4. cron'[e] = s
      BY <1>1, <3>1, <3>2, <3>3
    <3> HIDE DEF S
    <3> QED
      BY <1>1, <1>2, <3>1, <3>4
  <2>2. CASE ~\E s \in S : f[s] = e
    <3>1. cron'[e] = None
      BY <1>1, <2>2 DEF NoCron
    <3> QED
      BY <2>2, <3>1, NoneOutside
  <2> QED
    BY <2>1, <2>2
<1>4. \A s \in Schedules : entries'[s] = IF s \in S THEN f[s] ELSE None
  BY <1>1 DEF EntriesWith, NoEntries
<1>5. cron' \in [EntryIds -> Schedules \cup {None}]
  <2>1. cron' = [e \in EntryIds |-> cron'[e]]
    BY <1>1
  <2> QED
    BY <1>3, <2>1
<1>6. entries' \in [Schedules -> EntryIds \cup {None}]
  <2>1. entries' = [s \in Schedules |-> entries'[s]]
    BY <1>1 DEF EntriesWith
  <2> QED
    BY <1>2, <1>4, <2>1
<1>7. EntriesMatchCron'
  BY <1>3, <1>4, NoneOutside DEF EntriesMatchCron
<1>8. \A s \in Schedules : Scheduled(s)' <=> s \in S
  BY <1>2, <1>3 DEF Scheduled
<1> QED
  BY <1>5, <1>6, <1>7, <1>8

(* What a job may become.                                                  *)
JobPlaced(o) ==
  /\ o.pc \in {"finish", "mark"} => o.status # ""
  /\ o.pc \in {"backup", "finish"} => o.run # None
  /\ o.pc \in {"get", "mark"} => o.schedule # None
  /\ o.pc \in {"get", "start"} => ~o.expired

LEMMA JobsType ==
  ASSUME Types, NEW j \in Jobs, NEW o \in Job, JobPlaced(o), job' = [job EXCEPT ![j] = o]
  PROVE  job' \in [Jobs -> Job] /\ Placed'
BY DEF Types, TypeOK, Placed, JobPlaced

LEMMA NoJobPlaced == JobPlaced(NoJob)
BY DEF JobPlaced, NoJob

LEMMA ChangeTypes ==
  ASSUME Types, \/ \E h \in Handlers : WebChange(h) \/ CreateCancelled(h)
                \/ CliChange
  PROVE  Types'
<1>1. PICK s \in Schedules : Statement(s)
  BY ChangeIsStatement
<1>2. schedules' \in [Schedules -> Schedule] /\ runs' \in [Runs -> Run]
  BY <1>1, StatementType DEF Types
<1>3. request' \in [Handlers -> Request]
  <2>1. request \in [Handlers -> Request]
    BY DEF Types, TypeOK
  <2>2. CASE UNCHANGED request
    BY <2>1, <2>2
  <2>3. CASE \E h \in Handlers : request' = [request EXCEPT ![h].pc = "reload"]
    BY <2>1, <2>3 DEF Request
  <2> QED
    BY <2>2, <2>3 DEF WebChange, CreateCancelled, CliChange
<1> QED
  BY <1>2, <1>3 DEF Types, TypeOK, Placed, WebChange, CreateCancelled, CliChange, manager

LEMMA ReloadTypes ==
  ASSUME Types, Manager, NEW h \in Handlers, Reload(h)
  PROVE  Types'
<1>1. CASE ReloadRemove(h)
  <2>1. Removed \in [EntryIds -> Schedules \cup {None}] /\ NoEntries \in [Schedules -> EntryIds \cup {None}]
    BY DEF Types, TypeOK, Removed, NoEntries
  <2>2. request' \in [Handlers -> Request]
    BY <1>1 DEF Types, TypeOK, ReloadRemove, Request
  <2> QED
    BY <1>1, <2>1, <2>2 DEF Types, TypeOK, Placed, ReloadRemove, db
<1>2. CASE ReloadList(h)
  <2>1. request' \in [Handlers -> Request]
    BY <1>2 DEF Types, TypeOK, ReloadList, Listed, Request
  <2> QED
    BY <1>2, <2>1 DEF Types, TypeOK, Placed, ReloadList, db, manager
<1>3. CASE ReloadFails(h)
  BY <1>3, NoJobType DEF Types, TypeOK, Placed, ReloadFails, db
<1>4. CASE ReloadInstall(h)
  <2>1. request[h].listed \in SUBSET Schedules
    BY DEF Types, TypeOK, Request
  <2>2. cron = NoCron /\ entries = NoEntries
    BY <1>4 DEF ReloadInstall, Manager, EmptyMeanwhile, Reloading
  <2>3. cron' \in [EntryIds -> Schedules \cup {None}] /\ entries' \in [Schedules -> EntryIds \cup {None}]
    BY <1>4, <2>1, <2>2, InstallSets DEF ReloadInstall, Types
  <2> QED
    BY <1>4, <2>3, NoJobType DEF Types, TypeOK, Placed, ReloadInstall, db
<1> QED
  BY <1>1, <1>2, <1>3, <1>4 DEF Reload

LEMMA SpawnTypes ==
  ASSUME Types, NEW j \in Jobs, NEW o \in Job, JobPlaced(o), Spawn(j, o),
         UNCHANGED <<db, manager, request, phase, stale, emptied, abandoned>>
  PROVE  Types'
<1>1. job' = [job EXCEPT ![j] = o]
  BY DEF Spawn
<1> QED
  BY <1>1, JobsType DEF Types, TypeOK, db, manager

LEMMA SpawnedType ==
  /\ \A s \in Schedules, e \in EntryIds :
       LET o == [NoJob EXCEPT !.pc = "get", !.schedule = s, !.entry = e]
       IN  o \in Job /\ JobPlaced(o)
  /\ \A s \in Schedules :
       LET o == [NoJob EXCEPT !.pc = "start", !.schedule = s] IN o \in Job /\ JobPlaced(o)
  /\ LET o == [NoJob EXCEPT !.pc = "start"] IN o \in Job /\ JobPlaced(o)
BY NoneOutside DEF NoJob, Job, JobPlaced

LEMMA StartTypes ==
  ASSUME Types,
         \E j \in Jobs :
           \/ ManualBackup(j)
           \/ \E e \in EntryIds : Fire(j, e)
           \/ \E s \in Schedules : RunNow(j, s)
  PROVE  Types'
<1>1. PICK j \in Jobs :
        \/ ManualBackup(j)
        \/ \E e \in EntryIds : Fire(j, e)
        \/ \E s \in Schedules : RunNow(j, s)
  OBVIOUS
<1>2. CASE ManualBackup(j)
  BY <1>2, SpawnedType, SpawnTypes DEF ManualBackup
<1>3. ASSUME NEW e \in EntryIds, Fire(j, e) PROVE Types'
  <2>1. cron[e] \in Schedules
    BY <1>3 DEF Fire, Types, TypeOK
  <2> QED
    BY <1>3, <2>1, SpawnedType, SpawnTypes DEF Fire
<1>4. ASSUME NEW s \in Schedules, RunNow(j, s) PROVE Types'
  BY <1>4, SpawnedType, SpawnTypes DEF RunNow
<1> QED
  BY <1>1, <1>2, <1>3, <1>4

LEMMA WorkTypes ==
  ASSUME Types, NEW j \in Jobs, Work(j) \/ Expire(j)
  PROVE  Types'
<1>0. job[j] \in Job /\ JobPlaced(job[j])
  BY DEF Types, TypeOK, Placed, JobPlaced
<1>1. CASE GetSchedule(j)
  <2> DEFINE o == IF Exists(job[j].schedule) THEN [job[j] EXCEPT !.pc = "start"] ELSE NoJob
  <2>1. o \in Job /\ JobPlaced(o)
    <3>1. [job[j] EXCEPT !.pc = "start"] \in Job
      BY <1>0 DEF Job
    <3>2. JobPlaced([job[j] EXCEPT !.pc = "start"])
      BY <1>0, <1>1 DEF GetSchedule, Job, JobPlaced
    <3> QED
      BY <3>1, <3>2, NoJobType, NoJobPlaced
  <2>2. job' = [job EXCEPT ![j] = o]
    BY <1>1 DEF GetSchedule, Types, TypeOK
  <2> HIDE DEF o
  <2> QED
    BY <1>1, <2>1, <2>2, JobsType DEF GetSchedule, Types, TypeOK, db, manager
<1>2. CASE StartRun(j)
  <2>1. CASE job[j].schedule = None \/ Exists(job[j].schedule)
    <3>1. PICK r \in Runs :
            /\ runs' = [runs EXCEPT ![r] = [status |-> "running", schedule |-> job[j].schedule]]
            /\ job' = [job EXCEPT ![j].pc = "backup", ![j].run = r]
      BY <1>2, <2>1 DEF StartRun
    <3> DEFINE o == [job[j] EXCEPT !.pc = "backup", !.run = r]
    <3>2. o \in Job /\ JobPlaced(o)
      BY <1>0, NoneOutside DEF Job, JobPlaced
    <3>3. job' = [job EXCEPT ![j] = o]
      BY <1>0, <3>1 DEF Job, Types, TypeOK
    <3>4. runs' \in [Runs -> Run]
      BY <1>0, <3>1 DEF Types, TypeOK, Run, Job
    <3> HIDE DEF o
    <3> QED
      BY <1>2, <3>2, <3>3, <3>4, JobsType DEF StartRun, Types, TypeOK, manager
  <2>2. CASE ~(job[j].schedule = None \/ Exists(job[j].schedule))
    BY <1>2, <2>2, NoJobType, NoJobPlaced, JobsType DEF StartRun, Types, TypeOK, manager
  <2> QED
    BY <2>1, <2>2
<1>3. CASE Backup(j)
  <2>1. PICK status \in {"success", "failed"} :
          job' = [job EXCEPT ![j].pc = "finish", ![j].status = status]
    BY <1>3 DEF Backup
  <2> DEFINE o == [job[j] EXCEPT !.pc = "finish", !.status = status]
  <2>2. o \in Job /\ JobPlaced(o)
    BY <1>0, <1>3 DEF Job, JobPlaced, Backup
  <2>3. job' = [job EXCEPT ![j] = o]
    BY <1>0, <2>1 DEF Job, Types, TypeOK
  <2> HIDE DEF o
  <2> QED
    BY <1>3, <2>2, <2>3, JobsType DEF Backup, Types, TypeOK, db, manager
<1>4. CASE FinishRun(j)
  <2> DEFINE o == IF job[j].schedule = None THEN NoJob ELSE [job[j] EXCEPT !.pc = "mark"]
  <2>1. o \in Job /\ JobPlaced(o)
    <3>1. [job[j] EXCEPT !.pc = "mark"] \in Job
      BY <1>0 DEF Job
    <3>2. job[j].schedule # None => JobPlaced([job[j] EXCEPT !.pc = "mark"])
      BY <1>0, <1>4 DEF FinishRun, Job, JobPlaced
    <3> QED
      BY <3>1, <3>2, NoJobType, NoJobPlaced
  <2>2. job' = [job EXCEPT ![j] = o]
    BY <1>4 DEF FinishRun, Types, TypeOK
  <2>3. runs' \in [Runs -> Run]
    <3>1. job[j].run \in Runs /\ job[j].status \in {"success", "failed"}
      BY <1>0, <1>4 DEF FinishRun, JobPlaced, Job
    <3>2. runs \in [Runs -> Run] /\ runs' \in {runs, [runs EXCEPT ![job[j].run].status = job[j].status]}
      BY <1>4 DEF FinishRun, Finished, Types, TypeOK
    <3>3. [runs[job[j].run] EXCEPT !.status = job[j].status] \in Run
      BY <3>1, <3>2 DEF Run
    <3> QED
      BY <3>1, <3>2, <3>3
  <2> HIDE DEF o
  <2> QED
    BY <1>4, <2>1, <2>2, <2>3, JobsType DEF FinishRun, Types, TypeOK, manager
<1>5. CASE MarkScheduleRun(j)
  <2>1. schedules' \in [Schedules -> Schedule]
    <3> DEFINE s == job[j].schedule
               row == [schedules[s] EXCEPT !.last = job[j].status]
    <3>1. s \in Schedules /\ job[j].status \in Outcome
      BY <1>0, <1>5 DEF MarkScheduleRun, JobPlaced, Job, Outcome
    <3>2. schedules \in [Schedules -> Schedule]
      BY DEF Types, TypeOK
    <3>3. row \in Schedule
      BY <3>1, <3>2, OutcomeRow
    <3>4. schedules' = schedules \/ schedules' = [schedules EXCEPT ![s] = row]
      <4>1. schedules' = schedules \/ schedules' = [schedules EXCEPT ![s].last = job[j].status]
        BY <1>5 DEF MarkScheduleRun
      <4> QED
        BY <3>1, <3>2, <4>1
    <3> HIDE DEF s, row
    <3> QED
      BY <3>1, <3>2, <3>3, <3>4
  <2> QED
    BY <1>5, <2>1, NoJobType, NoJobPlaced, JobsType DEF MarkScheduleRun, Types, TypeOK, manager
<1>6. CASE Expire(j)
  <2> DEFINE o == [job[j] EXCEPT !.expired = TRUE]
  <2>1. o \in Job /\ JobPlaced(o)
    BY <1>0, <1>6 DEF Expire, Job, JobPlaced
  <2>2. job' = [job EXCEPT ![j] = o]
    BY <1>6 DEF Expire, Types, TypeOK
  <2>3. abandoned' \subseteq Runs
    BY <1>0, <1>6 DEF Expire, JobPlaced, Job, Types, TypeOK
  <2> HIDE DEF o
  <2> QED
    BY <1>6, <2>1, <2>2, <2>3, JobsType DEF Expire, Types, TypeOK, db, manager
<1> QED
  BY <1>1, <1>2, <1>3, <1>4, <1>5, <1>6 DEF Work, Query

LEMMA DieTypes ==
  ASSUME Types, NEW lost \in SUBSET Jobs, Die(lost)
  PROVE  Types'
<1>1. job' \in [Jobs -> Job] /\ Placed'
  BY NoJobType, NoJobPlaced DEF Die, Placed, JobPlaced
<1>2. abandoned' \subseteq Runs
  BY DEF Die, Types, TypeOK, Job
<1> QED
  BY <1>1, <1>2, NoJobType DEF Die, Types, TypeOK, NoCron, NoEntries, db

LEMMA ProcessTypes ==
  ASSUME Types, Manager, Boot \/ Shutdown \/ StopCron \/ Exit \/ Crash
  PROVE  Types'
<1>1. CASE Boot
  <2>1. cron = NoCron /\ entries = NoEntries
    BY <1>1 DEF Boot, Manager, EmptyMeanwhile
  <2>2. Listed \in SUBSET Schedules
    BY DEF Listed
  <2>3. cron' \in [EntryIds -> Schedules \cup {None}] /\ entries' \in [Schedules -> EntryIds \cup {None}]
    BY <1>1, <2>1, <2>2, InstallSets DEF Boot, Types
  <2> QED
    BY <1>1, <2>3 DEF Boot, Types, TypeOK, Placed, db
<1>2. CASE Shutdown
  BY <1>2 DEF Shutdown, Types, TypeOK, Placed, db, manager
<1>3. CASE StopCron
  BY <1>3 DEF StopCron, Types, TypeOK, Placed, db, manager
<1>4. CASE Exit
  BY <1>4, DieTypes DEF Exit
<1>5. CASE Crash
  BY <1>5, DieTypes DEF Crash
<1> QED
  BY <1>1, <1>2, <1>3, <1>4, <1>5

(* The steps, as the proofs take them apart.                               *)
LEMMA NextCases ==
  ASSUME Next
  PROVE  \/ \E h \in Handlers : WebChange(h) \/ CreateCancelled(h)
         \/ CliChange
         \/ \E h \in Handlers : Reload(h)
         \/ \E j \in Jobs :
              \/ ManualBackup(j)
              \/ \E e \in EntryIds : Fire(j, e)
              \/ \E s \in Schedules : RunNow(j, s)
         \/ \E j \in Jobs : Work(j) \/ Expire(j)
         \/ Boot \/ Shutdown \/ StopCron \/ Exit \/ Crash
BY DEF Next

LEMMA TypesNext ==
  ASSUME Types, Manager, Next
  PROVE  Types'
BY NextCases, ChangeTypes, ReloadTypes, StartTypes, WorkTypes, ProcessTypes

-----------------------------------------------------------------------------
(* The manager: the map and cron in step, the lock, and an empty cron      *)
(* between remove and install.                                             *)
LEMMA ManagerKept ==
  ASSUME Manager, UNCHANGED <<cron, entries, lock, request>>, phase' = "down" => phase = "down"
  PROVE  Manager'
BY DEF Manager, EntriesMatchCron, LockHeld, EmptyMeanwhile, Reloading

(* Every entry is in the map, so that taking the map's out takes all out.  *)
LEMMA RemovedIsEmpty ==
  ASSUME TypeOK, EntriesMatchCron
  PROVE  Removed = NoCron
<1>1. ASSUME NEW e \in EntryIds, cron[e] # None PROVE \E s \in Schedules : entries[s] = e
  <2>1. cron[e] \in Schedules
    BY <1>1 DEF TypeOK
  <2>2. entries[cron[e]] = e
    BY <2>1 DEF EntriesMatchCron
  <2> QED
    BY <2>1, <2>2
<1> QED
  BY <1>1 DEF Removed, NoCron

LEMMA EmptyMatches ==
  ASSUME cron' = NoCron, entries' = NoEntries
  PROVE  EntriesMatchCron'
BY NoneOutside DEF EntriesMatchCron, NoCron, NoEntries

LEMMA ReloadManager ==
  ASSUME Types, Manager, NEW h \in Handlers, Reload(h)
  PROVE  Manager'
<1>1. request \in [Handlers -> Request] /\ request[h] \in Request /\ NoRequest.pc = "idle"
  BY DEF Types, TypeOK, NoRequest
<1>2. CASE ReloadRemove(h)
  <2>1. cron' = NoCron /\ entries' = NoEntries
    BY <1>2, RemovedIsEmpty DEF ReloadRemove, Manager, Types
  <2>2. \A k \in Handlers : ~Reloading(k) /\ phase # "down"
    BY <1>2, NoneOutside DEF ReloadRemove, Manager, LockHeld
  <2>3. \A k \in Handlers : k # h => request'[k] = request[k]
    BY <1>1, <1>2 DEF ReloadRemove
  <2>4. LockHeld'
    BY <1>2, <2>2, <2>3 DEF ReloadRemove, LockHeld, Reloading
  <2> QED
    BY <2>1, <2>4, EmptyMatches DEF Manager, EmptyMeanwhile
<1>3. CASE ReloadList(h)
  <2>1. cron' = cron /\ entries' = entries /\ lock' = lock /\ phase' = phase
    BY <1>3 DEF ReloadList, manager
  <2>2. \A k \in Handlers : Reloading(k)' <=> Reloading(k)
    BY <1>1, <1>3 DEF ReloadList, Reloading
  <2>3. phase # "down"
    BY <1>3 DEF ReloadList, Manager, LockHeld
  <2> QED
    BY <2>1, <2>2, <2>3 DEF Manager, EntriesMatchCron, LockHeld, EmptyMeanwhile
<1>4. ASSUME ReloadFails(h) \/ ReloadInstall(h)
      PROVE  /\ Reloading(h) /\ lock = h /\ phase' = phase /\ phase # "down"
             /\ \A k \in Handlers : ~Reloading(k)'
  <2>1. Reloading(h) /\ phase' = phase /\ request' = [request EXCEPT ![h] = NoRequest]
    BY <1>4 DEF ReloadFails, ReloadInstall, Reloading
  <2>2. lock = h /\ phase # "down"
    BY <2>1 DEF Manager, LockHeld, Reloading
  <2>3. \A k \in Handlers : k # h => ~Reloading(k)
    BY <2>2 DEF Manager, LockHeld
  <2> QED
    BY <1>1, <2>1, <2>2, <2>3 DEF Reloading
<1>5. CASE ReloadFails(h)
  BY <1>4, <1>5 DEF ReloadFails, Manager, EntriesMatchCron, LockHeld, EmptyMeanwhile
<1>6. CASE ReloadInstall(h)
  <2>1. request[h].listed \in SUBSET Schedules
    BY <1>1 DEF Request
  <2>2. cron = NoCron /\ entries = NoEntries
    BY <1>4, <1>6 DEF Manager, EmptyMeanwhile
  <2>3. EntriesMatchCron'
    BY <1>6, <2>1, <2>2, InstallSets DEF ReloadInstall, Types
  <2> QED
    BY <1>4, <1>6, <2>3 DEF Manager, LockHeld, EmptyMeanwhile
<1> QED
  BY <1>2, <1>3, <1>5, <1>6 DEF Reload

LEMMA ManagerNext ==
  ASSUME Types, Manager, Next
  PROVE  Manager'
<1>1. CASE \E h \in Handlers : WebChange(h)
  <2>1. PICK h \in Handlers : WebChange(h)
    BY <1>1
  <2>2. cron' = cron /\ entries' = entries /\ lock' = lock /\ phase' = phase /\ phase # "down"
    BY <2>1 DEF WebChange, manager
  <2>3. \A k \in Handlers : Reloading(k)' <=> Reloading(k)
    BY <2>1 DEF WebChange, Reloading, Types, TypeOK, Request
  <2> QED
    BY <2>2, <2>3 DEF Manager, EntriesMatchCron, LockHeld, EmptyMeanwhile
<1>2. CASE CliChange \/ \E h \in Handlers : CreateCancelled(h)
  BY <1>2, ManagerKept DEF CliChange, CreateCancelled, manager
<1>3. CASE \E h \in Handlers : Reload(h)
  BY <1>3, ReloadManager
<1>4. CASE \E j \in Jobs :
             \/ ManualBackup(j)
             \/ \E e \in EntryIds : Fire(j, e)
             \/ \E s \in Schedules : RunNow(j, s)
  BY <1>4, ManagerKept DEF ManualBackup, Fire, RunNow, manager
<1>5. CASE \E j \in Jobs : Work(j) \/ Expire(j)
  BY <1>5, ManagerKept
     DEF Work, Query, GetSchedule, StartRun, Backup, FinishRun, MarkScheduleRun, Expire, manager
<1>6. CASE Boot
  <2>1. cron = NoCron /\ entries = NoEntries /\ \A h \in Handlers : ~Reloading(h)
    BY <1>6 DEF Boot, Manager, EmptyMeanwhile, LockHeld, Reloading
  <2>2. Listed \in SUBSET Schedules
    BY DEF Listed
  <2>3. EntriesMatchCron'
    BY <1>6, <2>1, <2>2, InstallSets DEF Boot, Types
  <2> QED
    BY <1>6, <2>1, <2>3 DEF Boot, Manager, LockHeld, EmptyMeanwhile, Reloading
<1>7. CASE Shutdown \/ StopCron
  BY <1>7, ManagerKept DEF Shutdown, StopCron, manager
<1>8. ASSUME NEW lost \in SUBSET Jobs, Die(lost) PROVE Manager'
  <2>1. \A h \in Handlers : request'[h].pc = "idle"
    BY <1>8 DEF Die, NoRequest
  <2> QED
    BY <1>8, <2>1, EmptyMatches DEF Die, Manager, LockHeld, EmptyMeanwhile, Reloading
<1>9. CASE Exit
  BY <1>8, <1>9 DEF Exit
<1>10. CASE Crash
  BY <1>8, <1>10 DEF Crash
<1> QED
  BY NextCases, <1>1, <1>2, <1>3, <1>4, <1>5, <1>6, <1>7, <1>9, <1>10

THEOREM SchedulerInvariant == Spec => [](Types /\ Manager)
<1>1. Init => Types /\ Manager
  <2> SUFFICES ASSUME Init PROVE Types /\ Manager
    OBVIOUS
  <2>1. Types
    BY NoJobType, NoJobPlaced
       DEF Init, Types, TypeOK, Schedule, Run, NoCron, NoEntries, Placed, JobPlaced
  <2>2. EntriesMatchCron
    BY NoneOutside DEF Init, EntriesMatchCron, NoCron, NoEntries
  <2>3. LockHeld /\ EmptyMeanwhile
    BY DEF Init, LockHeld, EmptyMeanwhile, Reloading, NoRequest
  <2> QED
    BY <2>1, <2>2, <2>3 DEF Manager
<1>2. Types /\ Manager /\ [Next]_vars => (Types /\ Manager)'
  <2> SUFFICES ASSUME Types, Manager, [Next]_vars PROVE (Types /\ Manager)'
    OBVIOUS
  <2>1. CASE Next
    BY <2>1, TypesNext, ManagerNext
  <2>2. CASE UNCHANGED vars
    BY <2>2, ManagerKept DEF vars, Types, TypeOK, Placed
  <2> QED
    BY <2>1, <2>2
<1> QED
  BY <1>1, <1>2, PTL DEF Spec

(* Every variable of the scheduler keeps its type, whatever is cancelled,  *)
(* timed out, stopped or killed.                                           *)
THEOREM SchedulerTypeOK == Spec => []TypeOK
<1>1. Types => TypeOK
  BY DEF Types
<1> QED
  BY <1>1, SchedulerInvariant, PTL

-----------------------------------------------------------------------------
(* What cron runs, what is listed, what a job works for was created.       *)
LEMMA InstallScheduled ==
  ASSUME Types, NEW listed \in SUBSET Schedules, Install(listed), cron = NoCron, entries = NoEntries
  PROVE  \A s \in Schedules : Scheduled(s)' <=> s \in listed /\ schedules[s].valid
BY InstallSets DEF Types

LEMMA NothingScheduled ==
  ASSUME cron' = NoCron
  PROVE  \A s \in Schedules : ~Scheduled(s)'
BY NoneOutside DEF Scheduled, NoCron

(* How a reload changes what is scheduled and what is listed.              *)
LEMMA ReloadEffect ==
  ASSUME Types, Manager, NEW h \in Handlers, Reload(h)
  PROVE  /\ schedules' = schedules /\ runs' = runs /\ job' = job /\ abandoned' = abandoned
         /\ phase' = phase
         /\ \A k \in Handlers : k # h => request'[k] = request[k]
         /\ ReloadRemove(h) =>
              /\ \A k \in Handlers : ~Reloading(k)
              /\ request'[h].pc = "list"
              /\ stale' = stale
              /\ \A s \in Schedules : ~Scheduled(s)'
         /\ ReloadList(h) =>
              /\ Reloading(h)
              /\ request'[h] = [pc |-> "install", listed |-> Listed]
              /\ stale' = {}
              /\ cron' = cron
         /\ ReloadFails(h) =>
              /\ Reloading(h)
              /\ request'[h] = NoRequest
              /\ emptied'
              /\ cron' = cron
         /\ ReloadInstall(h) =>
              /\ Reloading(h) /\ request[h].pc = "install"
              /\ request'[h] = NoRequest
              /\ stale' = stale
              /\ \A s \in Schedules :
                   Scheduled(s)' <=> s \in request[h].listed /\ schedules[s].valid
<1>1. request \in [Handlers -> Request] /\ request[h] \in Request
  BY DEF Types, TypeOK
<1>2. /\ ReloadRemove(h) => ~ReloadList(h) /\ ~ReloadFails(h) /\ ~ReloadInstall(h)
      /\ ReloadInstall(h) => ~ReloadList(h) /\ ~ReloadFails(h)
      /\ ReloadList(h) => ~ReloadFails(h)
  BY <1>1 DEF ReloadRemove, ReloadList, ReloadFails, ReloadInstall, NoRequest
<1>3. CASE ReloadRemove(h)
  <2>1. cron' = NoCron
    BY <1>3, RemovedIsEmpty DEF ReloadRemove, Manager, Types
  <2>2. \A k \in Handlers : ~Reloading(k)
    BY <1>3, NoneOutside DEF ReloadRemove, Manager, LockHeld
  <2>3. request' = [request EXCEPT ![h].pc = "list"]
    BY <1>3 DEF ReloadRemove
  <2>4. request'[h].pc = "list" /\ \A k \in Handlers : k # h => request'[k] = request[k]
    BY <1>1, <2>3 DEF Request
  <2>5. schedules' = schedules /\ runs' = runs /\ job' = job /\ abandoned' = abandoned
        /\ phase' = phase /\ stale' = stale
    BY <1>3 DEF ReloadRemove, db
  <2>6. \A s \in Schedules : ~Scheduled(s)'
    BY <2>1, NothingScheduled
  <2> QED
    BY <1>3, <1>2, <2>2, <2>4, <2>5, <2>6
<1>4. CASE ReloadList(h)
  BY <1>1, <1>4, <1>2 DEF ReloadList, db, manager, Reloading
<1>5. CASE ReloadFails(h)
  BY <1>1, <1>5, <1>2 DEF ReloadFails, db, Reloading
<1>6. CASE ReloadInstall(h)
  <2>1. request[h].listed \in SUBSET Schedules
    BY <1>1 DEF Request
  <2>2. cron = NoCron /\ entries = NoEntries
    BY <1>6 DEF ReloadInstall, Manager, EmptyMeanwhile, Reloading
  <2>3. Install(request[h].listed)
    BY <1>6 DEF ReloadInstall
  <2>4. \A s \in Schedules : Scheduled(s)' <=> s \in request[h].listed /\ schedules[s].valid
    BY <2>1, <2>2, <2>3, InstallScheduled
  <2>5. schedules' = schedules /\ runs' = runs /\ job' = job /\ abandoned' = abandoned
        /\ phase' = phase /\ stale' = stale /\ request[h].pc = "install"
        /\ request' = [request EXCEPT ![h] = NoRequest]
    BY <1>6 DEF ReloadInstall, db
  <2> QED
    BY <1>1, <1>6, <1>2, <2>4, <2>5 DEF Reloading
<1> QED
  BY <1>3, <1>4, <1>5, <1>6 DEF Reload

LEMMA BootEffect ==
  ASSUME Types, Manager, Boot
  PROVE  /\ \A s \in Schedules : Scheduled(s)' <=> s \in Listed /\ schedules[s].valid
         /\ \A h \in Handlers : request'[h].pc = "idle"
<1>1. cron = NoCron /\ entries = NoEntries /\ \A h \in Handlers : request'[h].pc = "idle"
  BY DEF Boot, Manager, EmptyMeanwhile, LockHeld
<1>2. Listed \in SUBSET Schedules
  BY DEF Listed
<1> QED
  BY <1>1, <1>2, InstallScheduled DEF Boot

LEMMA DieEffect ==
  ASSUME Exit \/ Crash
  PROVE  /\ phase' = "down" /\ schedules' = schedules /\ runs' = runs
         /\ emptied' /\ \A s \in Schedules : ~Scheduled(s)'
         /\ \A h \in Handlers : request'[h].pc = "idle"
         /\ \A j \in Jobs : job'[j] = NoJob
<1>1. PICK lost \in SUBSET Jobs : Die(lost)
  BY DEF Exit, Crash
<1> QED
  BY <1>1, NothingScheduled DEF Die, NoRequest, db

(* A change of the table, with what the request that makes it does next.   *)
LEMMA ChangeEffect ==
  ASSUME Types, \/ \E h \in Handlers : WebChange(h) \/ CreateCancelled(h)
                \/ CliChange
  PROVE  /\ \E s \in Schedules : Statement(s)
         /\ cron' = cron /\ job' = job /\ abandoned' = abandoned /\ phase' = phase
         /\ \/ \E h \in Handlers :
                 /\ request[h].pc = "idle" /\ request'[h].pc = "reload"
                 /\ \A k \in Handlers : k # h => request'[k] = request[k]
            \/ request' = request
<1>1. CASE \E h \in Handlers : WebChange(h)
  <2>1. PICK h \in Handlers : WebChange(h)
    BY <1>1
  <2>2. request[h].pc = "idle" /\ request'[h].pc = "reload"
        /\ \A k \in Handlers : k # h => request'[k] = request[k]
    BY <2>1 DEF WebChange, Types, TypeOK, Request
  <2> QED
    BY <2>1, <2>2, ChangeIsStatement DEF WebChange, manager
<1>2. CASE CliChange \/ \E h \in Handlers : CreateCancelled(h)
  BY <1>2, ChangeIsStatement DEF CliChange, CreateCancelled, manager
<1> QED
  BY <1>1, <1>2

(* A job's statement works on its own entry and, at its end, on one last.  *)
LEMMA WorkSchedules ==
  ASSUME Types, NEW j \in Jobs, Work(j) \/ Expire(j)
  PROVE  \A s \in Schedules :
           /\ schedules'[s].state = schedules[s].state /\ schedules'[s].valid = schedules[s].valid
           /\ schedules'[s].last = schedules[s].last \/ Created(s)
<1>1. CASE schedules' = schedules
  BY <1>1
<1>2. CASE MarkScheduleRun(j)
  <2>1. \A s \in Schedules : schedules[s] \in Schedule
    BY DEF Types, TypeOK
  <2>2. CASE Marks(j)
    <3>1. schedules' = [schedules EXCEPT ![job[j].schedule].last = job[j].status]
      BY <1>2, <2>2 DEF MarkScheduleRun
    <3>2. Created(job[j].schedule)
      BY <2>2 DEF Marks, Exists, Created
    <3> QED
      BY <2>1, <3>1, <3>2 DEF Types, TypeOK, Schedule
  <2>3. CASE ~Marks(j)
    BY <1>2, <2>3 DEF MarkScheduleRun
  <2> QED
    BY <2>2, <2>3
<1> QED
  BY <1>1, <1>2 DEF Work, Query, GetSchedule, StartRun, Backup, FinishRun, Expire, db

LEMMA WorkJob ==
  ASSUME Types, NEW j \in Jobs, Work(j) \/ Expire(j)
  PROVE  /\ \A k \in Jobs : k # j => job'[k] = job[k]
         /\ \/ job'[j] = NoJob
            \/ /\ job[j].pc # "free" /\ job'[j].pc # "free"
               /\ job'[j].schedule = job[j].schedule /\ job'[j].entry = job[j].entry
<1>0. job \in [Jobs -> Job] /\ job[j] \in Job
  BY DEF Types, TypeOK
<1>1. CASE GetSchedule(j)
  BY <1>0, <1>1 DEF GetSchedule, Job
<1>2. CASE StartRun(j)
  <2>1. CASE job[j].schedule = None \/ Exists(job[j].schedule)
    <3>1. PICK r \in Runs : job' = [job EXCEPT ![j].pc = "backup", ![j].run = r]
      BY <1>2, <2>1 DEF StartRun
    <3>2. job' = [job EXCEPT ![j] = [job[j] EXCEPT !.pc = "backup", !.run = r]]
      BY <1>0, <3>1 DEF Job
    <3> QED
      BY <1>0, <1>2, <3>2 DEF StartRun, Job
  <2>2. CASE ~(job[j].schedule = None \/ Exists(job[j].schedule))
    BY <1>0, <1>2, <2>2 DEF StartRun
  <2> QED
    BY <2>1, <2>2
<1>3. CASE Backup(j)
  <2>1. PICK status \in {"success", "failed"} :
          job' = [job EXCEPT ![j].pc = "finish", ![j].status = status]
    BY <1>3 DEF Backup
  <2>2. job' = [job EXCEPT ![j] = [job[j] EXCEPT !.pc = "finish", !.status = status]]
    BY <1>0, <2>1 DEF Job
  <2> QED
    BY <1>0, <1>3, <2>2 DEF Backup, Job
<1>4. CASE FinishRun(j)
  <2>1. CASE job[j].schedule = None
    BY <1>0, <1>4, <2>1 DEF FinishRun
  <2>2. CASE job[j].schedule # None
    <3> DEFINE o == [job[j] EXCEPT !.pc = "mark"]
    <3>1. job' = [job EXCEPT ![j] = o]
      BY <1>0, <1>4, <2>2 DEF FinishRun
    <3>2. o.pc = "mark" /\ o.schedule = job[j].schedule /\ o.entry = job[j].entry
      BY <1>0 DEF Job
    <3>3. job[j].pc # "free"
      BY <1>4 DEF FinishRun
    <3> HIDE DEF o
    <3>4. job'[j] = o /\ \A k \in Jobs : k # j => job'[k] = job[k]
      BY <1>0, <3>1
    <3> QED
      BY <3>2, <3>3, <3>4
  <2> QED
    BY <2>1, <2>2
<1>5. CASE MarkScheduleRun(j)
  BY <1>0, <1>5 DEF MarkScheduleRun
<1>6. CASE Expire(j)
  BY <1>0, <1>6 DEF Expire, Job
<1> QED
  BY <1>1, <1>2, <1>3, <1>4, <1>5, <1>6 DEF Work, Query

LEMMA ReloadsCreatedNext ==
  ASSUME Types, Manager, ReloadsCreated, Next
  PROVE  ReloadsCreated'
<1>1. CASE \/ \E h \in Handlers : WebChange(h) \/ CreateCancelled(h)
           \/ CliChange
  <2>1. PICK s \in Schedules : Statement(s)
    BY <1>1, ChangeEffect
  <2>2. \A t \in Schedules : Created(t) => Created(t)'
    BY <2>1, StatementEffect DEF Types, Created
  <2>3. \A t \in Schedules : Scheduled(t)' <=> Scheduled(t)
    BY <1>1, ChangeEffect DEF Scheduled
  <2>4. \A h \in Handlers : request'[h].pc = "install" => request'[h] = request[h]
    BY <1>1, ChangeEffect
  <2>5. \A h \in Handlers : request[h].listed \subseteq Schedules
    BY DEF Types, TypeOK, Request
  <2> QED
    BY <2>2, <2>3, <2>4, <2>5 DEF ReloadsCreated
<1>2. CASE \E h \in Handlers : Reload(h)
  <2>1. PICK h \in Handlers : Reload(h)
    BY <1>2
  <2>2. \A s \in Schedules : Created(s)' <=> Created(s)
    BY <2>1, ReloadEffect DEF Created
  <2>3. \A s \in Listed : Created(s)
    BY DEF Listed, Created
  <2>4. \A s \in Schedules : Scheduled(s)' => Created(s)
    BY <2>1, ReloadEffect DEF Reload, ReloadsCreated, Scheduled
  <2>5. \A k \in Handlers : request'[k].pc = "install" => \A s \in request'[k].listed : Created(s)
    BY <2>1, <2>3, ReloadEffect DEF Reload, ReloadsCreated, NoRequest
  <2>6. \A k \in Handlers : request'[k].listed \subseteq Schedules
    <3>1. Types'
      BY <2>1, ReloadTypes
    <3> QED
      BY <3>1 DEF Types, TypeOK, Request
  <2> QED
    BY <2>2, <2>4, <2>5, <2>6 DEF ReloadsCreated
<1>3. CASE \E j \in Jobs :
             \/ ManualBackup(j)
             \/ \E e \in EntryIds : Fire(j, e)
             \/ \E s \in Schedules : RunNow(j, s)
  BY <1>3 DEF ManualBackup, Fire, RunNow, manager, db, ReloadsCreated, Scheduled, Created
<1>4. CASE \E j \in Jobs : Work(j) \/ Expire(j)
  <2>1. \A s \in Schedules : Created(s)' <=> Created(s)
    BY <1>4, WorkSchedules DEF Created
  <2>2. cron' = cron /\ request' = request
    BY <1>4 DEF Work, Query, GetSchedule, StartRun, Backup, FinishRun, MarkScheduleRun, Expire, manager
  <2>3. \A h \in Handlers : request[h].listed \subseteq Schedules
    BY DEF Types, TypeOK, Request
  <2> QED
    BY <2>1, <2>2, <2>3 DEF ReloadsCreated, Scheduled
<1>5. CASE Boot
  BY <1>5, BootEffect DEF Boot, db, ReloadsCreated, Listed, Created
<1>6. CASE Shutdown \/ StopCron
  BY <1>6 DEF Shutdown, StopCron, db, manager, ReloadsCreated, Scheduled, Created
<1>7. CASE Exit \/ Crash
  BY <1>7, DieEffect DEF ReloadsCreated
<1> QED
  BY NextCases, <1>1, <1>2, <1>3, <1>4, <1>5, <1>6, <1>7

LEMMA WorksCreatedNext ==
  ASSUME Types, Manager, ReloadsCreated, WorksCreated, Next
  PROVE  WorksCreated'
<1> USE DEF WorksCreated
<1>0. \A j \in Jobs : job[j] \in Job /\ job[j].schedule \in Schedules \cup {None}
  BY DEF Types, TypeOK, Job
<1>1. CASE \/ \E h \in Handlers : WebChange(h) \/ CreateCancelled(h)
           \/ CliChange
  <2>1. PICK s \in Schedules : Statement(s)
    BY <1>1, ChangeEffect
  <2>2. \A t \in Schedules : Created(t) => Created(t)'
    BY <2>1, StatementEffect DEF Types, Created
  <2>3. \A t \in Schedules : ~Created(t)' => ~Created(t) /\ schedules'[t].last = schedules[t].last
    BY <2>1, <2>2, StatementEffect DEF Types
  <2> QED
    BY <1>0, <1>1, <2>2, <2>3, ChangeEffect
<1>2. CASE \E h \in Handlers : Reload(h)
  <2>1. schedules' = schedules /\ job' = job
    BY <1>2, ReloadEffect
  <2> QED
    BY <2>1 DEF Created
<1>3. ASSUME NEW j \in Jobs, NEW o \in Job, Spawn(j, o), db' = db,
             o.schedule # None => Created(o.schedule)
      PROVE  WorksCreated'
  <2>1. schedules' = schedules /\ job' = [job EXCEPT ![j] = o]
    BY <1>3 DEF db, Spawn
  <2> QED
    BY <1>3, <2>1 DEF Created, Types, TypeOK
<1>4. CASE \E j \in Jobs :
             \/ ManualBackup(j)
             \/ \E e \in EntryIds : Fire(j, e)
             \/ \E s \in Schedules : RunNow(j, s)
  <2>1. PICK j \in Jobs :
          \/ ManualBackup(j)
          \/ \E e \in EntryIds : Fire(j, e)
          \/ \E s \in Schedules : RunNow(j, s)
    BY <1>4
  <2>2. CASE ManualBackup(j)
    <3> DEFINE o == [NoJob EXCEPT !.pc = "start"]
    <3>1. o \in Job /\ o.schedule = None
      BY SpawnedType DEF NoJob
    <3>2. Spawn(j, o) /\ db' = db
      BY <2>2 DEF ManualBackup
    <3> HIDE DEF o
    <3> QED
      BY <3>1, <3>2, <1>3
  <2>3. ASSUME NEW e \in EntryIds, Fire(j, e) PROVE WorksCreated'
    <3> DEFINE o == [NoJob EXCEPT !.pc = "get", !.schedule = cron[e], !.entry = e]
    <3>1. cron[e] \in Schedules /\ Scheduled(cron[e])
      BY <2>3 DEF Fire, Types, TypeOK, Scheduled
    <3>2. o \in Job /\ o.schedule = cron[e]
      BY <3>1, SpawnedType DEF NoJob
    <3>3. Created(cron[e])
      BY <3>1 DEF ReloadsCreated
    <3>4. Spawn(j, o) /\ db' = db
      BY <2>3 DEF Fire
    <3> HIDE DEF o
    <3> QED
      BY <3>2, <3>3, <3>4, <1>3
  <2>4. ASSUME NEW s \in Schedules, RunNow(j, s) PROVE WorksCreated'
    <3> DEFINE o == [NoJob EXCEPT !.pc = "start", !.schedule = s]
    <3>1. o \in Job /\ o.schedule = s
      BY SpawnedType DEF NoJob
    <3>2. Spawn(j, o) /\ db' = db /\ Created(s)
      BY <2>4 DEF RunNow, Exists, Created
    <3> HIDE DEF o
    <3> QED
      BY <3>1, <3>2, <1>3
  <2> QED
    BY <2>1, <2>2, <2>3, <2>4
<1>5. CASE \E j \in Jobs : Work(j) \/ Expire(j)
  <2>1. PICK j \in Jobs : Work(j) \/ Expire(j)
    BY <1>5
  <2>2. \A s \in Schedules : Created(s)' <=> Created(s)
    BY <2>1, WorkSchedules DEF Created
  <2>3. \A s \in Schedules : ~Created(s) => schedules'[s].last = schedules[s].last
    BY <2>1, WorkSchedules
  <2>4. ASSUME NEW k \in Jobs, job'[k].pc # "free", job'[k].schedule # None
        PROVE  job[k].pc # "free" /\ job'[k].schedule = job[k].schedule
    BY <2>1, <2>4, WorkJob, NoJobIs
  <2> QED
    BY <1>0, <2>2, <2>3, <2>4
<1>6. CASE Boot \/ Shutdown \/ StopCron
  <2>1. schedules' = schedules /\ job' = job
    BY <1>6 DEF Boot, Shutdown, StopCron, db
  <2> QED
    BY <2>1 DEF Created
<1>7. CASE Exit \/ Crash
  BY <1>7, DieEffect, NoJobIs DEF Created
<1> QED
  BY NextCases, <1>1, <1>2, <1>4, <1>5, <1>6, <1>7

-----------------------------------------------------------------------------
(* What cron runs, next to the table.                                      *)
LEMMA OneReloads ==
  ASSUME Manager, NEW h \in Handlers, NEW k \in Handlers, Reloading(h), Reloading(k)
  PROVE  h = k
BY DEF Manager, LockHeld

LEMMA EmptyCron ==
  ASSUME Manager, NEW h \in Handlers, Reloading(h)
  PROVE  \A s \in Schedules : ~Scheduled(s)
BY NoneOutside DEF Manager, EmptyMeanwhile, Scheduled, NoCron

LEMMA ListedIsDue ==
  \A s \in Schedules : s \in Listed /\ schedules[s].valid <=> Due(s)
BY DEF Listed, Due

(* The steps that touch neither what cron runs nor which schedules are due. *)
LEMMA StartEffect ==
  ASSUME \/ \E j \in Jobs :
              \/ ManualBackup(j)
              \/ \E e \in EntryIds : Fire(j, e)
              \/ \E s \in Schedules : RunNow(j, s)
  PROVE  UNCHANGED <<schedules, runs, cron, entries, lock, request, phase, stale, emptied, abandoned>>
BY DEF ManualBackup, Fire, RunNow, db, manager

LEMMA WorkEffect ==
  ASSUME NEW j \in Jobs, Work(j) \/ Expire(j)
  PROVE  UNCHANGED <<cron, entries, lock, request, phase, stale, emptied>>
BY DEF Work, Query, GetSchedule, StartRun, Backup, FinishRun, MarkScheduleRun, Expire, manager

LEMMA SameTable ==
  ASSUME Types, Follows, UNCHANGED <<cron, request, stale, emptied>>,
         \A s \in Schedules : schedules'[s].state = schedules[s].state
                            /\ schedules'[s].valid = schedules[s].valid
  PROVE  Follows'
<1>1. \A s \in Schedules : (Scheduled(s)' <=> Scheduled(s)) /\ (Due(s)' <=> Due(s))
  BY DEF Scheduled, Due
<1>2. \A h \in Handlers : Reloading(h)' <=> Reloading(h)
  BY DEF Reloading
<1>3. Waiting' <=> Waiting
  BY DEF Waiting
<1> QED
  BY <1>1, <1>2, <1>3 DEF Follows

(* A change that no request will reload touches one row, which is stale.   *)
LEMMA UnlistedFollows ==
  ASSUME Types, Follows, CliChange \/ \E h \in Handlers : CreateCancelled(h)
  PROVE  Follows'
<1>1. PICK s \in Schedules : Statement(s) /\ stale' = stale \cup {s}
  BY DEF CliChange, CreateCancelled, Statement
<1>2. UNCHANGED <<cron, request, emptied>>
  BY DEF CliChange, CreateCancelled, manager
<1>3. \A t \in Schedules \ {s} : schedules'[t] = schedules[t]
  BY <1>1, StatementEffect DEF Types
<1>4. ASSUME NEW t \in Schedules \ stale'
      PROVE  /\ t \in Schedules \ stale /\ schedules'[t] = schedules[t]
             /\ (Scheduled(t)' <=> Scheduled(t)) /\ (Due(t)' <=> Due(t))
  BY <1>1, <1>2, <1>3 DEF Scheduled, Due
<1>5. \A h \in Handlers : Reloading(h)' <=> Reloading(h)
  BY <1>2 DEF Reloading
<1>6. Waiting' <=> Waiting
  BY <1>2 DEF Waiting
<1> QED
  BY <1>2, <1>4, <1>5, <1>6 DEF Follows

LEMMA ReloadFollows ==
  ASSUME Types, Manager, Follows, NEW h \in Handlers, Reload(h)
  PROVE  Follows'
<1> SUFFICES ASSUME ~Waiting', NEW s \in Schedules \ stale'
             PROVE  /\ Scheduled(s)' => Due(s)'
                    /\ ~emptied' /\ (\A k \in Handlers : ~Reloading(k)') =>
                         (Due(s)' => Scheduled(s)')
                    /\ \A k \in Handlers : request'[k].pc = "install" =>
                         (s \in request'[k].listed /\ schedules'[s].valid <=> Due(s)')
  BY DEF Follows
<1>1. schedules' = schedules /\ (Due(s)' <=> Due(s))
  BY ReloadEffect DEF Due
<1>2. \A k \in Handlers : k # h => request'[k] = request[k]
  BY ReloadEffect
<1>3. CASE ReloadRemove(h)
  <2>1. /\ request'[h].pc = "list" /\ ~Scheduled(s)'
        /\ \A k \in Handlers : k # h => request'[k].pc # "install"
    BY <1>3, <1>2, ReloadEffect DEF Reloading
  <2> QED
    BY <2>1 DEF Reloading
<1>4. CASE ReloadList(h)
  <2>1. request'[h] = [pc |-> "install", listed |-> Listed] /\ Reloading(h) /\ cron' = cron
    BY <1>4, ReloadEffect DEF Reloading
  <2>2. \A k \in Handlers : k # h => request'[k].pc # "install"
    BY <1>2, <2>1, OneReloads DEF Reloading
  <2>3. Reloading(h)' /\ ~Scheduled(s)'
    BY <2>1, EmptyCron DEF Reloading, Scheduled
  <2> QED
    BY <1>1, <2>1, <2>2, <2>3, ListedIsDue
<1>5. CASE ReloadFails(h)
  <2>1. request'[h] = NoRequest /\ Reloading(h) /\ cron' = cron /\ emptied'
    BY <1>5, ReloadEffect DEF Reloading
  <2>2. \A k \in Handlers : request'[k].pc # "install"
    BY <1>2, <2>1, OneReloads, NoJobIs DEF Reloading
  <2>3. ~Scheduled(s)'
    BY <2>1, EmptyCron DEF Scheduled
  <2> QED
    BY <2>1, <2>2, <2>3
<1>6. CASE ReloadInstall(h)
  <2>1. /\ request'[h] = NoRequest /\ Reloading(h) /\ request[h].pc = "install" /\ stale' = stale
        /\ (Scheduled(s)' <=> s \in request[h].listed /\ schedules[s].valid)
    BY <1>6, ReloadEffect DEF Reloading
  <2>2. \A k \in Handlers : request'[k].pc # "install"
    BY <1>2, <2>1, OneReloads, NoJobIs DEF Reloading
  <2>3. ~Waiting
    BY <1>2, <2>1 DEF Waiting
  <2>4. s \in request[h].listed /\ schedules[s].valid <=> Due(s)
    BY <2>1, <2>3 DEF Follows
  <2> QED
    BY <1>1, <2>1, <2>2, <2>4
<1> QED
  BY <1>3, <1>4, <1>5, <1>6 DEF Reload

LEMMA FollowsNext ==
  ASSUME Types, Manager, Follows, Next
  PROVE  Follows'
<1>1. CASE \E h \in Handlers : WebChange(h)
  <2>1. Waiting'
    BY <1>1 DEF WebChange, Waiting, Types, TypeOK, Request
  <2> QED
    BY <2>1 DEF Follows
<1>2. CASE CliChange \/ \E h \in Handlers : CreateCancelled(h)
  BY <1>2, UnlistedFollows
<1>3. CASE \E h \in Handlers : Reload(h)
  BY <1>3, ReloadFollows
<1>4. CASE \E j \in Jobs :
             \/ ManualBackup(j)
             \/ \E e \in EntryIds : Fire(j, e)
             \/ \E s \in Schedules : RunNow(j, s)
  BY <1>4, StartEffect, SameTable
<1>5. CASE \E j \in Jobs : Work(j) \/ Expire(j)
  BY <1>5, WorkEffect, WorkSchedules, SameTable
<1>6. CASE Boot
  <2>1. /\ \A s \in Schedules : Due(s)' <=> Due(s)
        /\ \A s \in Schedules : Scheduled(s)' <=> Due(s)
        /\ \A h \in Handlers : request'[h].pc = "idle"
    BY <1>6, BootEffect, ListedIsDue DEF Boot, db, Due
  <2> QED
    BY <2>1 DEF Follows
<1>7. CASE Shutdown \/ StopCron
  BY <1>7, SameTable DEF Shutdown, StopCron, db, manager
<1>8. CASE Exit \/ Crash
  BY <1>8, DieEffect DEF Follows
<1> QED
  BY NextCases, <1>1, <1>2, <1>3, <1>4, <1>5, <1>6, <1>7, <1>8

THEOREM SchedulerFollows == Spec => []Follows
<1>1. Init => Follows
  BY NoneOutside, NoJobIs DEF Init, Follows, Scheduled, NoCron
<1>2. Types /\ Manager /\ Follows /\ [Next]_vars => Follows'
  <2> SUFFICES ASSUME Types, Manager, Follows, [Next]_vars PROVE Follows'
    OBVIOUS
  <2>1. CASE UNCHANGED vars
    BY <2>1, SameTable DEF vars
  <2> QED
    BY <2>1, FollowsNext
<1> QED
  BY <1>1, <1>2, SchedulerInvariant, PTL DEF Spec

(* Cron and the entries map stay in step, and cron runs exactly what is    *)
(* due of the rows no change of which waits to be listed: never more,      *)
(* whatever reloads fail, and never less but while it is emptied.          *)
THEOREM SchedulerCronFollowsTable == Spec => []CronFollowsTable
<1>1. Manager /\ Follows => CronFollowsTable
  BY DEF Manager, Follows, CronFollowsTable, Waiting, Quiet, Reloading
<1> QED
  BY <1>1, SchedulerInvariant, SchedulerFollows, PTL

-----------------------------------------------------------------------------
(* Only a tick of cron makes a job look its schedule up.                   *)
LEMMA GetsByFire ==
  ASSUME Types, NEW j \in Jobs, Next, job[j].pc = "free", job'[j].pc = "get"
  PROVE  \E e \in EntryIds : Fire(j, e)
<1>1. CASE \/ \E h \in Handlers : WebChange(h) \/ CreateCancelled(h)
           \/ CliChange
  BY <1>1, ChangeEffect
<1>2. CASE \E h \in Handlers : Reload(h)
  BY <1>2 DEF Reload, ReloadRemove, ReloadList, ReloadFails, ReloadInstall
<1>3. CASE \E k \in Jobs :
             \/ ManualBackup(k)
             \/ \E e \in EntryIds : Fire(k, e)
             \/ \E s \in Schedules : RunNow(k, s)
  <2>1. ASSUME NEW k \in Jobs, NEW o, Spawn(k, o), o.pc = "start" PROVE FALSE
    BY <2>1 DEF Spawn, Types, TypeOK
  <2>2. \A k \in Jobs : \A o : Spawn(k, o) => \A i \in Jobs : i # k => job'[i] = job[i]
    BY DEF Spawn, Types, TypeOK
  <2>3. ASSUME NEW k \in Jobs, ManualBackup(k) PROVE FALSE
    BY <2>1, <2>3 DEF ManualBackup, NoJob
  <2>4. ASSUME NEW k \in Jobs, NEW s \in Schedules, RunNow(k, s) PROVE FALSE
    BY <2>1, <2>4 DEF RunNow, NoJob
  <2>5. ASSUME NEW k \in Jobs, NEW e \in EntryIds, Fire(k, e) PROVE k = j
    BY <2>2, <2>5 DEF Fire
  <2> QED
    BY <1>3, <2>3, <2>4, <2>5
<1>4. CASE \E k \in Jobs : Work(k) \/ Expire(k)
  BY <1>4, WorkJob, NoJobIs
<1>5. CASE Boot \/ Shutdown \/ StopCron
  BY <1>5 DEF Boot, Shutdown, StopCron
<1>6. CASE Exit \/ Crash
  BY <1>6, DieEffect, NoJobIs
<1> QED
  BY NextCases, <1>1, <1>2, <1>3, <1>4, <1>5, <1>6

(* Cron starts no run of a schedule that is paused or deleted, once the    *)
(* request that changed it has reloaded, and with the command line in use  *)
(* but for the schedules it changed since the last list.                   *)
THEOREM SchedulerPausedDoesNotFire == Spec => PausedDoesNotFire
<1> DEFINE Starts(j) ==
      job[j].pc = "free" /\ job'[j].pc = "get" /\ ~Waiting =>
        LET s == job'[j].schedule
        IN  schedules[s].state = "enabled" \/ s \in stale
<1>1. Types /\ Follows /\ [Next]_vars => [\A j \in Jobs : Starts(j)]_vars
  <2> SUFFICES ASSUME Types, Follows, Next, NEW j \in Jobs,
                      job[j].pc = "free", job'[j].pc = "get", ~Waiting
               PROVE  LET s == job'[j].schedule
                      IN  schedules[s].state = "enabled" \/ s \in stale
    OBVIOUS
  <2>1. PICK e \in EntryIds : Fire(j, e)
    BY GetsByFire
  <2>2. cron[e] \in Schedules /\ Scheduled(cron[e])
    BY <2>1 DEF Fire, Types, TypeOK, Scheduled
  <2>3. job'[j].schedule = cron[e]
    BY <2>1 DEF Fire, Spawn, NoJob, Types, TypeOK
  <2> QED
    BY <2>2, <2>3 DEF Follows, Due
<1> QED
  BY <1>1, SchedulerInvariant, SchedulerFollows, PTL DEF Spec, PausedDoesNotFire

-----------------------------------------------------------------------------
(* Rows and the jobs that own them.                                        *)
History(r) ==
  /\ runs[r].status \in {"success", "failed"} => runs'[r].status = runs[r].status
  /\ runs[r].status = "unused" => runs'[r].status \in {"unused", "running"}

Rows == OwnRow /\ RunningIsOwned

LEMMA OwnerRun ==
  ASSUME Types, NEW j \in Jobs, Owner(j)
  PROVE  job[j].run \in Runs
BY DEF Types, TypeOK, Placed, Owner, Job

(* The steps that begin and end no row.                                    *)
LEMMA RowsKept ==
  ASSUME Types, Rows, abandoned \subseteq abandoned',
         \A r \in Runs : runs'[r].status = runs[r].status,
         \A j \in Jobs :
           /\ Owner(j)' <=> Owner(j)
           /\ Owner(j) => /\ job'[j].run = job[j].run
                          /\ job'[j].expired => job[j].expired \/ job[j].run \in abandoned'
  PROVE  Rows' /\ \A r \in Runs : History(r)
<1>1. OwnRow'
  BY OwnerRun DEF Rows, OwnRow
<1>2. RunningIsOwned'
  <2> SUFFICES ASSUME NEW r \in Runs, runs'[r].status = "running", r \notin abandoned'
               PROVE  \E j \in Jobs : job'[j].run = r /\ Owner(j)'
    BY DEF RunningIsOwned, Owner
  <2>1. PICK j \in Jobs : job[j].run = r /\ Owner(j)
    BY DEF Rows, RunningIsOwned, Owner
  <2> QED
    BY <2>1
<1>3. \A r \in Runs : History(r)
  BY DEF History
<1> QED
  BY <1>1, <1>2, <1>3 DEF Rows

LEMMA StartRunRows ==
  ASSUME Types, Rows, NEW j \in Jobs, StartRun(j)
  PROVE  Rows' /\ \A r \in Runs : History(r)
<1>0. job \in [Jobs -> Job] /\ job[j] \in Job /\ ~Owner(j) /\ abandoned' = abandoned
  BY DEF Types, TypeOK, StartRun, Owner
<1>1. CASE job[j].schedule = None \/ Exists(job[j].schedule)
  <2>1. PICK r \in Runs :
          /\ NewRow(r)
          /\ runs' = [runs EXCEPT ![r] = [status |-> "running", schedule |-> job[j].schedule]]
          /\ job' = [job EXCEPT ![j].pc = "backup", ![j].run = r]
    BY <1>1 DEF StartRun
  <2>2. job'[j].run = r /\ Owner(j)' /\ job'[j].expired = job[j].expired
    BY <1>0, <2>1 DEF Job, Owner
  <2>3. \A k \in Jobs : k # j => job'[k] = job[k]
    BY <2>1, <1>0
  <2>4. runs'[r].status = "running" /\ runs[r].status = "unused"
        /\ \A q \in Runs : q # r => runs'[q] = runs[q]
    BY <2>1 DEF NewRow, Types, TypeOK
  <2>5. \A k \in Jobs : Owner(k) => job[k].run # r /\ job[k].run \in Runs
    BY <2>4, OwnerRun DEF Rows, OwnRow
  <2>6. ~job[j].expired
    BY DEF Rows, OwnRow, StartRun, Types, Placed, TypeOK
  <2>7. OwnRow'
    BY <1>0, <2>2, <2>3, <2>4, <2>5, <2>6 DEF Rows, OwnRow, Owner
  <2>8. RunningIsOwned'
    BY <1>0, <2>2, <2>3, <2>4, <2>5 DEF Rows, RunningIsOwned, Owner
  <2>9. \A q \in Runs : History(q)
    BY <2>4 DEF History
  <2> QED
    BY <2>7, <2>8, <2>9 DEF Rows
<1>2. CASE ~(job[j].schedule = None \/ Exists(job[j].schedule))
  <2>1. runs' = runs /\ job' = [job EXCEPT ![j] = NoJob]
    BY <1>2 DEF StartRun
  <2>2. \A k \in Jobs : (Owner(k)' <=> Owner(k)) /\ (Owner(k) => job'[k] = job[k])
    BY <1>0, <2>1, NoJobIs DEF Owner
  <2> QED
    BY <1>0, <2>1, <2>2, RowsKept
<1> QED
  BY <1>1, <1>2

LEMMA FinishRunRows ==
  ASSUME Types, Rows, NEW j \in Jobs, FinishRun(j)
  PROVE  Rows' /\ \A r \in Runs : History(r)
<1>1. /\ job[j] \in Job /\ Owner(j) /\ ~Owner(j)' /\ job[j].run \in Runs
      /\ \A k \in Jobs : k # j => job'[k] = job[k]
  <2>1. Owner(j) /\ job[j] \in Job
    BY DEF FinishRun, Owner, Types, TypeOK
  <2>2. job' = [job EXCEPT ![j] = IF job[j].schedule = None THEN NoJob
                                  ELSE [job[j] EXCEPT !.pc = "mark"]]
    BY DEF FinishRun, Types, TypeOK
  <2>3. ~Owner(j)'
    BY <2>1, <2>2, NoJobIs DEF Owner, Types, TypeOK, Job
  <2>4. \A k \in Jobs : k # j => job'[k] = job[k]
    BY <2>2 DEF Types, TypeOK
  <2> QED
    BY <2>1, <2>3, <2>4, OwnerRun
<1>2. runs[job[j].run].status = "running" /\ abandoned' = abandoned
  BY <1>1 DEF Rows, OwnRow, FinishRun
<1>3. \A k \in Jobs : Owner(k)' => Owner(k) /\ k # j /\ job[k].run # job[j].run /\ job[k].run \in Runs
  BY <1>1, OwnerRun DEF Rows, OwnRow, Owner
<1>4. CASE job[j].expired
  <2>1. runs' = runs /\ job[j].run \in abandoned
    BY <1>1, <1>4 DEF FinishRun, Finished, Rows, OwnRow
  <2>2. OwnRow'
    BY <1>1, <1>2, <1>3, <2>1 DEF Rows, OwnRow
  <2>3. RunningIsOwned'
    BY <1>1, <1>2, <2>1 DEF Rows, RunningIsOwned, Owner
  <2> QED
    BY <2>1, <2>2, <2>3 DEF Rows, History
<1>5. CASE ~job[j].expired
  <2>1. runs' = [runs EXCEPT ![job[j].run].status = job[j].status]
    BY <1>5 DEF FinishRun, Finished
  <2>2. job[j].status \in {"success", "failed"}
    BY <1>1 DEF FinishRun, Types, Placed, Job
  <2>3. runs'[job[j].run].status \in {"success", "failed"}
        /\ \A q \in Runs : q # job[j].run => runs'[q] = runs[q]
    BY <1>1, <2>1, <2>2 DEF Types, TypeOK, Run
  <2>4. OwnRow'
    BY <1>1, <1>2, <1>3, <2>3 DEF Rows, OwnRow
  <2>5. RunningIsOwned'
    BY <1>1, <1>2, <2>3 DEF Rows, RunningIsOwned, Owner
  <2>6. \A q \in Runs : History(q)
    BY <1>1, <1>2, <2>3 DEF History
  <2> QED
    BY <2>4, <2>5, <2>6 DEF Rows
<1> QED
  BY <1>4, <1>5

(* Every job is lost: the process waits for cron's jobs, or is killed.     *)
LEMMA DieRows ==
  ASSUME Types, Rows, Exit \/ Crash
  PROVE  Rows' /\ \A r \in Runs : History(r)
<1>1. Die(Jobs)
  <2>1. CASE Exit
    <3>1. Jobs = {j \in Jobs : job[j].entry = None}
      BY <2>1 DEF Exit, CronJobsDone
    <3> QED
      BY <2>1, <3>1 DEF Exit
  <2> QED
    BY <2>1 DEF Crash
<1>2. /\ runs' = runs
      /\ abandoned' = abandoned \cup ({job[j].run : j \in Jobs} \ {None})
      /\ \A j \in Jobs : ~Owner(j)'
  BY <1>1, NoJobIs DEF Die, db, Owner
<1>3. RunningIsOwned'
  BY <1>2, NoneOutside DEF Rows, RunningIsOwned
<1>4. OwnRow' /\ \A r \in Runs : History(r)
  BY <1>2 DEF OwnRow, History
<1> QED
  BY <1>3, <1>4 DEF Rows

LEMMA SpawnJobs ==
  ASSUME Types, NEW j \in Jobs, NEW o, Spawn(j, o), o.pc \in {"get", "start"}
  PROVE  \A k \in Jobs : \/ job'[k] = job[k]
                         \/ job[k].pc = "free" /\ job'[k].pc \in {"get", "start"}
BY DEF Spawn, Types, TypeOK

LEMMA StartJobs ==
  ASSUME Types, NEW j \in Jobs,
         \/ ManualBackup(j)
         \/ \E e \in EntryIds : Fire(j, e)
         \/ \E s \in Schedules : RunNow(j, s)
  PROVE  \A k \in Jobs : \/ job'[k] = job[k]
                         \/ job[k].pc = "free" /\ job'[k].pc \in {"get", "start"}
<1>1. \E o : Spawn(j, o) /\ o.pc \in {"get", "start"}
  <2>1. CASE ManualBackup(j)
    <3>1. Spawn(j, [NoJob EXCEPT !.pc = "start"])
      BY <2>1 DEF ManualBackup
    <3>2. [NoJob EXCEPT !.pc = "start"].pc = "start"
      BY DEF NoJob
    <3> QED
      BY <3>1, <3>2
  <2>2. ASSUME NEW e \in EntryIds, Fire(j, e)
        PROVE  \E o : Spawn(j, o) /\ o.pc \in {"get", "start"}
    <3>1. Spawn(j, [NoJob EXCEPT !.pc = "get", !.schedule = cron[e], !.entry = e])
      BY <2>2 DEF Fire
    <3>2. [NoJob EXCEPT !.pc = "get", !.schedule = cron[e], !.entry = e].pc = "get"
      BY DEF NoJob
    <3> QED
      BY <3>1, <3>2
  <2>3. ASSUME NEW s \in Schedules, RunNow(j, s)
        PROVE  \E o : Spawn(j, o) /\ o.pc \in {"get", "start"}
    <3>1. Spawn(j, [NoJob EXCEPT !.pc = "start", !.schedule = s])
      BY <2>3 DEF RunNow
    <3>2. [NoJob EXCEPT !.pc = "start", !.schedule = s].pc = "start"
      BY DEF NoJob
    <3> QED
      BY <3>1, <3>2
  <2> QED
    BY <2>1, <2>2, <2>3
<1> QED
  BY <1>1, SpawnJobs

LEMMA RowsNext ==
  ASSUME Types, Manager, Rows, Next
  PROVE  Rows' /\ \A r \in Runs : History(r)
<1>1. CASE \/ \E h \in Handlers : WebChange(h) \/ CreateCancelled(h)
           \/ CliChange
  <2>1. PICK s \in Schedules : Statement(s)
    BY <1>1, ChangeEffect
  <2>2. \A r \in Runs : runs'[r].status = runs[r].status
    BY <2>1, StatementEffect DEF Types
  <2> QED
    BY <1>1, <2>2, ChangeEffect, RowsKept DEF Owner
<1>2. CASE \E h \in Handlers : Reload(h)
  BY <1>2, ReloadEffect, RowsKept DEF Owner
<1>3. CASE \E j \in Jobs :
             \/ ManualBackup(j)
             \/ \E e \in EntryIds : Fire(j, e)
             \/ \E s \in Schedules : RunNow(j, s)
  <2>1. \A k \in Jobs : (Owner(k)' <=> Owner(k)) /\ (Owner(k) => job'[k] = job[k])
    BY <1>3, StartJobs DEF Owner
  <2> QED
    BY <1>3, <2>1, StartEffect, RowsKept
<1>4. ASSUME NEW j \in Jobs, Work(j) \/ Expire(j) PROVE Rows' /\ \A r \in Runs : History(r)
  <2>0. job[j] \in Job /\ job \in [Jobs -> Job]
    BY DEF Types, TypeOK
  <2>1. CASE GetSchedule(j)
    <3>1. \A k \in Jobs : (Owner(k)' <=> Owner(k)) /\ (Owner(k) => job'[k] = job[k])
      BY <2>0, <2>1, NoJobIs DEF GetSchedule, Owner, Job
    <3> QED
      BY <2>1, <3>1, RowsKept DEF GetSchedule, db
  <2>2. CASE Backup(j)
    <3>1. PICK status \in {"success", "failed"} :
            job' = [job EXCEPT ![j].pc = "finish", ![j].status = status]
      BY <2>2 DEF Backup
    <3>2. Owner(j) /\ Owner(j)' /\ job'[j].run = job[j].run /\ job'[j].expired = job[j].expired
          /\ \A k \in Jobs : k # j => job'[k] = job[k]
      BY <2>0, <2>2, <3>1 DEF Backup, Owner, Job
    <3> QED
      BY <2>2, <3>2, RowsKept DEF Backup, db, Owner
  <2>3. CASE MarkScheduleRun(j)
    <3>1. \A k \in Jobs : (Owner(k)' <=> Owner(k)) /\ (Owner(k) => job'[k] = job[k])
      BY <2>0, <2>3, NoJobIs DEF MarkScheduleRun, Owner
    <3> QED
      BY <2>3, <3>1, RowsKept DEF MarkScheduleRun
  <2>4. CASE Expire(j)
    <3>1. job' = [job EXCEPT ![j].expired = TRUE]
          /\ abandoned \subseteq abandoned' /\ (Owner(j) => job[j].run \in abandoned')
      BY <2>4 DEF Expire, Owner
    <3>2. (Owner(j)' <=> Owner(j)) /\ job'[j].run = job[j].run
          /\ \A k \in Jobs : k # j => job'[k] = job[k]
      BY <2>0, <3>1 DEF Owner, Job
    <3> QED
      BY <2>4, <3>1, <3>2, RowsKept DEF Expire, db, Owner
  <2> QED
    BY <1>4, <2>1, <2>2, <2>3, <2>4, StartRunRows, FinishRunRows DEF Work, Query
<1>5. CASE Boot \/ Shutdown \/ StopCron
  <2>1. runs' = runs /\ job' = job /\ abandoned' = abandoned
    BY <1>5 DEF Boot, Shutdown, StopCron, db
  <2> QED
    BY <2>1, RowsKept DEF Owner
<1> QED
  BY NextCases, <1>1, <1>2, <1>3, <1>4, <1>5, DieRows

LEMMA RowsInit == Init => Rows
<1> SUFFICES ASSUME Init PROVE Rows
  OBVIOUS
<1>1. (\A j \in Jobs : ~Owner(j)) /\ \A r \in Runs : runs[r].status # "running"
  BY NoJobIs DEF Init, Owner
<1> QED
  BY <1>1 DEF Rows, OwnRow, RunningIsOwned

LEMMA RowsStep == Types /\ Manager /\ Rows /\ [Next]_vars => Rows'
<1> SUFFICES ASSUME Types, Manager, Rows, [Next]_vars PROVE Rows'
  OBVIOUS
<1>1. CASE UNCHANGED vars
  BY <1>1, RowsKept DEF vars, Owner
<1> QED
  BY <1>1, RowsNext

(* A row says "running" only while a goroutine will still finish it, or    *)
(* when its run was abandoned: its process died or exited, or its context  *)
(* expired or was cancelled before FinishRun.                              *)
THEOREM SchedulerRunningIsOwned == Spec => []RunningIsOwned
<1>1. Rows => RunningIsOwned
  BY DEF Rows
<1> QED
  BY <1>1, RowsInit, RowsStep, SchedulerInvariant, PTL DEF Spec

(* History is append-only: a finished run keeps its status.                *)
THEOREM SchedulerHistoryIsFinal == Spec => HistoryIsFinal
<1>1. Types /\ Manager /\ Rows /\ [Next]_vars
        => [\A r \in Runs :
              /\ runs[r].status \in {"success", "failed"} => runs'[r].status = runs[r].status
              /\ runs[r].status = "unused" => runs'[r].status \in {"unused", "running"}]_vars
  BY RowsNext DEF History
<1> QED
  BY <1>1, RowsInit, RowsStep, SchedulerInvariant, PTL DEF Spec, HistoryIsFinal

-----------------------------------------------------------------------------
(* The row a job works on is of its schedule.                              *)
LEMMA RowOfJobKept ==
  ASSUME Types, RowOfJob, runs' = runs,
         \A s \in Schedules : Exists(s)' <=> Exists(s),
         \A j \in Jobs :
           /\ Owner(j)' => /\ Owner(j)
                           /\ job'[j].run = job[j].run /\ job'[j].schedule = job[j].schedule
           /\ ToMark(j)' => job'[j] = job[j]
  PROVE  RowOfJob'
<1> SUFFICES ASSUME NEW j \in Jobs
             PROVE  /\ Owner(j)' /\ HasSchedule(j)' =>
                          runs[job'[j].run].schedule = job'[j].schedule
                    /\ ToMark(j)' =>
                         /\ job'[j].run # None
                         /\ runs[job'[j].run].status = job'[j].status
                         /\ HasSchedule(j)' => runs[job'[j].run].schedule = job'[j].schedule
  BY DEF RowOfJob, ToMark
<1>1. job[j].schedule \in Schedules \cup {None}
  BY DEF Types, TypeOK, Job
<1>2. ASSUME job'[j].schedule = job[j].schedule, HasSchedule(j)' PROVE HasSchedule(j)
  BY <1>1, <1>2 DEF HasSchedule
<1> QED
  BY <1>2 DEF RowOfJob, ToMark, Owner

LEMMA StatementRowOfJob ==
  ASSUME Types, WorksCreated, RowOfJob, NEW s \in Schedules, Statement(s), job' = job
  PROVE  RowOfJob'
<1> SUFFICES ASSUME NEW j \in Jobs, Owner(j) \/ ToMark(j)
             PROVE  /\ runs'[job[j].run].status = runs[job[j].run].status
                    /\ HasSchedule(j)' =>
                         /\ HasSchedule(j)
                         /\ runs'[job[j].run].schedule = runs[job[j].run].schedule
  BY DEF RowOfJob, ToMark, Owner, HasSchedule
<1>1. /\ job[j].schedule \in Schedules \cup {None} /\ job[j].pc # "free"
      /\ job[j].run \in Runs
  BY OwnerRun DEF Types, TypeOK, Job, RowOfJob, ToMark, Owner
<1>2. runs'[job[j].run].status = runs[job[j].run].status
  BY <1>1, StatementEffect DEF Types
<1>3. ASSUME HasSchedule(j)' PROVE HasSchedule(j)
  <2>1. job[j].schedule \in Schedules /\ Exists(job[j].schedule)' /\ Created(job[j].schedule)
    BY <1>1, <1>3 DEF HasSchedule, WorksCreated
  <2>2. Exists(job[j].schedule)
    BY <2>1, StatementEffect DEF Types, Exists
  <2> QED
    BY <1>3, <2>2 DEF HasSchedule
<1>4. ASSUME HasSchedule(j)' PROVE runs'[job[j].run].schedule = runs[job[j].run].schedule
  <2>1. runs[job[j].run].schedule = job[j].schedule
    BY <1>3, <1>4 DEF RowOfJob, ToMark
  <2>2. Exists(job[j].schedule)'
    BY <1>4 DEF HasSchedule
  <2> QED
    BY <1>1, <2>1, <2>2, StatementEffect DEF Types
<1> QED
  BY <1>2, <1>3, <1>4

LEMMA StartRunRowOfJob ==
  ASSUME Types, Rows, RowOfJob, NEW j \in Jobs, StartRun(j)
  PROVE  RowOfJob'
<1>0. job \in [Jobs -> Job] /\ job[j] \in Job /\ schedules' = schedules
      /\ \A s \in Schedules : Exists(s)' <=> Exists(s)
  BY DEF Types, TypeOK, StartRun, Exists
<1>1. CASE job[j].schedule = None \/ Exists(job[j].schedule)
  <2>1. PICK r \in Runs :
          /\ NewRow(r)
          /\ runs' = [runs EXCEPT ![r] = [status |-> "running", schedule |-> job[j].schedule]]
          /\ job' = [job EXCEPT ![j].pc = "backup", ![j].run = r]
    BY <1>1 DEF StartRun
  <2>2. /\ job'[j].run = r /\ job'[j].schedule = job[j].schedule /\ ~ToMark(j)'
        /\ \A k \in Jobs : k # j => job'[k] = job[k]
    BY <1>0, <2>1 DEF Job, ToMark
  <2>3. runs'[r].schedule = job[j].schedule /\ runs[r].status = "unused"
        /\ \A q \in Runs : q # r => runs'[q] = runs[q]
    BY <2>1 DEF NewRow, Types, TypeOK
  <2>4. \A k \in Jobs : Owner(k) \/ ToMark(k) => job[k].run \in Runs /\ job[k].run # r
    <3> SUFFICES ASSUME NEW k \in Jobs, Owner(k) \/ ToMark(k)
                 PROVE  job[k].run \in Runs /\ job[k].run # r
      OBVIOUS
    <3>1. CASE Owner(k)
      BY <2>3, <3>1, OwnerRun DEF Rows, OwnRow
    <3>2. CASE ToMark(k)
      <4>1. runs[job[k].run].status = job[k].status /\ job[k].run # None
        BY <3>2 DEF RowOfJob, ToMark
      <4>2. job[k].run \in Runs \cup {None} /\ job[k].status \in {"success", "failed"}
        BY <3>2 DEF Types, TypeOK, Placed, Job, ToMark
      <4> QED
        BY <2>3, <4>1, <4>2
    <3> QED
      BY <3>1, <3>2
  <2>5. ASSUME NEW k \in Jobs, k # j
        PROVE  /\ Owner(k)' <=> Owner(k)
               /\ ToMark(k)' <=> ToMark(k)
               /\ HasSchedule(k)' <=> HasSchedule(k)
    BY <1>0, <2>2, <2>5 DEF Owner, ToMark, HasSchedule, Exists
  <2>6. ASSUME NEW k \in Jobs
        PROVE  /\ Owner(k)' /\ HasSchedule(k)' =>
                      runs'[job'[k].run].schedule = job'[k].schedule
               /\ ToMark(k)' =>
                    /\ job'[k].run # None
                    /\ runs'[job'[k].run].status = job'[k].status
                    /\ HasSchedule(k)' => runs'[job'[k].run].schedule = job'[k].schedule
    <3>1. CASE k = j
      BY <2>2, <2>3, <3>1
    <3>2. CASE k # j
      BY <2>2, <2>3, <2>4, <2>5, <3>2 DEF RowOfJob, ToMark
    <3> QED
      BY <3>1, <3>2
  <2> QED
    BY <2>6 DEF RowOfJob, ToMark
<1>2. CASE ~(job[j].schedule = None \/ Exists(job[j].schedule))
  <2>1. runs' = runs /\ job' = [job EXCEPT ![j] = NoJob]
    BY <1>2 DEF StartRun
  <2>2. ~Owner(j)' /\ ~ToMark(j)' /\ \A k \in Jobs : k # j => job'[k] = job[k]
    BY <1>0, <2>1, NoJobIs DEF Owner, ToMark
  <2> QED
    BY <1>0, <2>1, <2>2, RowOfJobKept DEF Owner
<1> QED
  BY <1>1, <1>2

LEMMA FinishRunRowOfJob ==
  ASSUME Types, Rows, RowOfJob, NEW j \in Jobs, FinishRun(j)
  PROVE  RowOfJob'
<1>0. /\ job \in [Jobs -> Job] /\ job[j] \in Job /\ Owner(j) /\ job[j].run \in Runs
      /\ schedules' = schedules /\ \A s \in Schedules : Exists(s)' <=> Exists(s)
  BY OwnerRun DEF Types, TypeOK, FinishRun, Exists, Owner
<1>1. /\ ~Owner(j)' /\ \A k \in Jobs : k # j => job'[k] = job[k]
      /\ ToMark(j)' => job'[j] = [job[j] EXCEPT !.pc = "mark"] /\ ~job[j].expired
  <2>1. job' = [job EXCEPT ![j] = IF job[j].schedule = None THEN NoJob
                                  ELSE [job[j] EXCEPT !.pc = "mark"]]
    BY <1>0 DEF FinishRun
  <2>2. CASE job[j].schedule = None
    BY <1>0, <2>1, <2>2, NoJobIs DEF Owner, ToMark
  <2>3. CASE job[j].schedule # None
    BY <1>0, <2>1, <2>3 DEF Owner, ToMark, Job
  <2> QED
    BY <2>2, <2>3
<1>2. CASE job[j].expired
  <2>1. runs' = runs /\ ~ToMark(j)'
    BY <1>1, <1>2 DEF FinishRun, Finished
  <2> QED
    BY <1>0, <1>1, <2>1, RowOfJobKept DEF Owner
<1>3. CASE ~job[j].expired
  <2>1. runs' = [runs EXCEPT ![job[j].run].status = job[j].status]
    BY <1>3 DEF FinishRun, Finished
  <2>2. /\ runs'[job[j].run].status = job[j].status
        /\ \A q \in Runs : /\ runs'[q].schedule = runs[q].schedule
                           /\ q # job[j].run => runs'[q] = runs[q]
    BY <1>0, <2>1 DEF Types, TypeOK, Run
  <2>3. ASSUME NEW k \in Jobs, ToMark(k) PROVE job[k].run \in Runs /\ job[k].run # job[j].run
    <3>1. runs[job[k].run].status = job[k].status /\ job[k].run # None
      BY <2>3 DEF RowOfJob, ToMark
    <3>2. job[k].run \in Runs \cup {None} /\ job[k].status \in {"success", "failed"}
      BY <2>3 DEF Types, TypeOK, Placed, Job, ToMark
    <3>3. runs[job[j].run].status = "running"
      BY <1>0 DEF Rows, OwnRow
    <3> QED
      BY <3>1, <3>2, <3>3
  <2>4. ASSUME NEW k \in Jobs
        PROVE  /\ Owner(k)' /\ HasSchedule(k)' =>
                      runs'[job'[k].run].schedule = job'[k].schedule
               /\ ToMark(k)' =>
                    /\ job'[k].run # None
                    /\ runs'[job'[k].run].status = job'[k].status
                    /\ HasSchedule(k)' => runs'[job'[k].run].schedule = job'[k].schedule
    <3>1. CASE k = j
      <4> SUFFICES ASSUME ToMark(j)'
                   PROVE  /\ job'[j].run # None
                          /\ runs'[job'[j].run].status = job'[j].status
                          /\ HasSchedule(j)' => runs'[job'[j].run].schedule = job'[j].schedule
        BY <1>1, <3>1
      <4>1. job'[j].run = job[j].run /\ job'[j].status = job[j].status
            /\ job'[j].schedule = job[j].schedule
        BY <1>0, <1>1 DEF Job
      <4>2. HasSchedule(j)' => HasSchedule(j)
        BY <1>0, <4>1 DEF HasSchedule, Exists
      <4>3. HasSchedule(j)' => runs[job[j].run].schedule = job[j].schedule
        BY <1>0, <4>2 DEF RowOfJob
      <4> QED
        BY <1>0, <2>2, <4>1, <4>3, NoneOutside
    <3>2. CASE k # j
      <4>1. job'[k] = job[k] /\ (HasSchedule(k)' <=> HasSchedule(k))
        BY <1>0, <1>1, <3>2 DEF HasSchedule, Exists
      <4>2. (Owner(k)' <=> Owner(k)) /\ (ToMark(k)' <=> ToMark(k))
        BY <4>1 DEF Owner, ToMark
      <4>3. Owner(k) => job[k].run \in Runs
        BY OwnerRun
      <4> QED
        BY <2>2, <2>3, <4>1, <4>2, <4>3 DEF RowOfJob, ToMark
    <3> QED
      BY <3>1, <3>2
  <2> QED
    BY <2>4 DEF RowOfJob, ToMark
<1> QED
  BY <1>2, <1>3

LEMMA RowOfJobNext ==
  ASSUME Types, Manager, WorksCreated, Rows, RowOfJob, Next
  PROVE  RowOfJob'
<1>1. CASE \/ \E h \in Handlers : WebChange(h) \/ CreateCancelled(h)
           \/ CliChange
  BY <1>1, ChangeEffect, StatementRowOfJob
<1>2. CASE \E h \in Handlers : Reload(h)
  BY <1>2, ReloadEffect, RowOfJobKept DEF Exists, Owner, ToMark
<1>3. CASE \E j \in Jobs :
             \/ ManualBackup(j)
             \/ \E e \in EntryIds : Fire(j, e)
             \/ \E s \in Schedules : RunNow(j, s)
  <2>1. \A k \in Jobs : Owner(k)' \/ ToMark(k)' => job'[k] = job[k]
    BY <1>3, StartJobs DEF Owner, ToMark
  <2> QED
    BY <1>3, <2>1, StartEffect, RowOfJobKept DEF Exists, Owner
<1>4. ASSUME NEW j \in Jobs, Work(j) \/ Expire(j) PROVE RowOfJob'
  <2>0. /\ job[j] \in Job /\ job \in [Jobs -> Job]
        /\ \A s \in Schedules : Exists(s)' <=> Exists(s)
        /\ \A k \in Jobs : k # j => job'[k] = job[k]
    BY <1>4, WorkSchedules, WorkJob DEF Types, TypeOK, Exists
  <2>1. ASSUME ~Owner(j)', ~ToMark(j)', runs' = runs PROVE RowOfJob'
    BY <2>0, <2>1, RowOfJobKept DEF Owner, ToMark
  <2>2. CASE GetSchedule(j)
    <3>1. job'[j].pc \in {"start", "free"}
      BY <2>0, <2>2, NoJobIs DEF GetSchedule, Job
    <3> QED
      BY <2>1, <2>2, <3>1 DEF GetSchedule, db, Owner, ToMark
  <2>3. CASE MarkScheduleRun(j)
    BY <2>0, <2>1, <2>3, NoJobIs DEF MarkScheduleRun, Owner, ToMark
  <2>4. CASE Backup(j)
    <3>1. PICK status \in {"success", "failed"} :
            job' = [job EXCEPT ![j].pc = "finish", ![j].status = status]
      BY <2>4 DEF Backup
    <3>2. Owner(j) /\ ~ToMark(j)' /\ job'[j].run = job[j].run /\ job'[j].schedule = job[j].schedule
      BY <2>0, <2>4, <3>1 DEF Backup, Owner, ToMark, Job
    <3> QED
      BY <2>0, <2>4, <3>2, RowOfJobKept DEF Backup, db, Owner, ToMark
  <2>5. CASE Expire(j)
    <3>1. (Owner(j)' <=> Owner(j)) /\ ~ToMark(j)' /\ job'[j].run = job[j].run
          /\ job'[j].schedule = job[j].schedule
      BY <2>0, <2>5 DEF Expire, Owner, ToMark, Job
    <3> QED
      BY <2>0, <2>5, <3>1, RowOfJobKept DEF Expire, db, Owner, ToMark
  <2> QED
    BY <1>4, <2>2, <2>3, <2>4, <2>5, StartRunRowOfJob, FinishRunRowOfJob DEF Work, Query
<1>5. CASE Boot \/ Shutdown \/ StopCron
  BY <1>5, RowOfJobKept DEF Boot, Shutdown, StopCron, db, Exists, Owner, ToMark
<1>6. CASE Exit \/ Crash
  BY <1>6, DieEffect, NoJobIs, RowOfJobKept DEF Exists, Owner, ToMark
<1> QED
  BY NextCases, <1>1, <1>2, <1>3, <1>4, <1>5, <1>6

-----------------------------------------------------------------------------
LEMMA LastKept ==
  ASSUME Types, LastStatusIsOfARun,
         \A s \in Schedules : (Exists(s)' => Exists(s)) /\ schedules'[s].last = schedules[s].last,
         \A r \in Runs : History(r) /\ runs'[r].schedule = runs[r].schedule
  PROVE  LastStatusIsOfARun'
<1> SUFFICES ASSUME NEW s \in Schedules, Exists(s)', schedules'[s].last # ""
             PROVE  \E r \in Runs : runs'[r].schedule = s /\ runs'[r].status = schedules'[s].last
  BY DEF LastStatusIsOfARun
<1>1. schedules[s].last \in {"success", "failed"}
  BY DEF Types, TypeOK, Schedule
<1>2. Exists(s) /\ schedules'[s].last = schedules[s].last
  OBVIOUS
<1>3. PICK r \in Runs : runs[r].schedule = s /\ runs[r].status = schedules[s].last
  BY <1>1, <1>2 DEF LastStatusIsOfARun
<1>4. runs'[r].schedule = s /\ runs'[r].status = runs[r].status
  BY <1>1, <1>3 DEF History
<1> QED
  BY <1>2, <1>3, <1>4

LEMMA StatementLast ==
  ASSUME Types, WorksCreated, LastStatusIsOfARun, NEW s \in Schedules, Statement(s)
  PROVE  LastStatusIsOfARun'
<1> SUFFICES ASSUME NEW t \in Schedules, Exists(t)', schedules'[t].last # ""
             PROVE  \E r \in Runs : runs'[r].schedule = t /\ runs'[r].status = schedules'[t].last
  BY DEF LastStatusIsOfARun
<1>1. schedules'[t].last = schedules[t].last
  BY StatementEffect DEF Types
<1>2. Created(t)
  BY <1>1 DEF WorksCreated
<1>3. Exists(t)
  BY <1>2, StatementEffect DEF Types, Exists
<1>4. PICK r \in Runs : runs[r].schedule = t /\ runs[r].status = schedules[t].last
  BY <1>1, <1>3 DEF LastStatusIsOfARun
<1>5. runs'[r].schedule = t /\ runs'[r].status = runs[r].status
  BY <1>4, StatementEffect DEF Types
<1> QED
  BY <1>1, <1>4, <1>5

LEMMA MarkLast ==
  ASSUME Types, RowOfJob, LastStatusIsOfARun, NEW j \in Jobs, MarkScheduleRun(j)
  PROVE  LastStatusIsOfARun'
<1> DEFINE s == job[j].schedule
<1>0. runs' = runs /\ job[j] \in Job /\ s # None /\ job[j].pc = "mark"
  BY DEF MarkScheduleRun, Types, TypeOK, Placed
<1>1. CASE Marks(j)
  <2>1. schedules' = [schedules EXCEPT ![s].last = job[j].status]
    BY <1>1 DEF MarkScheduleRun
  <2>2. s \in Schedules /\ HasSchedule(j) /\ ~job[j].expired /\ job[j].run \in Runs
    BY <1>0, <1>1 DEF Marks, HasSchedule, Job, RowOfJob, ToMark
  <2>3. runs[job[j].run].status = job[j].status /\ runs[job[j].run].schedule = s
    BY <1>0, <2>2 DEF RowOfJob, ToMark
  <2>4. /\ schedules'[s].last = job[j].status
        /\ \A t \in Schedules : t # s => schedules'[t] = schedules[t]
    BY <2>1, <2>2 DEF Types, TypeOK, Schedule
  <2> HIDE DEF s
  <2> SUFFICES ASSUME NEW t \in Schedules, Exists(t)', schedules'[t].last # ""
               PROVE  \E r \in Runs : runs'[r].schedule = t /\ runs'[r].status = schedules'[t].last
    BY DEF LastStatusIsOfARun
  <2>5. CASE t = s
    BY <1>0, <2>2, <2>3, <2>4, <2>5
  <2>6. CASE t # s
    <3>1. Exists(t) /\ schedules[t].last # ""
      BY <2>4, <2>6 DEF Exists
    <3>2. PICK r \in Runs : runs[r].schedule = t /\ runs[r].status = schedules[t].last
      BY <3>1 DEF LastStatusIsOfARun
    <3> QED
      BY <1>0, <2>4, <2>6, <3>2
  <2> QED
    BY <2>5, <2>6
<1>2. CASE ~Marks(j)
  BY <1>0, <1>2 DEF MarkScheduleRun, LastStatusIsOfARun, Exists
<1> QED
  BY <1>1, <1>2

LEMMA LastNext ==
  ASSUME Types, Manager, WorksCreated, Rows, RowOfJob, LastStatusIsOfARun, Next
  PROVE  LastStatusIsOfARun'
<1>0. \A r \in Runs : History(r)
  BY RowsNext
<1>1. CASE \/ \E h \in Handlers : WebChange(h) \/ CreateCancelled(h)
           \/ CliChange
  BY <1>1, ChangeEffect, StatementLast
<1>2. CASE \E h \in Handlers : Reload(h)
  BY <1>0, <1>2, ReloadEffect, LastKept DEF Exists
<1>3. CASE \E j \in Jobs :
             \/ ManualBackup(j)
             \/ \E e \in EntryIds : Fire(j, e)
             \/ \E s \in Schedules : RunNow(j, s)
  BY <1>0, <1>3, StartEffect, LastKept DEF Exists
<1>4. ASSUME NEW j \in Jobs, Work(j) \/ Expire(j) PROVE LastStatusIsOfARun'
  <2>1. CASE MarkScheduleRun(j)
    BY <2>1, MarkLast
  <2>2. CASE StartRun(j)
    <3>1. schedules' = schedules /\ runs \in [Runs -> Run]
      BY <2>2 DEF StartRun, Types, TypeOK
    <3>2. \A r \in Runs : runs[r].status # "unused" => runs'[r] = runs[r]
      BY <2>2, <3>1 DEF StartRun, NewRow
    <3> SUFFICES ASSUME NEW s \in Schedules, Exists(s)', schedules'[s].last # ""
                 PROVE  \E r \in Runs :
                           runs'[r].schedule = s /\ runs'[r].status = schedules'[s].last
      BY DEF LastStatusIsOfARun
    <3>3. Exists(s) /\ schedules[s].last \in {"success", "failed"}
      BY <3>1 DEF Exists, Types, TypeOK, Schedule
    <3>4. PICK r \in Runs : runs[r].schedule = s /\ runs[r].status = schedules[s].last
      BY <3>3 DEF LastStatusIsOfARun
    <3> QED
      BY <3>1, <3>2, <3>3, <3>4
  <2>3. CASE FinishRun(j)
    <3>1. schedules' = schedules /\ \A r \in Runs : runs'[r].schedule = runs[r].schedule
      BY <2>3 DEF FinishRun, Finished, Types, TypeOK, Run
    <3> QED
      BY <1>0, <3>1, LastKept DEF Exists
  <2>4. CASE GetSchedule(j) \/ Backup(j) \/ Expire(j)
    <3>1. schedules' = schedules /\ runs' = runs
      BY <2>4 DEF GetSchedule, Backup, Expire, db
    <3> QED
      BY <1>0, <3>1, LastKept DEF Exists
  <2> QED
    BY <1>4, <2>1, <2>2, <2>3, <2>4 DEF Work, Query
<1>5. CASE Boot \/ Shutdown \/ StopCron
  BY <1>0, <1>5, LastKept DEF Boot, Shutdown, StopCron, db, Exists
<1>6. CASE Exit \/ Crash
  BY <1>0, <1>6, DieEffect, LastKept DEF Exists
<1> QED
  BY NextCases, <1>1, <1>2, <1>3, <1>4, <1>5, <1>6

(* The last status a schedule shows is that of a run of it which says so.  *)
THEOREM SchedulerLastStatusIsOfARun == Spec => []LastStatusIsOfARun
<1> DEFINE Inv == /\ ReloadsCreated /\ WorksCreated /\ Rows /\ RowOfJob
                  /\ LastStatusIsOfARun
<1>1. Init => Inv
  <2> SUFFICES ASSUME Init PROVE Inv
    OBVIOUS
  <2>1. ReloadsCreated /\ WorksCreated
    BY NoneOutside, NoJobIs
       DEF Init, ReloadsCreated, WorksCreated, Scheduled, NoCron
  <2>2. RowOfJob
    BY NoJobIs DEF Init, RowOfJob, Owner, ToMark
  <2>3. LastStatusIsOfARun
    BY DEF Init, LastStatusIsOfARun
  <2> QED
    BY <2>1, <2>2, <2>3, RowsInit
<1>2. Types /\ Manager /\ Inv /\ [Next]_vars => Inv'
  <2> SUFFICES ASSUME Types, Manager, Inv, [Next]_vars PROVE Inv'
    OBVIOUS
  <2>1. CASE Next
    BY <2>1, ReloadsCreatedNext, WorksCreatedNext, RowsNext, RowOfJobNext, LastNext
  <2>2. CASE UNCHANGED vars
    <3>1. Rows' /\ \A r \in Runs : History(r)
      BY <2>2, RowsKept DEF vars, Owner
    <3>2. RowOfJob' /\ LastStatusIsOfARun'
      BY <2>2, <3>1, RowOfJobKept, LastKept DEF vars, Exists, Owner, ToMark
    <3>3. ReloadsCreated' /\ WorksCreated'
      BY <2>2 DEF vars, ReloadsCreated, WorksCreated, Scheduled, Created
    <3> QED
      BY <3>1, <3>2, <3>3
  <2> QED
    BY <2>1, <2>2
<1> QED
  BY <1>1, <1>2, SchedulerInvariant, PTL DEF Spec

=============================================================================
