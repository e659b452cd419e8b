---------------------------- MODULE AistorStaging ----------------------------
(***************************************************************************)
(* The scripts that back up and restore a bucket inside the aistor         *)
(* container (internal/services/aistor).  Backups of every app stage their *)
(* objects in /tmp/aistor-bk, restores in /tmp/aistor-rs:                  *)
(*                                                                         *)
(*   set -e; rm -rf DIR && mkdir && mirror && tar; rc=$?; rm -rf; exit $rc *)
(*                                                                         *)
(* A script outlives the docker client that started it, so a backup or a   *)
(* restore that timed out or was killed goes on next to its retry.  Every  *)
(* object copied, archived or removed is a step.                           *)
(***************************************************************************)
EXTENDS FiniteSets

CONSTANTS
  Apps,     \* apps with a bucket
  Objects,  \* objects: an object with other contents is another one
  Slots     \* scripts that may run together

ASSUME AppsAssumption == Apps # {}

VARIABLES
  bucket,  \* app -> its objects
  dir,     \* kind of script -> its directory under /tmp
  script,  \* slot -> the script it runs
  strewn   \* history: kinds whose last script left its directory behind

vars == <<bucket, dir, script, strewn>>

Kinds == {"backup", "restore"}
(* The objects of each app in a directory.                                 *)
Place == Apps \X Objects
Directory == [made : BOOLEAN, held : SUBSET Place]
Missing == [made |-> FALSE, held |-> {}]
Staged(kind, a) == {o \in Objects : <<a, o>> \in dir[kind].held}

Script ==
  [pc      : {"idle", "rm", "mkdir", "mirror", "tar", "extract", "push", "clean", "done"},
   kind    : Kinds,
   app     : Apps,
   archive : SUBSET Objects,    \* the archive read, or written so far
   todo    : SUBSET Objects,    \* objects left for the command at hand
   doomed  : SUBSET Place,      \* what is left for rm to remove
   rc      : {0, 1},            \* exit status so far
   inside  : BOOLEAN,           \* the directory tar is in has not been removed
   watched : BOOLEAN,           \* the docker client still waits for it
   calm    : BOOLEAN]           \* history: no other script of its kind, no other
                                \* write to the bucket since it began

Idle ==
  [pc |-> "idle", kind |-> "backup", app |-> CHOOSE a \in Apps : TRUE, archive |-> {},
   todo |-> {}, doomed |-> {}, rc |-> 0, inside |-> TRUE, watched |-> TRUE, calm |-> TRUE]

Running(kind) == {x \in Slots : script[x].pc \notin {"idle", "done"} /\ script[x].kind = kind}

Init ==
  /\ bucket \in [Apps -> SUBSET Objects]
  /\ dir = [kind \in Kinds |-> Missing]
  /\ script = [x \in Slots |-> Idle]
  /\ strewn = {}

Goto(x, s) == script' = [script EXCEPT ![x] = s]

(* Someone else wrote to the bucket of an app.                             *)
Disturbed(a, but) ==
  [y \in Slots |-> IF y \notin but /\ script[y].pc # "idle" /\ script[y].app = a
                   THEN [script[y] EXCEPT !.calm = FALSE] ELSE script[y]]

-----------------------------------------------------------------------------
(***************************************************************************)
(* Backup and Restore start a script; rm -rf lists what it finds.  The     *)
(* archive to restore is of some earlier state of the bucket.              *)
(***************************************************************************)
StartMkdir(s) == [s EXCEPT !.pc = "mkdir"]              \* mutant: no rm at the start
StartRm(s) == [s EXCEPT !.pc = "rm", !.doomed = dir[s.kind].held]

Begin(x) ==
  \E kind \in Kinds, a \in Apps, archive \in SUBSET Objects :
    /\ script[x].pc = "idle"
    /\ kind = "backup" => archive = {}
    /\ script' = [y \in Slots |->
         IF y = x THEN StartRm([Idle EXCEPT !.kind = kind, !.app = a, !.archive = archive,
                                            !.calm = Running(kind) = {}])
         ELSE IF y \in Running(kind) THEN [script[y] EXCEPT !.calm = FALSE]
         ELSE script[y]]
    /\ UNCHANGED <<bucket, dir, strewn>>

(* The app puts or deletes an object.                                      *)
AppWrites ==
  \E a \in Apps, o \in Objects :
    /\ bucket' = [bucket EXCEPT ![a] = IF o \in @ THEN @ \ {o} ELSE @ \cup {o}]
    /\ script' = Disturbed(a, {})
    /\ UNCHANGED <<dir, strewn>>

(***************************************************************************)
(* rm -rf, first and last: object by object, then the directory, which     *)
(* must be empty by then.                                                  *)
(***************************************************************************)
Removing(x) == script[x].pc \in {"rm", "clean"}

RmObject(x) ==
  /\ Removing(x)
  /\ \E p \in script[x].doomed :
       /\ dir' = [dir EXCEPT ![script[x].kind].held = @ \ {p}]
       /\ Goto(x, [script[x] EXCEPT !.doomed = @ \ {p}])
  /\ UNCHANGED <<bucket, strewn>>

(* A tar at work in a directory that is removed finds nothing any more.    *)
Expelled(kind, x) ==
  [y \in Slots |->
     IF y # x /\ script[y].kind = kind /\ script[y].pc \in {"tar", "extract"}
     THEN [script[y] EXCEPT !.inside = FALSE] ELSE script[y]]

RemoveDir(x) ==
  LET s == script[x]
  IN  /\ Removing(x) /\ s.doomed = {} /\ dir[s.kind].held = {}
      /\ dir' = [dir EXCEPT ![s.kind] = Missing]
      /\ strewn' = strewn \ {s.kind}
      /\ script' = [Expelled(s.kind, x) EXCEPT ![x] =
           IF s.pc = "rm" THEN [s EXCEPT !.pc = "mkdir"]
           ELSE IF s.rc = 0 /\ s.watched THEN [s EXCEPT !.pc = "done"]
           ELSE Idle]
      /\ UNCHANGED <<bucket>>

(***************************************************************************)
(* set -e ends the script when the last rm fails, or the last command of   *)
(* the list; the failure of another leads to the last rm.                  *)
(***************************************************************************)
CleanUp(s, status) == [s EXCEPT !.pc = "clean", !.rc = status, !.todo = {},
                                     !.doomed = dir[s.kind].held]

(* The script ends without its last rm.                                    *)
Abandons(x) ==
  /\ Goto(x, Idle)
  /\ strewn' = strewn \cup {script[x].kind}
  /\ UNCHANGED <<bucket, dir>>

ExitsAtOnce(x) == Goto(x, Idle) /\ UNCHANGED <<bucket, dir, strewn>>   \* mutant: ; for &&
FailsEarly(x) ==
  /\ Goto(x, CleanUp(script[x], 1))
  /\ UNCHANGED <<bucket, dir, strewn>>

(* Somebody put an object into the directory after rm had listed it.       *)
RmFails(x) ==
  /\ Removing(x) /\ script[x].doomed = {} /\ dir[script[x].kind].held # {}
  /\ IF script[x].pc = "rm" THEN FailsEarly(x) ELSE Abandons(x)

FirstOf(kind) == IF kind = "backup" THEN "mirror" ELSE "extract"

Mkdir(x) ==
  LET s == script[x]
  IN  /\ s.pc = "mkdir"
      /\ dir' = [dir EXCEPT ![s.kind].made = TRUE]
      /\ Goto(x, [s EXCEPT !.pc = FirstOf(s.kind), !.inside = TRUE,
                           !.todo = IF s.kind = "backup" THEN Objects
                                    ELSE s.archive])
      /\ UNCHANGED <<bucket, strewn>>

(* A copy makes the directories it needs.                                  *)
Keep(kind, a, o) == dir' = [dir EXCEPT ![kind] = [made |-> TRUE, held |-> @.held \cup {<<a, o>>}]]

(***************************************************************************)
(* Backup: mc mirror of the bucket, without --remove, then tar of what the *)
(* app's directory lists, straight into the file.                          *)
(***************************************************************************)
Mirror(x) ==
  LET s == script[x]
  IN  /\ s.pc = "mirror"
      /\ \E o \in s.todo :
           /\ IF o \in bucket[s.app] THEN Keep("backup", s.app, o) ELSE UNCHANGED dir
           /\ Goto(x, [s EXCEPT !.todo = @ \ {o}])
      /\ UNCHANGED <<bucket, strewn>>

StartTar(x) ==
  LET s == script[x]
  IN  /\ s.pc = "mirror" /\ s.todo = {} /\ dir["backup"].made
      /\ Goto(x, [s EXCEPT !.pc = "tar", !.inside = TRUE,
                           !.todo = Staged("backup", s.app)])
      /\ UNCHANGED <<bucket, dir, strewn>>

Tar(x) ==
  LET s == script[x]
  IN  /\ s.pc = "tar" /\ s.inside
      /\ \E o \in s.todo \cap Staged("backup", s.app) :
           Goto(x, [s EXCEPT !.archive = @ \cup {o}, !.todo = @ \ {o}])
      /\ UNCHANGED <<bucket, dir, strewn>>

(***************************************************************************)
(* Restore: tar extracts the archive from standard input, mb makes the     *)
(* bucket, mirror --overwrite --remove takes over what the app's directory *)
(* holds when it comes to it.                                              *)
(***************************************************************************)
Extract(x) ==
  LET s == script[x]
  IN  /\ s.pc = "extract" /\ s.inside
      /\ \E o \in s.todo :
           /\ Keep("restore", s.app, o)
           /\ Goto(x, [s EXCEPT !.todo = @ \ {o}])
      /\ UNCHANGED <<bucket, strewn>>

StartPush(x) ==
  LET s == script[x]
  IN  /\ s.pc = "extract" /\ s.todo = {}
      /\ Goto(x, [s EXCEPT !.pc = "push", !.todo = Objects])
      /\ UNCHANGED <<bucket, dir, strewn>>

WithoutRemove(old, staged, o) == old \cup (staged \cap {o})    \* mutant
Pushed(old, staged, o) == (old \ {o}) \cup (staged \cap {o})

Push(x) ==
  LET s == script[x]
  IN  /\ s.pc = "push" /\ dir["restore"].made
      /\ \E o \in s.todo :
           /\ bucket' = [bucket EXCEPT ![s.app] = Pushed(@, Staged("restore", s.app), o)]
           /\ script' = [Disturbed(s.app, {x}) EXCEPT ![x] = [s EXCEPT !.todo = @ \ {o}]]
      /\ UNCHANGED <<dir, strewn>>

-----------------------------------------------------------------------------
(* The list has succeeded.                                                 *)
ListDone(x) ==
  /\ script[x].pc \in {"tar", "push"} /\ script[x].todo = {}
  /\ Goto(x, CleanUp(script[x], 0))
  /\ UNCHANGED <<bucket, dir, strewn>>

(* A command of the list fails: mc, tar, mkdir, a full disk.               *)
LastCommand(s) == s.pc = IF s.kind = "backup" THEN "tar" ELSE "push"

CommandFails(x) ==
  /\ script[x].pc \in {"mkdir", "mirror", "tar", "extract", "push"}
  /\ IF LastCommand(script[x]) THEN Abandons(x) ELSE FailsEarly(x)

(* The docker client is killed, at the deadline or with its process.       *)
ClientKilled(x) ==
  /\ x \in Running("backup") \cup Running("restore") /\ script[x].watched
  /\ Goto(x, [script[x] EXCEPT !.watched = FALSE, !.calm = FALSE])
  /\ UNCHANGED <<bucket, dir, strewn>>

(* Backup or Restore returns.                                              *)
Return(x) ==
  /\ script[x].pc = "done"
  /\ Goto(x, Idle)
  /\ UNCHANGED <<bucket, dir, strewn>>

Next ==
  \/ AppWrites
  \/ \E x \in Slots :
       \/ Begin(x) \/ RmObject(x) \/ RemoveDir(x) \/ RmFails(x) \/ Mkdir(x)
       \/ Mirror(x) \/ StartTar(x) \/ Tar(x) \/ Extract(x) \/ StartPush(x) \/ Push(x)
       \/ ListDone(x) \/ CommandFails(x) \/ ClientKilled(x) \/ Return(x)

Spec == Init /\ [][Next]_vars

-----------------------------------------------------------------------------
(* Types; the directory is never full without being there.                 *)
TypeOK ==
  /\ bucket \in [Apps -> SUBSET Objects]
  /\ dir \in [Kinds -> Directory]
  /\ script \in [Slots -> Script]
  /\ strewn \subseteq Kinds
  /\ \A kind \in Kinds : dir[kind].held # {} => dir[kind].made

(***************************************************************************)
(* A backup that reports success holds the bucket as it is, if the bucket  *)
(* did not change and no other backup, of whichever app, ran meanwhile:    *)
(* whatever earlier scripts that failed or were killed had left under      *)
(* /tmp, the archive has no object too many and none too few.              *)
(***************************************************************************)
BackupComplete ==
  \A x \in Slots : LET s == script[x] IN
    s.pc = "done" /\ s.kind = "backup" /\ s.calm => s.archive = bucket[s.app]

(***************************************************************************)
(* "mirrors the contents back with --remove so the bucket reflects the     *)
(* snapshot exactly" (aistor.go): true of a restore that reports success   *)
(* with no other restore, of whichever app, under way.                     *)
(***************************************************************************)
RestoreExact ==
  \A x \in Slots : LET s == script[x] IN
    s.pc = "done" /\ s.kind = "restore" /\ s.calm => bucket[s.app] = s.archive

(***************************************************************************)
(* "The /tmp directory is always cleaned up, even on failure" (aistor.go): *)
(* when no script of the kind runs its directory is gone, unless the last  *)
(* command of a list failed, at which set -e ends the script, or the last  *)
(* rm did.                                                                 *)
(***************************************************************************)
CleanedUp ==
  \A kind \in Kinds : Running(kind) = {} /\ kind \notin strewn => dir[kind] = Missing

=============================================================================
