------------------------- MODULE AistorStagingProofs -------------------------
(***************************************************************************)
(* For any apps, objects and number of scripts: the types, and what the    *)
(* scripts promise when they report success.                               *)
(***************************************************************************)
EXTENDS AistorStaging, TLAPS

Pcs == {"idle", "rm", "mkdir", "mirror", "tar", "extract", "push", "clean", "done"}

(* The steps of one script.                                                *)
Step(x) ==
  \/ Begin(x) \/ RmObject(x) \/ RemoveDir(x) \/ RmFails(x) \/ Mkdir(x)
  \/ Mirror(x) \/ StartTar(x) \/ Tar(x) \/ Extract(x) \/ StartPush(x) \/ Push(x)
  \/ ListDone(x) \/ CommandFails(x) \/ ClientKilled(x) \/ Return(x)

LEMMA IdleType == Idle \in Script
<1>1. (CHOOSE a \in Apps : TRUE) \in Apps
  BY AppsAssumption
<1> QED
  BY <1>1 DEF Idle, Script, Kinds

LEMMA GotoType ==
  ASSUME TypeOK, NEW x \in Slots, NEW s \in Script, Goto(x, s), UNCHANGED <<bucket, dir>>,
         strewn' \subseteq Kinds
  PROVE  TypeOK'
BY DEF TypeOK, Goto

LEMMA FlagsType ==
  ASSUME NEW s \in Script
  PROVE  /\ [s EXCEPT !.calm = FALSE] \in Script /\ [s EXCEPT !.inside = FALSE] \in Script
         /\ [s EXCEPT !.watched = FALSE, !.calm = FALSE] \in Script
BY DEF Script

LEMMA DisturbedType ==
  ASSUME TypeOK, NEW a \in Apps, NEW but
  PROVE  Disturbed(a, but) \in [Slots -> Script]
<1>1. ASSUME NEW y \in Slots PROVE [script[y] EXCEPT !.calm = FALSE] \in Script
  BY FlagsType DEF TypeOK
<1> QED
  BY <1>1 DEF Disturbed, TypeOK

LEMMA ExpelledType ==
  ASSUME TypeOK, NEW kind \in Kinds, NEW x \in Slots
  PROVE  Expelled(kind, x) \in [Slots -> Script]
<1>1. ASSUME NEW y \in Slots PROVE [script[y] EXCEPT !.inside = FALSE] \in Script
  BY FlagsType DEF TypeOK
<1> QED
  BY <1>1 DEF Expelled, TypeOK

LEMMA CleanUpType ==
  ASSUME TypeOK, NEW s \in Script, NEW status \in {0, 1}
  PROVE  CleanUp(s, status) \in Script
BY DEF TypeOK, CleanUp, Script, Directory

LEMMA KeepType ==
  ASSUME TypeOK, NEW kind \in Kinds, NEW a \in Apps, NEW o \in Objects, Keep(kind, a, o)
  PROVE  dir' \in [Kinds -> Directory] /\ \A k \in Kinds : dir'[k].held # {} => dir'[k].made
<1>1. <<a, o>> \in Place
  BY DEF Place
<1> DEFINE new == [made |-> TRUE, held |-> dir[kind].held \cup {<<a, o>>}]
<1>2. new \in Directory
  BY <1>1 DEF TypeOK, Directory
<1>3. dir' = [dir EXCEPT ![kind] = new]
  BY DEF Keep
<1>4. new.made
  OBVIOUS
<1> HIDE DEF new
<1> QED
  BY <1>2, <1>3, <1>4 DEF TypeOK

LEMMA BeginType == ASSUME TypeOK, NEW x \in Slots, Begin(x) PROVE TypeOK'
<1>1. PICK kind \in Kinds, a \in Apps, archive \in SUBSET Objects :
        /\ script' = [y \in Slots |->
             IF y = x THEN StartRm([Idle EXCEPT !.kind = kind, !.app = a, !.archive = archive,
                                                !.calm = Running(kind) = {}])
             ELSE IF y \in Running(kind) THEN [script[y] EXCEPT !.calm = FALSE]
             ELSE script[y]]
        /\ UNCHANGED <<bucket, dir, strewn>>
  BY DEF Begin
<1>2. [Idle EXCEPT !.kind = kind, !.app = a, !.archive = archive,
                   !.calm = Running(kind) = {}] \in Script
  BY IdleType DEF Script
<1>3. ASSUME NEW s \in Script PROVE StartRm(s) \in Script
  BY <1>3 DEF StartRm, Script, TypeOK, Directory
<1>4. script' \in [Slots -> Script]
  BY <1>1, <1>2, <1>3, FlagsType DEF TypeOK
<1> QED
  BY <1>1, <1>4 DEF TypeOK

LEMMA AppWritesType == ASSUME TypeOK, AppWrites PROVE TypeOK'
<1>1. PICK a \in Apps, o \in Objects :
        /\ bucket' = [bucket EXCEPT ![a] = IF o \in @ THEN @ \ {o} ELSE @ \cup {o}]
        /\ script' = Disturbed(a, {})
        /\ UNCHANGED <<dir, strewn>>
  BY DEF AppWrites
<1>2. bucket' \in [Apps -> SUBSET Objects]
  BY <1>1 DEF TypeOK
<1> QED
  BY <1>1, <1>2, DisturbedType DEF TypeOK

LEMMA RmObjectType == ASSUME TypeOK, NEW x \in Slots, RmObject(x) PROVE TypeOK'
<1>1. PICK p \in script[x].doomed :
        /\ dir' = [dir EXCEPT ![script[x].kind].held = @ \ {p}]
        /\ Goto(x, [script[x] EXCEPT !.doomed = @ \ {p}])
  BY DEF RmObject
<1>2. script[x] \in Script /\ script[x].kind \in Kinds
  BY DEF TypeOK, Script
<1>3. [script[x] EXCEPT !.doomed = @ \ {p}] \in Script
  BY <1>2 DEF Script
<1>4. dir' \in [Kinds -> Directory] /\ \A k \in Kinds : dir'[k].held # {} => dir'[k].made
  BY <1>1, <1>2 DEF TypeOK, Directory
<1> QED
  BY <1>1, <1>3, <1>4 DEF TypeOK, RmObject, Goto

LEMMA RemoveDirType == ASSUME TypeOK, NEW x \in Slots, RemoveDir(x) PROVE TypeOK'
<1> DEFINE s == script[x]
           next == IF s.pc = "rm" THEN [s EXCEPT !.pc = "mkdir"]
                   ELSE IF s.rc = 0 /\ s.watched THEN [s EXCEPT !.pc = "done"]
                   ELSE Idle
<1>1. s \in Script /\ s.kind \in Kinds
  BY DEF TypeOK, Script
<1>2. next \in Script
  BY <1>1, IdleType DEF Script
<1>3. dir' = [dir EXCEPT ![s.kind] = Missing] /\ strewn' = strewn \ {s.kind}
      /\ script' = [Expelled(s.kind, x) EXCEPT ![x] = next] /\ bucket' = bucket
  BY DEF RemoveDir
<1>4. script' \in [Slots -> Script]
  BY <1>1, <1>2, <1>3, ExpelledType
<1>5. dir' \in [Kinds -> Directory] /\ \A k \in Kinds : dir'[k].held # {} => dir'[k].made
  BY <1>1, <1>3 DEF TypeOK, Directory, Missing
<1> QED
  BY <1>3, <1>4, <1>5 DEF TypeOK

LEMMA EndsType ==
  ASSUME TypeOK, NEW x \in Slots, Abandons(x) \/ FailsEarly(x)
  PROVE  TypeOK'
<1>1. script[x] \in Script /\ script[x].kind \in Kinds
  BY DEF TypeOK, Script
<1>2. CASE Abandons(x)
  BY <1>1, <1>2, IdleType, GotoType DEF Abandons, TypeOK
<1>3. CASE FailsEarly(x)
  BY <1>1, <1>3, CleanUpType, GotoType DEF FailsEarly, TypeOK
<1> QED
  BY <1>2, <1>3

LEMMA MkdirType == ASSUME TypeOK, NEW x \in Slots, Mkdir(x) PROVE TypeOK'
<1> DEFINE s == script[x]
           next == [s EXCEPT !.pc = FirstOf(s.kind), !.inside = TRUE,
                             !.todo = IF s.kind = "backup" THEN Objects ELSE s.archive]
<1>1. s \in Script /\ s.kind \in Kinds
  BY DEF TypeOK, Script
<1>2. next \in Script
  BY <1>1 DEF Script, FirstOf
<1>3. Goto(x, next) /\ dir' = [dir EXCEPT ![s.kind].made = TRUE] /\ UNCHANGED <<bucket, strewn>>
  BY DEF Mkdir
<1>4. dir' \in [Kinds -> Directory] /\ \A k \in Kinds : dir'[k].held # {} => dir'[k].made
  BY <1>1, <1>3 DEF TypeOK, Directory
<1> HIDE DEF next
<1> QED
  BY <1>2, <1>3, <1>4 DEF TypeOK, Goto

(* The steps that copy or archive.                                         *)
LEMMA CopyType ==
  ASSUME TypeOK, NEW x \in Slots, Mirror(x) \/ StartTar(x) \/ Tar(x) \/ Extract(x) \/ StartPush(x)
  PROVE  TypeOK'
<1> DEFINE s == script[x]
<1>1. s \in Script /\ s.kind \in Kinds /\ s.app \in Apps /\ s.todo \subseteq Objects
  BY DEF TypeOK, Script
<1>2. "backup" \in Kinds /\ "restore" \in Kinds
  BY DEF Kinds
<1>3. \A o \in Objects : [s EXCEPT !.todo = @ \ {o}] \in Script
  BY <1>1 DEF Script
<1>4. CASE Mirror(x)
  <2>1. PICK o \in s.todo :
          /\ IF o \in bucket[s.app] THEN Keep("backup", s.app, o) ELSE UNCHANGED dir
          /\ Goto(x, [s EXCEPT !.todo = @ \ {o}])
          /\ UNCHANGED <<bucket, strewn>>
    BY <1>4 DEF Mirror
  <2>2. dir' \in [Kinds -> Directory] /\ \A k \in Kinds : dir'[k].held # {} => dir'[k].made
    <3>1. CASE o \in bucket[s.app]
      BY <1>1, <1>2, <2>1, <3>1, KeepType
    <3>2. CASE o \notin bucket[s.app]
      BY <2>1, <3>2 DEF TypeOK
    <3> QED
      BY <3>1, <3>2
  <2> QED
    BY <1>1, <1>3, <2>1, <2>2 DEF TypeOK, Goto
<1>5. CASE StartTar(x)
  <2>1. [s EXCEPT !.pc = "tar", !.inside = TRUE, !.todo = Staged("backup", s.app)] \in Script
    BY <1>1 DEF Script, Staged
  <2> QED
    BY <1>5, <2>1, GotoType DEF StartTar, TypeOK
<1>6. CASE Tar(x)
  <2>1. PICK o \in s.todo \cap Staged("backup", s.app) :
          Goto(x, [s EXCEPT !.archive = @ \cup {o}, !.todo = @ \ {o}])
    BY <1>6 DEF Tar
  <2>2. [s EXCEPT !.archive = @ \cup {o}, !.todo = @ \ {o}] \in Script
    BY <1>1, <2>1 DEF Script
  <2> QED
    BY <1>6, <2>1, <2>2, GotoType DEF Tar, TypeOK
<1>7. CASE Extract(x)
  <2>1. PICK o \in s.todo :
          Keep("restore", s.app, o) /\ Goto(x, [s EXCEPT !.todo = @ \ {o}])
          /\ UNCHANGED <<bucket, strewn>>
    BY <1>7 DEF Extract
  <2>2. dir' \in [Kinds -> Directory] /\ \A k \in Kinds : dir'[k].held # {} => dir'[k].made
    BY <1>1, <1>2, <2>1, KeepType
  <2> QED
    BY <1>1, <1>3, <2>1, <2>2 DEF TypeOK, Goto
<1>8. CASE StartPush(x)
  <2>1. [s EXCEPT !.pc = "push", !.todo = Objects] \in Script
    BY <1>1 DEF Script
  <2> QED
    BY <1>8, <2>1, GotoType DEF StartPush, TypeOK
<1> QED
  BY <1>4, <1>5, <1>6, <1>7, <1>8

LEMMA PushType == ASSUME TypeOK, NEW x \in Slots, Push(x) PROVE TypeOK'
<1> DEFINE s == script[x]
<1>1. s \in Script /\ s.app \in Apps /\ s.todo \subseteq Objects
  BY DEF TypeOK, Script
<1>2. PICK o \in s.todo :
        /\ bucket' = [bucket EXCEPT ![s.app] = Pushed(@, Staged("restore", s.app), o)]
        /\ script' = [Disturbed(s.app, {x}) EXCEPT ![x] = [s EXCEPT !.todo = @ \ {o}]]
        /\ UNCHANGED <<dir, strewn>>
  BY DEF Push
<1>3. [s EXCEPT !.todo = @ \ {o}] \in Script
  BY <1>1 DEF Script
<1>4. bucket' \in [Apps -> SUBSET Objects]
  BY <1>1, <1>2 DEF TypeOK, Pushed, Staged
<1>5. script' \in [Slots -> Script]
  BY <1>1, <1>2, <1>3, DisturbedType
<1> QED
  BY <1>2, <1>4, <1>5 DEF TypeOK

LEMMA EndType ==
  ASSUME TypeOK, NEW x \in Slots, ListDone(x) \/ ClientKilled(x) \/ Return(x)
  PROVE  TypeOK'
<1>1. script[x] \in Script
  BY DEF TypeOK
<1>2. CASE ListDone(x)
  BY <1>1, <1>2, CleanUpType, GotoType DEF ListDone, TypeOK
<1>3. CASE ClientKilled(x)
  BY <1>1, <1>3, FlagsType, GotoType DEF ClientKilled, TypeOK
<1>4. CASE Return(x)
  BY <1>4, IdleType, GotoType DEF Return, TypeOK
<1> QED
  BY <1>2, <1>3, <1>4

LEMMA NextType == TypeOK /\ [Next]_vars => TypeOK'
<1> SUFFICES ASSUME TypeOK, [Next]_vars PROVE TypeOK'
  OBVIOUS
<1>1. CASE AppWrites
  BY <1>1, AppWritesType
<1>2. ASSUME NEW x \in Slots, Step(x) PROVE TypeOK'
  BY <1>2, BeginType, RmObjectType, RemoveDirType, EndsType, MkdirType, CopyType, PushType,
     EndType DEF Step, RmFails, CommandFails
<1>3. CASE UNCHANGED vars
  BY <1>3 DEF vars, TypeOK
<1> QED
  BY <1>1, <1>2, <1>3 DEF Next, Step

LEMMA InitType == Init => TypeOK
BY IdleType DEF Init, TypeOK, Missing, Directory

(* Every variable keeps its type; an object lies in a directory that is.   *)
THEOREM StagingTypeOK == Spec => []TypeOK
BY InitType, NextType, PTL DEF Spec


-----------------------------------------------------------------------------
(***************************************************************************)
(* The inductive invariant.  A script that nothing disturbed is the only   *)
(* one of its kind, and what it has done so far can be read off its        *)
(* directory, the bucket and the archive.                                  *)
(***************************************************************************)
Active(x) == script[x].pc \notin {"idle", "done"}

KindFits(x) ==
  /\ script[x].pc \in {"mirror", "tar"} => script[x].kind = "backup"
  /\ script[x].pc \in {"extract", "push"} => script[x].kind = "restore"

Alone(x) == \A y \in Slots : y # x /\ Active(y) => script[y].kind # script[x].kind

Content(x) ==
  LET s == script[x]
  IN  /\ s.pc \in {"rm", "clean"} => s.doomed = dir[s.kind].held
      /\ s.pc = "mkdir" => dir[s.kind].held = {}
      /\ s.kind = "backup" /\ s.pc \in {"rm", "mkdir", "mirror"} => s.archive = {}
      /\ s.pc = "mirror" => Staged("backup", s.app) = bucket[s.app] \ s.todo
      /\ s.pc = "tar" => s.archive \cup s.todo = bucket[s.app]
      /\ s.pc = "extract" => /\ Staged("restore", s.app) = s.archive \ s.todo
                             /\ s.todo \subseteq s.archive
      /\ s.pc = "push" => /\ Staged("restore", s.app) = s.archive
                          /\ bucket[s.app] \ s.todo = s.archive \ s.todo
      /\ s.pc = "done" \/ (s.pc = "clean" /\ s.rc = 0) => bucket[s.app] = s.archive

Calm(x) ==
  script[x].calm /\ script[x].pc # "idle" =>
    Content(x) /\ (script[x].pc # "done" => Alone(x))

Inv ==
  /\ TypeOK
  /\ CleanedUp
  /\ \A x \in Slots : KindFits(x) /\ Calm(x)

(* What a step of x leaves of another script.                              *)
Untouched(y) ==
  /\ script'[y].pc = script[y].pc /\ script'[y].kind = script[y].kind
  /\ script'[y].app = script[y].app /\ script'[y].archive = script[y].archive
  /\ script'[y].todo = script[y].todo /\ script'[y].doomed = script[y].doomed
  /\ script'[y].rc = script[y].rc
  /\ script'[y].calm => script[y].calm
  /\ script'[y].calm /\ script[y].pc # "idle" =>
       bucket'[script[y].app] = bucket[script[y].app]

(* What a step of x leaves of the kinds it is not of.                      *)
Elsewhere(x, k) ==
  dir'[k] = dir[k] /\ (k \in strewn' <=> k \in strewn)

LEMMA GotoElsewhere ==
  ASSUME TypeOK, NEW x \in Slots, NEW s, Goto(x, s), bucket' = bucket
  PROVE  script'[x] = s /\ \A y \in Slots : y # x => Untouched(y)
BY DEF Goto, TypeOK, Untouched

LEMMA DisturbedElsewhere ==
  ASSUME TypeOK, NEW a \in Apps, NEW but, NEW y \in Slots, y \notin but
  PROVE  LET d == Disturbed(a, but)[y]
         IN  /\ d.pc = script[y].pc /\ d.kind = script[y].kind /\ d.app = script[y].app
             /\ d.archive = script[y].archive /\ d.todo = script[y].todo
             /\ d.doomed = script[y].doomed /\ d.rc = script[y].rc
             /\ d.calm => script[y].calm
             /\ d.calm /\ script[y].pc # "idle" => script[y].app # a
BY DEF Disturbed, TypeOK, Script

LEMMA ExpelledElsewhere ==
  ASSUME TypeOK, NEW kind \in Kinds, NEW x \in Slots, NEW y \in Slots
  PROVE  LET e == Expelled(kind, x)[y]
         IN  /\ e.pc = script[y].pc /\ e.kind = script[y].kind /\ e.app = script[y].app
             /\ e.archive = script[y].archive /\ e.todo = script[y].todo
             /\ e.doomed = script[y].doomed /\ e.rc = script[y].rc
             /\ e.calm = script[y].calm
BY DEF Expelled, TypeOK, Script

(* A script that only another one's step could disturb stays calm.         *)
LEMMA CalmStays ==
  ASSUME Inv, NEW x \in Slots, NEW y \in Slots, y # x, Untouched(y),
         \A z \in Slots : z \notin {x, y} => script'[z].pc = script[z].pc
                                             /\ script'[z].kind = script[z].kind,
         script'[y].calm /\ Active(y) =>
           /\ Active(x)' => script'[x].kind # script[y].kind
           /\ dir'[script[y].kind] = dir[script[y].kind]
  PROVE  Calm(y)' /\ KindFits(y)'
<1>1. KindFits(y)'
  BY DEF Inv, KindFits, Untouched
<1>2. ASSUME script'[y].calm, script'[y].pc # "idle" PROVE Content(y)'
  <2>1. Content(y) /\ bucket'[script[y].app] = bucket[script[y].app]
    BY <1>2 DEF Inv, Calm, Untouched
  <2>2. CASE script[y].pc = "done"
    BY <2>1, <2>2 DEF Content, Untouched
  <2>3. CASE script[y].pc # "done"
    <3>1. dir'[script[y].kind] = dir[script[y].kind]
      BY <1>2, <2>3 DEF Active, Untouched
    <3>2. Staged(script[y].kind, script[y].app)' = Staged(script[y].kind, script[y].app)
      BY <3>1 DEF Staged, Untouched
    <3>3. KindFits(y)
      BY DEF Inv
    <3>4. /\ script[y].pc = "mirror" => script[y].kind = "backup"
          /\ script[y].pc \in {"extract", "push"} => script[y].kind = "restore"
      BY <3>3 DEF KindFits
    <3> QED
      BY <1>2, <2>1, <3>1, <3>2, <3>4 DEF Content, Untouched, Staged
  <2> QED
    BY <2>2, <2>3
<1>3. ASSUME script'[y].calm, script'[y].pc \notin {"idle", "done"} PROVE Alone(y)'
  <2>1. Alone(y) /\ (Active(x)' => script'[x].kind # script[y].kind)
    BY <1>3 DEF Inv, Calm, Untouched, Active
  <2> QED
    BY <2>1 DEF Alone, Active, Untouched
<1> QED
  BY <1>1, <1>2, <1>3 DEF Calm


(* A step of a script at work keeps the invariant if it keeps its own part *)
(* of it, and touches no directory but its own.                            *)
LEMMA ActiveStepKeeps ==
  ASSUME Inv, TypeOK', NEW x \in Slots, Active(x),
         \A y \in Slots : y # x => Untouched(y),
         script'[x].kind = script[x].kind \/ script'[x].pc = "idle",
         \A k \in Kinds : k # script[x].kind => Elsewhere(x, k),
         KindFits(x)',
         script'[x].calm /\ script'[x].pc # "idle" => script[x].calm /\ Content(x)',
         Active(x)' \/ dir'[script[x].kind] = Missing \/ script[x].kind \in strewn'
  PROVE  Inv'
<1>1. ASSUME NEW y \in Slots, y # x PROVE Calm(y)' /\ KindFits(y)'
  <2>1. ASSUME script'[y].calm, Active(y)
        PROVE  script'[y].kind # script[x].kind /\ script[y].kind \in Kinds
    <3>1. script[y].kind # script[x].kind
      BY <1>1, <2>1 DEF Inv, Calm, Alone, Active, Untouched
    <3> QED
      BY <1>1, <3>1 DEF Untouched, Inv, TypeOK, Script
  <2> QED
    BY <1>1, <2>1, CalmStays DEF Untouched, Elsewhere, Active
<1>2. Calm(x)'
  <2>1. ASSUME script'[x].calm, Active(x)' PROVE Alone(x)'
    BY <2>1 DEF Inv, Calm, Alone, Active, Untouched
  <2> QED
    BY <2>1 DEF Calm, Active
<1>3. CleanedUp'
  <2> SUFFICES ASSUME NEW k \in Kinds, Running(k)' = {}, k \notin strewn'
               PROVE  dir'[k] = Missing
    BY DEF CleanedUp
  <2>1. CASE k = script[x].kind
    BY <2>1 DEF Running, Active
  <2>2. CASE k # script[x].kind
    <3>1. Running(k) = {}
      BY <2>2 DEF Running, Untouched
    <3> QED
      BY <2>2, <3>1 DEF Inv, CleanedUp, Elsewhere
  <2> QED
    BY <2>1, <2>2
<1> QED
  BY <1>1, <1>2, <1>3 DEF Inv

LEMMA RmObjectKeeps == ASSUME Inv, NEW x \in Slots, RmObject(x) PROVE Inv'
<1> DEFINE s == script[x]
<1>1. PICK p \in s.doomed :
        /\ dir' = [dir EXCEPT ![s.kind].held = @ \ {p}]
        /\ Goto(x, [s EXCEPT !.doomed = @ \ {p}])
  BY DEF RmObject
<1>2. /\ s \in Script /\ s.kind \in Kinds /\ s.pc \in {"rm", "clean"} /\ Active(x)
      /\ bucket' = bucket /\ strewn' = strewn /\ TypeOK
  BY DEF Inv, TypeOK, Script, RmObject, Removing, Active
<1>3. script'[x] = [s EXCEPT !.doomed = @ \ {p}] /\ \A y \in Slots : y # x => Untouched(y)
  BY <1>1, <1>2, GotoElsewhere
<1>4. /\ script'[x].pc = s.pc /\ script'[x].kind = s.kind /\ script'[x].calm = s.calm
      /\ script'[x].doomed = s.doomed \ {p} /\ script'[x].archive = s.archive
      /\ script'[x].app = s.app /\ script'[x].rc = s.rc
  BY <1>2, <1>3 DEF Script
<1>5. /\ dir'[s.kind].held = dir[s.kind].held \ {p}
      /\ \A k \in Kinds : k # s.kind => Elsewhere(x, k)
  BY <1>1, <1>2 DEF TypeOK, Directory, Elsewhere
<1>6. s.calm => Content(x)'
  <2> SUFFICES ASSUME s.calm PROVE Content(x)'
    OBVIOUS
  <2>1. Content(x)
    BY <1>2 DEF Inv, Calm
  <2> QED
    BY <1>2, <1>4, <1>5, <2>1 DEF Content
<1>7. KindFits(x)' /\ Active(x)'
  BY <1>2, <1>4 DEF KindFits, Active
<1> QED
  BY <1>2, <1>3, <1>4, <1>5, <1>6, <1>7, ActiveStepKeeps, RmObjectType

LEMMA RemoveDirKeeps == ASSUME Inv, NEW x \in Slots, RemoveDir(x) PROVE Inv'
<1> DEFINE s == script[x]
           next == IF s.pc = "rm" THEN [s EXCEPT !.pc = "mkdir"]
                   ELSE IF s.rc = 0 /\ s.watched THEN [s EXCEPT !.pc = "done"]
                   ELSE Idle
<1>1. /\ dir' = [dir EXCEPT ![s.kind] = Missing] /\ strewn' = strewn \ {s.kind}
      /\ script' = [Expelled(s.kind, x) EXCEPT ![x] = next] /\ bucket' = bucket
      /\ s.pc \in {"rm", "clean"} /\ Active(x)
  BY DEF RemoveDir, Removing, Active
<1>2. s \in Script /\ s.kind \in Kinds /\ TypeOK
  BY DEF Inv, TypeOK, Script
<1>3. script'[x] = next /\ \A y \in Slots : y # x => script'[y] = Expelled(s.kind, x)[y]
  <2> HIDE DEF next
  <2> QED
    BY <1>1, <1>2, ExpelledType
<1>4. \A y \in Slots : y # x => Untouched(y)
  BY <1>1, <1>2, <1>3, ExpelledElsewhere DEF Untouched
<1>5. dir'[s.kind] = Missing /\ \A k \in Kinds : k # s.kind => Elsewhere(x, k)
  BY <1>1, <1>2 DEF TypeOK, Elsewhere
<1>6. /\ script'[x].kind = s.kind \/ script'[x].pc = "idle"
      /\ KindFits(x)'
  BY <1>1, <1>2, <1>3 DEF Script, Idle, KindFits
<1>7. script'[x].calm /\ script'[x].pc # "idle" => s.calm /\ Content(x)'
  <2> SUFFICES ASSUME script'[x].calm, script'[x].pc # "idle" PROVE s.calm /\ Content(x)'
    OBVIOUS
  <2>1. script'[x].pc \in {"mkdir", "done"} /\ s.calm
        /\ script'[x].kind = s.kind /\ script'[x].archive = s.archive
        /\ script'[x].app = s.app
        /\ (script'[x].pc = "done" => s.rc = 0 /\ s.pc = "clean")
        /\ (script'[x].pc = "mkdir" => s.pc = "rm")
    BY <1>1, <1>2, <1>3 DEF Script, Idle
  <2>2. Content(x)
    BY <1>1, <2>1 DEF Inv, Calm
  <2>3. CASE script'[x].pc = "mkdir"
    <3>1. s.kind = "backup" => s.archive = {}
      BY <2>1, <2>2, <2>3 DEF Content
    <3>2. dir'[script'[x].kind].held = {}
      BY <1>5, <2>1 DEF Missing
    <3> QED
      BY <2>1, <2>3, <3>1, <3>2 DEF Content
  <2>4. CASE script'[x].pc = "done"
    <3>1. bucket[s.app] = s.archive
      BY <2>1, <2>2, <2>4 DEF Content
    <3> QED
      BY <1>1, <2>1, <2>4, <3>1 DEF Content
  <2> QED
    BY <2>1, <2>3, <2>4
<1> QED
  BY <1>1, <1>2, <1>4, <1>5, <1>6, <1>7, ActiveStepKeeps, RemoveDirType

(* A script that fails, first steps and last.                              *)
LEMMA EndsKeep ==
  ASSUME Inv, NEW x \in Slots, Active(x), Abandons(x) \/ FailsEarly(x)
  PROVE  Inv'
<1> DEFINE s == script[x]
<1>1. s \in Script /\ s.kind \in Kinds /\ TypeOK /\ bucket' = bucket /\ dir' = dir
  BY DEF Inv, TypeOK, Script, Abandons, FailsEarly
<1>2. CASE Abandons(x)
  <2>1. script'[x] = Idle /\ \A y \in Slots : y # x => Untouched(y)
    BY <1>1, <1>2, GotoElsewhere DEF Abandons
  <2>2. s.kind \in strewn' /\ \A k \in Kinds : k # s.kind => Elsewhere(x, k)
    BY <1>1, <1>2 DEF Abandons, Elsewhere
  <2>3. script'[x].pc = "idle" /\ KindFits(x)'
    BY <2>1 DEF Idle, KindFits
  <2> QED
    BY <1>1, <1>2, <2>1, <2>2, <2>3, ActiveStepKeeps, EndsType
<1>3. CASE FailsEarly(x)
  <2>1. script'[x] = CleanUp(s, 1) /\ \A y \in Slots : y # x => Untouched(y)
    BY <1>1, <1>3, GotoElsewhere DEF FailsEarly
  <2>2. /\ script'[x].pc = "clean" /\ script'[x].rc = 1 /\ script'[x].doomed = dir[s.kind].held
        /\ script'[x].kind = s.kind /\ script'[x].calm = s.calm
    BY <1>1, <2>1 DEF CleanUp, Script
  <2>3. KindFits(x)' /\ Active(x)' /\ Content(x)'
    BY <1>1, <2>2 DEF KindFits, Active, Content
  <2>4. \A k \in Kinds : k # s.kind => Elsewhere(x, k)
    BY <1>1, <1>3 DEF FailsEarly, Elsewhere
  <2> QED
    BY <1>1, <1>3, <2>1, <2>2, <2>3, <2>4, ActiveStepKeeps, EndsType
<1> QED
  BY <1>2, <1>3

LEMMA MkdirKeeps == ASSUME Inv, NEW x \in Slots, Mkdir(x) PROVE Inv'
<1> DEFINE s == script[x]
           next == [s EXCEPT !.pc = FirstOf(s.kind), !.inside = TRUE,
                             !.todo = IF s.kind = "backup" THEN Objects ELSE s.archive]
<1>1. s \in Script /\ s.kind \in Kinds /\ s.app \in Apps /\ TypeOK /\ s.pc = "mkdir" /\ Active(x)
  BY DEF Inv, TypeOK, Script, Mkdir, Active
<1>2. Goto(x, next) /\ dir' = [dir EXCEPT ![s.kind].made = TRUE] /\ bucket' = bucket
      /\ strewn' = strewn
  BY DEF Mkdir
<1>3. script'[x] = next /\ \A y \in Slots : y # x => Untouched(y)
  <2> HIDE DEF next
  <2> QED
    BY <1>1, <1>2, GotoElsewhere
<1>4. /\ script'[x].pc = FirstOf(s.kind) /\ script'[x].kind = s.kind /\ script'[x].app = s.app
      /\ script'[x].archive = s.archive /\ script'[x].calm = s.calm
      /\ script'[x].todo = IF s.kind = "backup" THEN Objects ELSE s.archive
  BY <1>1, <1>3 DEF Script
<1>5. /\ dir'[s.kind].held = dir[s.kind].held
      /\ \A k \in Kinds : k # s.kind => Elsewhere(x, k)
  BY <1>1, <1>2 DEF TypeOK, Directory, Elsewhere
<1>6. /\ script'[x].pc = IF s.kind = "backup" THEN "mirror" ELSE "extract"
      /\ s.kind \in {"backup", "restore"}
  BY <1>1, <1>4 DEF FirstOf, Kinds
<1>7. KindFits(x)' /\ Active(x)'
  BY <1>4, <1>6 DEF KindFits, Active
<1>8. s.calm => Content(x)'
  <2> SUFFICES ASSUME s.calm PROVE Content(x)'
    OBVIOUS
  <2>1. /\ dir[s.kind].held = {}
        /\ s.kind = "backup" => s.archive = {}
    BY <1>1 DEF Inv, Calm, Content
  <2>2. Staged(s.kind, s.app)' = {}
    BY <1>4, <1>5, <2>1 DEF Staged
  <2>3. bucket[s.app] \subseteq Objects
    BY <1>1 DEF TypeOK
  <2>4. CASE s.kind = "backup"
    BY <1>2, <1>4, <1>6, <2>1, <2>2, <2>3, <2>4 DEF Content, Staged
  <2>5. CASE s.kind = "restore"
    BY <1>2, <1>4, <1>6, <2>1, <2>2, <2>3, <2>5 DEF Content, Staged
  <2> QED
    BY <1>6, <2>4, <2>5
<1> QED
  BY <1>1, <1>3, <1>4, <1>5, <1>7, <1>8, ActiveStepKeeps, MkdirType


LEMMA KeepElsewhere ==
  ASSUME TypeOK, NEW kind \in Kinds, NEW a \in Apps, NEW o \in Objects, Keep(kind, a, o),
         NEW x, strewn' = strewn
  PROVE  /\ \A k \in Kinds : k # kind => Elsewhere(x, k)
         /\ {p \in Objects : <<a, p>> \in dir'[kind].held} = Staged(kind, a) \cup {o}
<1>1. dir'[kind].held = dir[kind].held \cup {<<a, o>>}
  BY DEF Keep, TypeOK, Directory
<1>2. \A p : <<a, p>> \in {<<a, o>>} <=> p = o
  OBVIOUS
<1>3. \A k \in Kinds : k # kind => Elsewhere(x, k)
  BY DEF Keep, TypeOK, Elsewhere
<1> QED
  BY <1>1, <1>2, <1>3 DEF Staged

LEMMA MirrorKeeps == ASSUME Inv, NEW x \in Slots, Mirror(x) PROVE Inv'
<1> DEFINE s == script[x]
<1>1. /\ s \in Script /\ s.app \in Apps /\ s.todo \subseteq Objects /\ TypeOK
      /\ s.pc = "mirror" /\ s.kind = "backup" /\ Active(x) /\ "backup" \in Kinds
  BY DEF Inv, TypeOK, Script, Mirror, Active, KindFits, Kinds
<1>2. PICK o \in s.todo :
        /\ IF o \in bucket[s.app] THEN Keep("backup", s.app, o) ELSE UNCHANGED dir
        /\ Goto(x, [s EXCEPT !.todo = @ \ {o}])
        /\ UNCHANGED <<bucket, strewn>>
  BY DEF Mirror
<1>3. script'[x] = [s EXCEPT !.todo = @ \ {o}] /\ \A y \in Slots : y # x => Untouched(y)
  BY <1>1, <1>2, GotoElsewhere
<1>4. /\ script'[x].pc = "mirror" /\ script'[x].kind = "backup" /\ script'[x].app = s.app
      /\ script'[x].archive = s.archive /\ script'[x].calm = s.calm
      /\ script'[x].todo = s.todo \ {o}
  BY <1>1, <1>3 DEF Script
<1>5. /\ \A k \in Kinds : k # "backup" => Elsewhere(x, k)
      /\ {p \in Objects : <<s.app, p>> \in dir'["backup"].held}
           = Staged("backup", s.app) \cup ({o} \cap bucket[s.app])
  <2>1. CASE o \in bucket[s.app]
    <3>1. Keep("backup", s.app, o) /\ strewn' = strewn
      BY <1>2, <2>1
    <3>2. {o} \cap bucket[s.app] = {o}
      BY <2>1
    <3> QED
      BY <1>1, <3>1, <3>2, KeepElsewhere
  <2>2. CASE o \notin bucket[s.app]
    BY <1>2, <2>2 DEF Elsewhere, Staged
  <2> QED
    BY <2>1, <2>2
<1>6. s.calm => Content(x)'
  <2> SUFFICES ASSUME s.calm PROVE Content(x)'
    OBVIOUS
  <2>1. Staged("backup", s.app) = bucket[s.app] \ s.todo /\ s.archive = {}
    BY <1>1 DEF Inv, Calm, Content
  <2>2. {p \in Objects : <<s.app, p>> \in dir'["backup"].held} = bucket[s.app] \ (s.todo \ {o})
    BY <1>2, <1>5, <2>1
  <2> QED
    BY <1>2, <1>4, <2>1, <2>2 DEF Content, Staged
<1>7. KindFits(x)' /\ Active(x)'
  BY <1>4 DEF KindFits, Active
<1>8. TypeOK'
  BY <1>1, CopyType
<1> QED
  BY <1>1, <1>3, <1>4, <1>5, <1>6, <1>7, <1>8, ActiveStepKeeps

LEMMA ExtractKeeps == ASSUME Inv, NEW x \in Slots, Extract(x) PROVE Inv'
<1> DEFINE s == script[x]
<1>1. /\ s \in Script /\ s.app \in Apps /\ s.todo \subseteq Objects /\ TypeOK
      /\ s.pc = "extract" /\ s.kind = "restore" /\ Active(x) /\ "restore" \in Kinds
  BY DEF Inv, TypeOK, Script, Extract, Active, KindFits, Kinds
<1>2. PICK o \in s.todo :
        /\ Keep("restore", s.app, o)
        /\ Goto(x, [s EXCEPT !.todo = @ \ {o}])
        /\ UNCHANGED <<bucket, strewn>>
  BY DEF Extract
<1>3. script'[x] = [s EXCEPT !.todo = @ \ {o}] /\ \A y \in Slots : y # x => Untouched(y)
  BY <1>1, <1>2, GotoElsewhere
<1>4. /\ script'[x].pc = "extract" /\ script'[x].kind = "restore" /\ script'[x].app = s.app
      /\ script'[x].archive = s.archive /\ script'[x].calm = s.calm
      /\ script'[x].todo = s.todo \ {o}
  BY <1>1, <1>3 DEF Script
<1>5. /\ \A k \in Kinds : k # "restore" => Elsewhere(x, k)
      /\ {p \in Objects : <<s.app, p>> \in dir'["restore"].held}
           = Staged("restore", s.app) \cup {o}
  BY <1>1, <1>2, KeepElsewhere
<1>6. s.calm => Content(x)'
  <2> SUFFICES ASSUME s.calm PROVE Content(x)'
    OBVIOUS
  <2>1. Staged("restore", s.app) = s.archive \ s.todo
    BY <1>1 DEF Inv, Calm, Content
  <2>2. o \in s.archive /\ s.todo \subseteq s.archive
    BY <1>1, <1>2 DEF Inv, Calm, Content
  <2>3. {p \in Objects : <<s.app, p>> \in dir'["restore"].held} = s.archive \ (s.todo \ {o})
    BY <1>2, <1>5, <2>1, <2>2
  <2> QED
    BY <1>2, <1>4, <2>1, <2>2, <2>3 DEF Content, Staged
<1>7. KindFits(x)' /\ Active(x)'
  BY <1>4 DEF KindFits, Active
<1>8. TypeOK'
  BY <1>1, CopyType
<1> QED
  BY <1>1, <1>3, <1>4, <1>5, <1>6, <1>7, <1>8, ActiveStepKeeps


(* A step that changes nothing but its script.                             *)
LEMMA QuietStepKeeps ==
  ASSUME Inv, NEW x \in Slots, Active(x), NEW s, Goto(x, s), UNCHANGED <<bucket, dir, strewn>>,
         TypeOK', s.kind = script[x].kind, s.pc \notin {"idle", "done"}, KindFits(x)',
         s.calm => script[x].calm /\ Content(x)'
  PROVE  Inv'
<1>1. script'[x] = s /\ \A y \in Slots : y # x => Untouched(y)
  BY GotoElsewhere DEF Inv
<1>2. \A k \in Kinds : Elsewhere(x, k)
  BY DEF Elsewhere
<1>3. Active(x)'
  BY <1>1 DEF Active
<1> QED
  BY <1>1, <1>2, <1>3, ActiveStepKeeps

LEMMA StartTarKeeps == ASSUME Inv, NEW x \in Slots, StartTar(x) PROVE Inv'
<1> DEFINE s == script[x]
           next == [s EXCEPT !.pc = "tar", !.inside = TRUE, !.todo = Staged("backup", s.app)]
<1>1. /\ s \in Script /\ s.app \in Apps /\ TypeOK /\ s.pc = "mirror" /\ s.todo = {}
      /\ s.kind = "backup" /\ Active(x) /\ Goto(x, next) /\ UNCHANGED <<bucket, dir, strewn>>
  BY DEF Inv, TypeOK, Script, StartTar, Active, KindFits
<1>2. /\ next.pc = "tar" /\ next.kind = "backup" /\ next.app = s.app /\ next.calm = s.calm
      /\ next.archive = s.archive /\ next.todo = Staged("backup", s.app)
  BY <1>1 DEF Script
<1> HIDE DEF next
<1>3. script'[x] = next
  BY <1>1, GotoElsewhere
<1>4. KindFits(x)'
  BY <1>2, <1>3 DEF KindFits
<1>5. s.calm => Content(x)'
  <2> SUFFICES ASSUME s.calm PROVE Content(x)'
    OBVIOUS
  <2>1. Staged("backup", s.app) = bucket[s.app] /\ s.archive = {}
    BY <1>1 DEF Inv, Calm, Content
  <2> QED
    BY <1>1, <1>2, <1>3, <2>1 DEF Content
<1>6. TypeOK'
  BY <1>1, CopyType
<1> QED
  BY <1>1, <1>2, <1>3, <1>4, <1>5, <1>6, QuietStepKeeps

LEMMA TarKeeps == ASSUME Inv, NEW x \in Slots, Tar(x) PROVE Inv'
<1> DEFINE s == script[x]
<1>1. /\ s \in Script /\ TypeOK /\ s.pc = "tar" /\ s.kind = "backup" /\ Active(x)
      /\ UNCHANGED <<bucket, dir, strewn>>
  BY DEF Inv, TypeOK, Script, Tar, Active, KindFits
<1>2. PICK o \in s.todo \cap Staged("backup", s.app) :
        Goto(x, [s EXCEPT !.archive = @ \cup {o}, !.todo = @ \ {o}])
  BY DEF Tar
<1> DEFINE next == [s EXCEPT !.archive = @ \cup {o}, !.todo = @ \ {o}]
<1>3. /\ next.pc = "tar" /\ next.kind = "backup" /\ next.app = s.app /\ next.calm = s.calm
      /\ next.archive = s.archive \cup {o} /\ next.todo = s.todo \ {o}
  BY <1>1 DEF Script
<1>4. Goto(x, next)
  BY <1>2
<1> HIDE DEF next
<1>5. script'[x] = next
  BY <1>1, <1>4, GotoElsewhere
<1>6. KindFits(x)'
  BY <1>3, <1>5 DEF KindFits
<1>7. s.calm => Content(x)'
  <2> SUFFICES ASSUME s.calm PROVE Content(x)'
    OBVIOUS
  <2>1. s.archive \cup s.todo = bucket[s.app]
    BY <1>1 DEF Inv, Calm, Content
  <2>2. next.archive \cup next.todo = bucket[s.app]
    BY <1>2, <1>3, <2>1
  <2> QED
    BY <1>1, <1>3, <1>5, <2>2 DEF Content
<1>8. TypeOK'
  BY <1>1, CopyType
<1> QED
  BY <1>1, <1>3, <1>4, <1>5, <1>6, <1>7, <1>8, QuietStepKeeps

LEMMA StartPushKeeps == ASSUME Inv, NEW x \in Slots, StartPush(x) PROVE Inv'
<1> DEFINE s == script[x]
           next == [s EXCEPT !.pc = "push", !.todo = Objects]
<1>1. /\ s \in Script /\ s.app \in Apps /\ TypeOK /\ s.pc = "extract" /\ s.todo = {}
      /\ s.kind = "restore" /\ Active(x) /\ Goto(x, next) /\ UNCHANGED <<bucket, dir, strewn>>
  BY DEF Inv, TypeOK, Script, StartPush, Active, KindFits
<1>2. /\ next.pc = "push" /\ next.kind = "restore" /\ next.app = s.app /\ next.calm = s.calm
      /\ next.archive = s.archive /\ next.todo = Objects
  BY <1>1 DEF Script
<1> HIDE DEF next
<1>3. script'[x] = next
  BY <1>1, GotoElsewhere
<1>4. KindFits(x)'
  BY <1>2, <1>3 DEF KindFits
<1>5. s.calm => Content(x)'
  <2> SUFFICES ASSUME s.calm PROVE Content(x)'
    OBVIOUS
  <2>1. Staged("restore", s.app) = s.archive
    <3>1. Content(x)
      BY <1>1 DEF Inv, Calm
    <3>2. Staged("restore", s.app) = s.archive \ s.todo
      BY <1>1, <3>1 DEF Content
    <3> QED
      BY <1>1, <3>2
  <2>2. s.archive \subseteq Objects /\ bucket[s.app] \subseteq Objects
    BY <1>1 DEF Script, TypeOK
  <2>3. Staged("restore", s.app)' = s.archive
    BY <1>1, <1>2, <1>3, <2>1 DEF Staged
  <2> QED
    BY <1>1, <1>2, <1>3, <2>2, <2>3 DEF Content
<1>6. TypeOK'
  BY <1>1, CopyType
<1> QED
  BY <1>1, <1>2, <1>3, <1>4, <1>5, <1>6, QuietStepKeeps

LEMMA PushKeeps == ASSUME Inv, NEW x \in Slots, Push(x) PROVE Inv'
<1> DEFINE s == script[x]
<1>1. /\ s \in Script /\ s.app \in Apps /\ s.todo \subseteq Objects /\ TypeOK
      /\ s.pc = "push" /\ s.kind = "restore" /\ Active(x)
  BY DEF Inv, TypeOK, Script, Push, Active, KindFits
<1>2. PICK o \in s.todo :
        /\ bucket' = [bucket EXCEPT ![s.app] = Pushed(@, Staged("restore", s.app), o)]
        /\ script' = [Disturbed(s.app, {x}) EXCEPT ![x] = [s EXCEPT !.todo = @ \ {o}]]
        /\ UNCHANGED <<dir, strewn>>
  BY DEF Push
<1>3. /\ script'[x] = [s EXCEPT !.todo = @ \ {o}]
      /\ \A y \in Slots : y # x => script'[y] = Disturbed(s.app, {x})[y]
  BY <1>1, <1>2, DisturbedType
<1>4. \A y \in Slots : y # x => Untouched(y)
  <2> SUFFICES ASSUME NEW y \in Slots, y # x PROVE Untouched(y)
    OBVIOUS
  <2>1. script[y].app \in Apps
    BY <1>1 DEF TypeOK, Script
  <2>2. script[y].app # s.app => bucket'[script[y].app] = bucket[script[y].app]
    BY <1>1, <1>2, <2>1 DEF TypeOK
  <2>3. script'[y] = Disturbed(s.app, {x})[y] /\ y \notin {x}
    BY <1>3
  <2> QED
    BY <1>1, <2>2, <2>3, DisturbedElsewhere DEF Untouched
<1>5. /\ script'[x].pc = "push" /\ script'[x].kind = "restore" /\ script'[x].app = s.app
      /\ script'[x].archive = s.archive /\ script'[x].calm = s.calm
      /\ script'[x].todo = s.todo \ {o}
  BY <1>1, <1>3 DEF Script
<1>6. bucket'[s.app] = (bucket[s.app] \ {o}) \cup (Staged("restore", s.app) \cap {o})
  BY <1>1, <1>2 DEF TypeOK, Pushed
<1>7. s.calm => Content(x)'
  <2> SUFFICES ASSUME s.calm PROVE Content(x)'
    OBVIOUS
  <2>1. Staged("restore", s.app) = s.archive /\ bucket[s.app] \ s.todo = s.archive \ s.todo
    BY <1>1 DEF Inv, Calm, Content
  <2>2. bucket'[s.app] \ (s.todo \ {o}) = s.archive \ (s.todo \ {o})
    BY <1>2, <1>6, <2>1
  <2>3. Staged("restore", s.app)' = s.archive
    BY <1>2, <1>5, <2>1 DEF Staged
  <2> QED
    BY <1>5, <2>2, <2>3 DEF Content
<1>8. /\ KindFits(x)' /\ Active(x)' /\ TypeOK'
      /\ \A k \in Kinds : k # s.kind => Elsewhere(x, k)
  BY <1>1, <1>2, <1>5, PushType DEF KindFits, Active, Elsewhere
<1> QED
  BY <1>1, <1>4, <1>5, <1>7, <1>8, ActiveStepKeeps

LEMMA ListDoneKeeps == ASSUME Inv, NEW x \in Slots, ListDone(x) PROVE Inv'
<1> DEFINE s == script[x]
           next == CleanUp(s, 0)
<1>1. /\ s \in Script /\ TypeOK /\ s.pc \in {"tar", "push"} /\ s.todo = {} /\ Active(x)
      /\ Goto(x, next) /\ UNCHANGED <<bucket, dir, strewn>>
  BY DEF Inv, TypeOK, ListDone, Active
<1>2. /\ next.pc = "clean" /\ next.kind = s.kind /\ next.app = s.app /\ next.calm = s.calm
      /\ next.archive = s.archive /\ next.doomed = dir[s.kind].held
  BY <1>1 DEF Script, CleanUp
<1> HIDE DEF next
<1>3. script'[x] = next
  BY <1>1, GotoElsewhere
<1>4. KindFits(x)'
  BY <1>2, <1>3 DEF KindFits
<1>5. s.calm => Content(x)'
  <2> SUFFICES ASSUME s.calm PROVE Content(x)'
    OBVIOUS
  <2>1. bucket[s.app] = s.archive
    <3>1. Content(x)
      BY <1>1 DEF Inv, Calm
    <3>2. s.pc = "tar" => s.archive \cup s.todo = bucket[s.app]
      BY <3>1 DEF Content
    <3>3. s.pc = "push" => bucket[s.app] \ s.todo = s.archive \ s.todo
      BY <3>1 DEF Content
    <3> QED
      BY <1>1, <3>2, <3>3
  <2> QED
    BY <1>1, <1>2, <1>3, <2>1 DEF Content
<1>6. TypeOK'
  BY <1>1, EndType
<1> QED
  BY <1>1, <1>2, <1>3, <1>4, <1>5, <1>6, QuietStepKeeps

LEMMA ClientKilledKeeps == ASSUME Inv, NEW x \in Slots, ClientKilled(x) PROVE Inv'
<1> DEFINE s == script[x]
           next == [s EXCEPT !.watched = FALSE, !.calm = FALSE]
<1>1. /\ s \in Script /\ TypeOK /\ Active(x) /\ Goto(x, next)
      /\ UNCHANGED <<bucket, dir, strewn>> /\ KindFits(x)
  BY DEF Inv, TypeOK, ClientKilled, Active, Running
<1>2. next.pc = s.pc /\ next.kind = s.kind /\ next.calm = FALSE
  BY <1>1 DEF Script
<1> HIDE DEF next
<1>3. script'[x] = next
  BY <1>1, GotoElsewhere
<1>4. KindFits(x)'
  BY <1>1, <1>2, <1>3 DEF KindFits
<1>5. TypeOK'
  BY <1>1, EndType
<1> QED
  BY <1>1, <1>2, <1>3, <1>4, <1>5, QuietStepKeeps DEF Active

LEMMA ReturnKeeps == ASSUME Inv, NEW x \in Slots, Return(x) PROVE Inv'
<1>1. /\ Goto(x, Idle) /\ UNCHANGED <<bucket, dir, strewn>> /\ ~Active(x) /\ TypeOK
  BY DEF Return, Active, Inv
<1>2. script'[x] = Idle /\ \A y \in Slots : y # x => Untouched(y)
  BY <1>1, GotoElsewhere
<1>3. script'[x].pc = "idle"
  BY <1>2 DEF Idle
<1>4. ASSUME NEW y \in Slots, y # x PROVE Calm(y)' /\ KindFits(y)'
  BY <1>1, <1>2, <1>3, <1>4, CalmStays DEF Untouched, Active
<1>5. Calm(x)' /\ KindFits(x)'
  BY <1>3 DEF Calm, KindFits
<1>6. \A k : Running(k)' = {} => Running(k) = {}
  BY <1>1, <1>2 DEF Running, Untouched, Active
<1>7. CleanedUp'
  BY <1>1, <1>6 DEF CleanedUp, Inv
<1> QED
  BY <1>1, <1>4, <1>5, <1>7, EndType DEF Inv

LEMMA AppWritesKeeps == ASSUME Inv, AppWrites PROVE Inv'
<1>1. PICK a \in Apps, o \in Objects :
        /\ bucket' = [bucket EXCEPT ![a] = IF o \in @ THEN @ \ {o} ELSE @ \cup {o}]
        /\ script' = Disturbed(a, {})
        /\ UNCHANGED <<dir, strewn>>
  BY DEF AppWrites
<1>2. TypeOK /\ TypeOK'
  BY AppWritesType DEF Inv
<1>3. ASSUME NEW y \in Slots PROVE Untouched(y)
  <2>1. script[y].app \in Apps
    BY <1>2 DEF TypeOK, Script
  <2>2. script[y].app # a => bucket'[script[y].app] = bucket[script[y].app]
    BY <1>1, <1>2, <2>1 DEF TypeOK
  <2> QED
    BY <1>1, <1>2, <2>2, DisturbedElsewhere DEF Untouched
<1>4. ASSUME NEW y \in Slots PROVE Calm(y)' /\ KindFits(y)'
  <2>1. KindFits(y)'
    BY <1>3 DEF Inv, KindFits, Untouched
  <2>2. ASSUME script'[y].calm, script'[y].pc # "idle"
        PROVE  Content(y)' /\ (script'[y].pc # "done" => Alone(y)')
    <3>1. Content(y) /\ (script[y].pc # "done" => Alone(y))
      BY <1>3, <2>2 DEF Inv, Calm, Untouched
    <3>2. bucket'[script[y].app] = bucket[script[y].app] /\ dir' = dir
      BY <1>1, <1>3, <2>2 DEF Untouched
    <3>3. Content(y)'
      BY <1>3, <3>1, <3>2 DEF Content, Untouched, Staged
    <3>4. script'[y].pc # "done" => Alone(y)'
      BY <1>3, <3>1 DEF Alone, Active, Untouched
    <3> QED
      BY <3>3, <3>4
  <2> QED
    BY <2>1, <2>2 DEF Calm
<1>5. \A k : Running(k)' = Running(k)
  BY <1>3 DEF Running, Untouched
<1>6. CleanedUp'
  BY <1>1, <1>5 DEF CleanedUp, Inv
<1> QED
  BY <1>2, <1>4, <1>6 DEF Inv


LEMMA BeginKeeps == ASSUME Inv, NEW x \in Slots, Begin(x) PROVE Inv'
<1>1. PICK kind \in Kinds, a \in Apps, archive \in SUBSET Objects :
        /\ script[x].pc = "idle"
        /\ kind = "backup" => archive = {}
        /\ script' = [y \in Slots |->
             IF y = x THEN StartRm([Idle EXCEPT !.kind = kind, !.app = a, !.archive = archive,
                                                !.calm = Running(kind) = {}])
             ELSE IF y \in Running(kind) THEN [script[y] EXCEPT !.calm = FALSE]
             ELSE script[y]]
        /\ UNCHANGED <<bucket, dir, strewn>>
  BY DEF Begin
<1>2. TypeOK /\ TypeOK'
  BY BeginType DEF Inv
<1>3. /\ script'[x].pc = "rm" /\ script'[x].kind = kind /\ script'[x].archive = archive
      /\ script'[x].doomed = dir[kind].held /\ script'[x].calm = (Running(kind) = {})
  BY <1>1 DEF StartRm, Idle
<1>4. ASSUME NEW y \in Slots, y # x
      PROVE  /\ Untouched(y)
             /\ script'[y].calm => y \notin Running(kind)
  <2>1. script[y] \in Script
    BY <1>2 DEF TypeOK
  <2>2. CASE y \in Running(kind)
    <3>1. script'[y] = [script[y] EXCEPT !.calm = FALSE]
      BY <1>1, <1>4, <2>2
    <3>2. script'[y].calm = FALSE
      BY <2>1, <3>1 DEF Script
    <3> QED
      BY <1>1, <2>1, <3>1, <3>2 DEF Untouched, Script
  <2>3. CASE y \notin Running(kind)
    BY <1>1, <1>4, <2>3 DEF Untouched
  <2> QED
    BY <2>2, <2>3
<1>5. ASSUME NEW y \in Slots, y # x PROVE Calm(y)' /\ KindFits(y)'
  <2>1. script'[y].calm /\ Active(y) => script'[x].kind # script[y].kind
    BY <1>3, <1>4, <1>5 DEF Running, Active
  <2> QED
    BY <1>1, <1>4, <1>5, <2>1, CalmStays DEF Untouched
<1>6. Calm(x)' /\ KindFits(x)'
  <2>1. script'[x].calm => Alone(x)'
    <3> SUFFICES ASSUME script'[x].calm, NEW y \in Slots, y # x, Active(y)'
                 PROVE  script'[y].kind # script'[x].kind
      BY DEF Alone
    <3>1. Untouched(y) /\ Running(kind) = {}
      BY <1>3, <1>4
    <3>2. script'[y].pc = script[y].pc /\ script'[y].kind = script[y].kind
      BY <3>1 DEF Untouched
    <3> QED
      BY <1>3, <3>1, <3>2 DEF Active, Running
  <2>2. Content(x)'
    BY <1>1, <1>3 DEF Content
  <2>3. KindFits(x)'
    BY <1>3 DEF KindFits
  <2> QED
    BY <2>1, <2>2, <2>3 DEF Calm
<1>7. CleanedUp'
  <2> SUFFICES ASSUME NEW k \in Kinds, Running(k)' = {}, k \notin strewn'
               PROVE  dir'[k] = Missing
    BY DEF CleanedUp
  <2>1. Running(k) = {}
    <3> SUFFICES ASSUME NEW y \in Running(k) PROVE FALSE
      OBVIOUS
    <3>1. y \in Slots /\ y # x
      BY <1>1 DEF Running
    <3>2. Untouched(y)
      BY <1>4, <3>1
    <3>3. y \in Running(k)'
      BY <3>1, <3>2 DEF Running, Untouched
    <3> QED
      BY <3>3
  <2> QED
    BY <1>1, <2>1 DEF Inv, CleanedUp
<1> QED
  BY <1>2, <1>5, <1>6, <1>7 DEF Inv

LEMMA InitKeeps == Init => Inv
<1> SUFFICES ASSUME Init PROVE Inv
  OBVIOUS
<1>1. \A x \in Slots : script[x].pc = "idle"
  BY DEF Init, Idle
<1>2. CleanedUp
  BY DEF Init, CleanedUp
<1> QED
  BY <1>1, <1>2, InitType DEF Inv, KindFits, Calm

LEMMA NextKeeps == Inv /\ [Next]_vars => Inv'
<1> SUFFICES ASSUME Inv, [Next]_vars PROVE Inv'
  OBVIOUS
<1>1. ASSUME NEW x \in Slots, RmFails(x) PROVE Inv'
  BY <1>1, EndsKeep DEF RmFails, Removing, Active
<1>2. ASSUME NEW x \in Slots, CommandFails(x) PROVE Inv'
  BY <1>2, EndsKeep DEF CommandFails, Active
<1>3. ASSUME NEW x \in Slots, Step(x) PROVE Inv'
  BY <1>1, <1>2, <1>3, BeginKeeps, RmObjectKeeps, RemoveDirKeeps, MkdirKeeps, MirrorKeeps,
     StartTarKeeps, TarKeeps, ExtractKeeps, StartPushKeeps, PushKeeps, ListDoneKeeps,
     ClientKilledKeeps, ReturnKeeps DEF Step
<1>4. CASE AppWrites
  BY <1>4, AppWritesKeeps
<1>5. CASE UNCHANGED vars
  <2>1. TypeOK' /\ CleanedUp'
    BY <1>5, NextType DEF vars, Inv, CleanedUp, Running
  <2>2. ASSUME NEW x \in Slots PROVE KindFits(x)' /\ Calm(x)'
    <3>1. KindFits(x) /\ Calm(x)
      BY DEF Inv
    <3> QED
      BY <1>5, <3>1 DEF vars, KindFits, Calm, Content, Alone, Active, Staged
  <2> QED
    BY <2>1, <2>2 DEF Inv
<1> QED
  BY <1>3, <1>4, <1>5 DEF Next, Step

THEOREM StagingInductive == Spec => []Inv
BY InitKeeps, NextKeeps, PTL DEF Spec

(* A backup that reports success archived the bucket as it is.             *)
THEOREM StagingBackupComplete == Spec => []BackupComplete
<1>1. Inv => BackupComplete
  BY DEF Inv, Calm, Content, BackupComplete
<1> QED
  BY <1>1, StagingInductive, PTL

(* A restore that reports success left the bucket as the archive is.       *)
THEOREM StagingRestoreExact == Spec => []RestoreExact
<1>1. Inv => RestoreExact
  BY DEF Inv, Calm, Content, RestoreExact
<1> QED
  BY <1>1, StagingInductive, PTL

(* No script leaves its directory but one that set -e ended.               *)
THEOREM StagingCleanedUp == Spec => []CleanedUp
<1>1. Inv => CleanedUp
  BY DEF Inv
<1> QED
  BY <1>1, StagingInductive, PTL

=============================================================================
