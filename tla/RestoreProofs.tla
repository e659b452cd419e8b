---------------------------- MODULE RestoreProofs ----------------------------
(***************************************************************************)
(* For any apps, items, restores and length of history: what a restore     *)
(* delivers, and what it may not do to apps.                               *)
(***************************************************************************)
EXTENDS Restore, TLAPS, WellFoundedInduction

Held(j) == Applying(j) \/ j.pc = "restored"

(* Nothing is dated after now.                                             *)
Dated ==
  /\ \A f \in files : f.ts <= now
  /\ \A a \in Apps, s \in Services : registry[a][s] <= now
  /\ \A w \in Workers : /\ Held(job[w]) => job[w].file.ts <= now
                        /\ job[w].since <= now

(* The definitions of an app's present life hold its present account.      *)
Genuine(f) ==
  LET secret == registry[f.app]["rabbitmq"]
  IN  f.svc = "rabbitmq" /\ ~f.suspect /\ secret # 0 /\ secret <= f.ts => f.secret = secret

Accounts ==
  /\ \A f \in files : Genuine(f)
  /\ \A w \in Workers : Held(job[w]) => Genuine(job[w].file)

(* What a restore will touch is registered, or was removed under it.       *)
Expected ==
  \A w \in Workers, a \in Apps, s \in Services :
    <<a, s>> \in Pending(job[w]) => registry[a][s] # 0 \/ <<a, s>> \in revived

(* The plan shown has, for every service asked for that the app had then   *)
(* and still has, the newest of the files that were there.                 *)
Prompted ==
  \A w \in Workers : LET j == job[w] IN
    j.pc = "prompt" =>
      /\ \A n \in j.shown : n.app = j.app
      /\ \A f \in files :
           /\ f.app = j.app /\ f.svc \in Chosen(j.app, j.asked)
           /\ registry[j.app][f.svc] <= j.since /\ f.ts <= j.since
           => \E n \in j.shown : n.svc = f.svc /\ f.ts <= n.ts

(***************************************************************************)
(* What a restore that nobody disturbs has done so far, item by item: what *)
(* is left to drop, or to fill where nothing is dropped, is as it was;     *)
(* what was dropped and is left to fill is empty, or as it was where psql  *)
(* went on after a DROP that failed; the rest is as promised.  Of half a   *)
(* file redis does nothing.                                                *)
(***************************************************************************)
Content(j) == live[Subject(j)][j.file.svc].items
Promised(j, i, c) == c[i] \in Snapshot(j.file.svc, i, j.before[i], j.file.items[i])
Dropping == {"postgres", "mongodb"}
Foreign(j) == j.file.svc = "mongodb" /\ j.file.app # j.app

Placed(j) ==
  Applying(j) => /\ j.drop \subseteq j.fill
                 /\ j.file.svc \notin Dropping => j.drop = {}
                 /\ j.file.svc # "aistor" => j.fill \subseteq InDump(j.file)

Progress(j, c) ==
  Applying(j) /\ j.quiet =>
    \A i \in Items :
      /\ j.file.svc = "mongodb" /\ i \in j.fill \ j.drop => c[i] = NoValue
      /\ j.file.svc = "postgres" /\ i \in j.fill => c[i] \in {NoValue, j.before[i]}
      /\ j.file.svc = "redis" /\ i \in j.fill => c[i] = j.before[i]
      /\ j.file.svc = "rabbitmq" => c[i] = j.before[i]
      /\ j.file.svc = "redis" /\ j.file.body # "whole" => c[i] = j.before[i]
      /\ ~Foreign(j) /\ j.file.svc # "rabbitmq" /\ i \notin j.fill => Promised(j, i, c)

Delivered(j, c) ==
  j.pc = "restored" /\ j.quiet /\ j.file.body = "whole" /\ ~Foreign(j) =>
    \A i \in Items : Promised(j, i, c)

Half(j, c) ==
  j.pc = "restored" /\ j.file.body # "whole" /\ j.file.svc # "postgres" =>
    /\ j.file.svc = "redis"
    /\ j.quiet => c = j.before

Course(j, c) == Placed(j) /\ Progress(j, c) /\ Delivered(j, c) /\ Half(j, c)
Courses == \A w \in Workers : Held(job[w]) => Course(job[w], Content(job[w]))

-----------------------------------------------------------------------------
(* Types.                                                                  *)
LEMMA NoValueType ==
  /\ NoValue \in Value /\ NoValues \in Values
  /\ \A v \in 1..MaxNow : Only(v) \in Value
  /\ \A v, d \in Value : Both(v, d) \in Value /\ Union(v, d) \in Value
<1>1. NoValue \in Value
  BY DEF NoValue, Value
<1>2. NoValues \in Values
  BY <1>1 DEF NoValues, Values
<1>3. \A v \in 1..MaxNow : Only(v) \in Value
  BY <1>1 DEF Only, Value
<1>4. \A v, d \in Value : Both(v, d) \in Value
  BY DEF Both, Value
<1>5. \A v, d \in Value : Union(v, d) \in Value
  BY DEF Union, Value
<1> QED
  BY <1>1, <1>2, <1>3, <1>4, <1>5

LEMMA BlankType == Blank \in Data
<1>1. 0 \in Time
  BY BoundsAssumption DEF Time
<1> QED
  BY <1>1, NoValueType DEF Blank, Data

(* What TypeOK says of a job besides its type.                             *)
Shape(j) ==
  /\ j.pc = "next" => j.plan # {}
  /\ j.app = NoApp => j.pc = "idle" /\ j.plan = {}
  /\ j.file # NoFile <=> Held(j)

LEMMA FileIsFile ==
  ASSUME NEW f \in File
  PROVE  f # NoFile
<1>1. f.svc # NoFile.svc
  BY ServicesAssumption DEF File, NoFile
<1> QED
  BY <1>1

LEMMA JobShape ==
  ASSUME TypeOK, NEW w \in Workers
  PROVE  /\ job[w] \in Job /\ Shape(job[w])
         /\ job[w].pc # "idle" => job[w].app \in Apps
         /\ Held(job[w]) => job[w].file \in File /\ Subject(job[w]) \in Apps
<1>1. job[w] \in Job /\ Shape(job[w])
  BY DEF TypeOK, Shape, Held
<1>2. job[w].pc # "idle" => job[w].app \in Apps
  BY <1>1 DEF Job, Shape
<1>3. Held(job[w]) => job[w].file \in File
  BY <1>1 DEF Job, Shape
<1>4. Held(job[w]) => Subject(job[w]) \in Apps
  BY <1>1, <1>2, <1>3 DEF Subject, Target, File, Held, Applying
<1> QED
  BY <1>1, <1>2, <1>3, <1>4

LEMMA IdleType == Idle \in Job /\ Shape(Idle) /\ Idle.plan = {} /\ ~Held(Idle)
<1>1. (CHOOSE r \in Requests : TRUE) \in Requests
  BY RequestsAssumption
<1>2. 0 \in Time
  BY BoundsAssumption DEF Time
<1> QED
  BY <1>1, <1>2, NoValueType DEF Idle, Job, Shape, Held, Applying

LEMMA ContinueType ==
  ASSUME NEW j \in Job, j.app \in Apps
  PROVE  Continue(j) \in Job /\ Shape(Continue(j)) /\ ~Held(Continue(j)) /\ Continue(j).pc # "prompt"
<1> DEFINE next == [Idle EXCEPT !.pc = "next", !.app = j.app, !.plan = j.plan]
<1>1. next \in Job /\ next.pc = "next" /\ next.app = j.app /\ next.plan = j.plan /\ next.file = NoFile
  BY IdleType DEF Job, Idle
<1>2. next.app # NoApp
  BY <1>1, AppsAssumption
<1>3. Idle.pc = "idle"
  BY DEF Idle
<1>4. Continue(j) = IF j.plan = {} THEN Idle ELSE next
  BY DEF Continue
<1> HIDE DEF next
<1> QED
  BY <1>1, <1>2, <1>3, <1>4, IdleType DEF Shape, Held, Applying

LEMMA OpenedType ==
  ASSUME TypeOK, NEW j \in Job, j.app \in Apps, NEW f \in File
  PROVE  /\ Opened(j, f) \in Job /\ Shape(Opened(j, f)) /\ Applying(Opened(j, f))
         /\ Opened(j, f).app = j.app /\ Opened(j, f).file = f /\ Opened(j, f).plan = j.plan \ {Name(f)}
         /\ Opened(j, f).since = j.since /\ Opened(j, f).quiet = j.quiet
         /\ Opened(j, f).before = live[Target(j, f)][f.svc].items
         /\ Opened(j, f).drop = Drops(f) \cap Fills(j, f) /\ Opened(j, f).fill = Fills(j, f)
<1>1. Target(j, f) \in Apps /\ f.svc \in Services
  BY DEF Target, File
<1>2. live[Target(j, f)][f.svc].items \in Values
  BY <1>1 DEF TypeOK, Data
<1>3. Fills(j, f) \in SUBSET Items
  BY DEF Fills, InDump
<1> DEFINE new == [j EXCEPT !.pc = IF f.svc = "aistor" THEN "make" ELSE "apply", !.file = f,
                            !.plan = @ \ {Name(f)},
                            !.before = live[Target(j, f)][f.svc].items,
                            !.drop = Drops(f) \cap Fills(j, f), !.fill = Fills(j, f)]
<1>4. /\ new \in Job /\ new.pc \in {"make", "apply"} /\ new.app = j.app /\ new.file = f
      /\ new.plan = j.plan \ {Name(f)} /\ new.since = j.since /\ new.quiet = j.quiet
      /\ new.before = live[Target(j, f)][f.svc].items
      /\ new.drop = Drops(f) \cap Fills(j, f) /\ new.fill = Fills(j, f)
  BY <1>2, <1>3 DEF Job
<1>5. new = Opened(j, f)
  BY DEF Opened
<1> HIDE DEF new
<1> QED
  BY <1>4, <1>5, AppsAssumption, FileIsFile DEF Shape, Held, Applying

LEMMA NotAloneType ==
  ASSUME NEW j \in Job
  PROVE  /\ NotAlone(j) \in Job /\ NotAlone(j).pc = j.pc /\ NotAlone(j).app = j.app
         /\ NotAlone(j).file = j.file /\ NotAlone(j).plan = j.plan /\ NotAlone(j).asked = j.asked
         /\ NotAlone(j).shown = j.shown /\ NotAlone(j).since = j.since
         /\ NotAlone(j).drop = j.drop /\ NotAlone(j).fill = j.fill /\ ~NotAlone(j).quiet
BY NoValueType DEF NotAlone, Job

(***************************************************************************)
(* The steps, by what they do to the other restores: one whose data is     *)
(* touched knows that it is not alone.                                     *)
(***************************************************************************)
Kept(v) ==
  \/ job'[v] = NotAlone(job[v])
  \/ /\ job'[v] = job[v]
     /\ Held(job[v]) => live'[Subject(job[v])][job[v].file.svc].items = Content(job[v])

LEMMA KeptShape ==
  ASSUME TypeOK, NEW v \in Workers, Kept(v)
  PROVE  /\ job'[v] \in Job /\ Shape(job'[v])
         /\ job'[v].pc = job[v].pc /\ job'[v].app = job[v].app /\ job'[v].file = job[v].file
         /\ job'[v].plan = job[v].plan /\ job'[v].asked = job[v].asked
         /\ job'[v].shown = job[v].shown /\ job'[v].since = job[v].since
         /\ job'[v].drop = job[v].drop /\ job'[v].fill = job[v].fill
BY JobShape, NotAloneType DEF Kept, Shape, Held, Applying

(* One restore goes on, nothing else happens to jobs or items.             *)
LEMMA GotoEffect ==
  ASSUME TypeOK, NEW w \in Workers, NEW j \in Job, Shape(j), Goto(w, j), live' = live
  PROVE  /\ job' \in [Workers -> Job] /\ job'[w] = j
         /\ \A v \in Workers : v # w => Kept(v)
         /\ \A v \in Workers : Shape(job'[v])
<1>1. job' = [job EXCEPT ![w] = j]
  BY DEF Goto
<1>2. job' \in [Workers -> Job] /\ job'[w] = j /\ \A v \in Workers : v # w => job'[v] = job[v]
  BY <1>1 DEF TypeOK
<1>3. \A v \in Workers : v # w => Kept(v)
  BY <1>2 DEF Kept, Content
<1> QED
  BY <1>2, <1>3, JobShape

LEMMA DisturbedEffect ==
  ASSUME TypeOK, NEW a \in Apps, NEW s \in Services,
         \A b \in Apps, t \in Services : <<b, t>> # <<a, s>> => live'[b][t].items = live[b][t].items
  PROVE  \A v \in Workers : job'[v] = Disturbed(a, s)[v] => Kept(v)
<1> SUFFICES ASSUME NEW v \in Workers, job'[v] = Disturbed(a, s)[v] PROVE Kept(v)
  OBVIOUS
<1>1. CASE At(job[v], a, s)
  BY <1>1 DEF Disturbed, Kept
<1>2. CASE ~At(job[v], a, s)
  <2>1. job'[v] = job[v]
    BY <1>2 DEF Disturbed
  <2>2. Held(job[v]) => /\ Subject(job[v]) \in Apps /\ job[v].file.svc \in Services
                       /\ <<Subject(job[v]), job[v].file.svc>> # <<a, s>>
    BY <1>2, JobShape DEF At, Held, File
  <2> QED
    BY <2>1, <2>2 DEF Kept, Content
<1> QED
  BY <1>1, <1>2

(* A command of a restore.                                                 *)
LEMMA PutEffect ==
  ASSUME TypeOK, NEW w \in Workers, Applying(job[w]), NEW values \in Data,
         NEW j \in Job, Shape(j), Put(w, values, j)
  PROVE  /\ live' \in [Apps -> [Services -> Data]]
         /\ live'[Subject(job[w])][job[w].file.svc] = values
         /\ \A b \in Apps, t \in Services :
              <<b, t>> # <<Subject(job[w]), job[w].file.svc>> => live'[b][t] = live[b][t]
         /\ job' \in [Workers -> Job] /\ job'[w] = j
         /\ \A v \in Workers : v # w => Kept(v)
         /\ \A v \in Workers : Shape(job'[v])
<1> DEFINE a == Subject(job[w])
           s == job[w].file.svc
<1>1. a \in Apps /\ s \in Services
  BY JobShape DEF Held, File
<1>2. live' = [live EXCEPT ![a][s] = values] /\ job' = [Disturbed(a, s) EXCEPT ![w] = j]
  BY DEF Put
<1> HIDE DEF a, s
<1>3. live' \in [Apps -> [Services -> Data]] /\ live'[a][s] = values
      /\ \A b \in Apps, t \in Services : <<b, t>> # <<a, s>> => live'[b][t] = live[b][t]
  BY <1>1, <1>2 DEF TypeOK
<1>4. job'[w] = j /\ \A v \in Workers : v # w => job'[v] = Disturbed(a, s)[v]
  BY <1>2 DEF Disturbed
<1>5. \A v \in Workers : v # w => Kept(v)
  BY <1>1, <1>3, <1>4, DisturbedEffect
<1>6. \A v \in Workers : job'[v] \in Job /\ Shape(job'[v])
  BY <1>4, <1>5, KeptShape
<1>7. job' = [v \in Workers |-> job'[v]]
  BY <1>2 DEF Disturbed
<1>8. job' \in [Workers -> Job]
  BY <1>6, <1>7
<1> QED
  BY <1>3, <1>4, <1>5, <1>6, <1>8 DEF a, s

LEMMA TypeOKFrom ==
  ASSUME now' \in Time, registry' \in [Apps -> [Services -> Time]],
         live' \in [Apps -> [Services -> Data]], files' \subseteq File,
         job' \in [Workers -> Job], restores' \in 0..MaxRestores, stale' \subseteq Apps,
         revived' \subseteq Apps \X Services, \A w \in Workers : Shape(job'[w])
  PROVE  TypeOK'
BY DEF TypeOK, Shape, Held, Applying

LEMMA KeptTypes ==
  ASSUME TypeOK, \A v \in Workers : Kept(v), job' = [v \in Workers |-> job'[v]]
  PROVE  job' \in [Workers -> Job] /\ \A v \in Workers : Shape(job'[v])
<1>1. \A v \in Workers : job'[v] \in Job /\ Shape(job'[v])
  BY KeptShape
<1> QED
  BY <1>1

LEMMA SameJobs ==
  ASSUME TypeOK, job' = job,
         \A a \in Apps, s \in Services : live'[a][s].items = live[a][s].items
  PROVE  \A v \in Workers : Kept(v)
BY JobShape DEF Kept, Content, File

LEMMA NowType ==
  ASSUME now \in Time, now < MaxNow
  PROVE  now + 1 \in Time /\ now + 1 \in 1..MaxNow
BY BoundsAssumption DEF Time

LEMMA SetupTypes == ASSUME TypeOK, SetupApp PROVE TypeOK' /\ \A v \in Workers : Kept(v)
<1>1. PICK a \in Apps, S \in Setups :
        /\ now < MaxNow /\ now' = now + 1
        /\ registry' = [registry EXCEPT ![a] = [s \in Services |-> IF s \in S THEN now' ELSE 0]]
        /\ live' = [live EXCEPT ![a] = [s \in Services |->
             IF s \in S THEN [@[s] EXCEPT !.store = TRUE, !.secret = now'] ELSE @[s]]]
        /\ UNCHANGED <<files, job, restores, stale, revived>>
  BY DEF SetupApp
<1>2. now' \in Time /\ 0 \in Time
  <2>1. now' \in Time
    BY <1>1, NowType DEF TypeOK
  <2> QED
    BY <2>1, BoundsAssumption DEF Time
<1>3. registry' \in [Apps -> [Services -> Time]]
  BY <1>1, <1>2 DEF TypeOK
<1>4. ASSUME NEW b \in Apps, NEW s \in Services
      PROVE  /\ live'[b][s] \in Data
             /\ live'[b][s].items = live[b][s].items
  <2>1. live[b][s] \in Data /\ live[a][s] \in Data
    BY DEF TypeOK
  <2>2. live'[b][s] = live[b][s]
        \/ live'[b][s] = [live[b][s] EXCEPT !.store = TRUE, !.secret = now']
    BY <1>1 DEF TypeOK
  <2> QED
    BY <1>2, <2>1, <2>2 DEF Data
<1>5. live' = [b \in Apps |-> [s \in Services |-> live'[b][s]]]
  BY <1>1 DEF TypeOK
<1>6. live' \in [Apps -> [Services -> Data]]
  BY <1>4, <1>5
<1>7. \A v \in Workers : Kept(v)
  BY <1>1, <1>4, SameJobs
<1> QED
  BY <1>1, <1>2, <1>3, <1>6, <1>7, TypeOKFrom, JobShape DEF TypeOK

(* Pending as a relation.                                                  *)
Awaits(j, a, s) ==
  \/ \E n \in j.plan : Target(j, n) = a /\ n.svc = s
  \/ Applying(j) /\ Subject(j) = a /\ j.file.svc = s

LEMMA PendingIsAwaited ==
  ASSUME NEW j, NEW a, NEW s
  PROVE  <<a, s>> \in Pending(j) <=> Awaits(j, a, s)
BY DEF Pending, Awaits, Subject

LEMMA PendingType ==
  ASSUME NEW j \in Job, Shape(j)
  PROVE  Pending(j) \subseteq Apps \X Services
<1>1. ASSUME NEW n \in j.plan PROVE <<Target(j, n), n.svc>> \in Apps \X Services
  <2>1. n.app \in Apps /\ n.svc \in Services
    BY DEF Job, Names
  <2>2. j.app \in Apps
    BY DEF Job, Shape
  <2>3. Target(j, n) \in Apps
    BY <2>1, <2>2 DEF Target
  <2> QED
    BY <2>1, <2>3
<1>2. ASSUME Applying(j) PROVE <<Target(j, j.file), j.file.svc>> \in Apps \X Services
  BY <1>2 DEF Target, File, Job, Shape, Held, Applying
<1> QED
  BY <1>1, <1>2 DEF Pending

LEMMA RemoveEffect ==
  ASSUME TypeOK, RemoveApp
  PROVE  \E a \in Apps :
           /\ registry' = [registry EXCEPT ![a] = [s \in Services |-> 0]]
           /\ \A s \in Services : live'[a][s] = IF registry[a][s] # 0 THEN Blank ELSE live[a][s]
           /\ \A b \in Apps : b # a => live'[b] = live[b]
           /\ live' = [b \in Apps |-> [s \in Services |-> live'[b][s]]]
           /\ job' = [w \in Workers |-> job'[w]]
           /\ \A w \in Workers : job'[w] =
                IF \E s \in Services : registry[a][s] # 0 /\ At(job[w], a, s)
                THEN NotAlone(job[w]) ELSE job[w]
           /\ revived' \subseteq revived \cup UNION {Pending(job[w]) : w \in Workers}
           /\ \A b \in Apps, s \in Services :
                <<b, s>> \in revived' <=>
                  IF b = a /\ registry[a][s] # 0
                  THEN \E w \in Workers : <<b, s>> \in Pending(job[w])
                  ELSE <<b, s>> \in revived
           /\ stale' = stale \ {a}
           /\ UNCHANGED <<now, files, restores>>
<1>1. PICK a \in Apps :
        LET gone == {<<a, s>> : s \in ServicesOf(a)}
        IN  /\ gone # {}
            /\ registry' = [registry EXCEPT ![a] = [s \in Services |-> 0]]
            /\ live' = [live EXCEPT ![a] = [s \in Services |->
                          IF <<a, s>> \in gone THEN Blank ELSE @[s]]]
            /\ job' = [w \in Workers |->
                         IF \E s \in Services : <<a, s>> \in gone /\ At(job[w], a, s)
                         THEN NotAlone(job[w]) ELSE job[w]]
            /\ revived' = (revived \ gone)
                            \cup (gone \cap UNION {Pending(job[w]) : w \in Workers})
            /\ stale' = stale \ {a}
            /\ UNCHANGED <<now, files, restores>>
  BY DEF RemoveApp
<1> DEFINE gone == {<<a, s>> : s \in ServicesOf(a)}
<1>2. \A b, s : s \in Services => (<<b, s>> \in gone <=> b = a /\ registry[a][s] # 0)
  BY DEF ServicesOf
<1>3. /\ registry' = [registry EXCEPT ![a] = [s \in Services |-> 0]]
      /\ live' = [live EXCEPT ![a] = [s \in Services |->
                    IF <<a, s>> \in gone THEN Blank ELSE @[s]]]
      /\ job' = [w \in Workers |->
                   IF \E s \in Services : <<a, s>> \in gone /\ At(job[w], a, s)
                   THEN NotAlone(job[w]) ELSE job[w]]
      /\ revived' = (revived \ gone)
                      \cup (gone \cap UNION {Pending(job[w]) : w \in Workers})
      /\ stale' = stale \ {a}
      /\ UNCHANGED <<now, files, restores>>
  BY <1>1
<1> HIDE DEF gone
<1>4. /\ \A s \in Services : live'[a][s] = IF registry[a][s] # 0 THEN Blank ELSE live[a][s]
      /\ \A b \in Apps : b # a => live'[b] = live[b]
      /\ live' = [b \in Apps |-> [s \in Services |-> live'[b][s]]]
  BY <1>2, <1>3 DEF TypeOK
<1>5. \A w \in Workers : job'[w] =
                IF \E s \in Services : registry[a][s] # 0 /\ At(job[w], a, s)
                THEN NotAlone(job[w]) ELSE job[w]
  BY <1>2, <1>3
<1>6. \A b \in Apps, s \in Services :
                <<b, s>> \in revived' <=>
                  IF b = a /\ registry[a][s] # 0
                  THEN \E w \in Workers : <<b, s>> \in Pending(job[w])
                  ELSE <<b, s>> \in revived
  BY <1>2, <1>3
<1>7. job' = [w \in Workers |-> job'[w]]
  BY <1>3
<1>8. revived' \subseteq revived \cup UNION {Pending(job[w]) : w \in Workers}
  BY <1>3
<1> WITNESS a \in Apps
<1> QED
  BY <1>3, <1>4, <1>5, <1>6, <1>7, <1>8

LEMMA RemoveTypes == ASSUME TypeOK, RemoveApp PROVE TypeOK' /\ \A v \in Workers : Kept(v)
<1>1. PICK a \in Apps :
           /\ registry' = [registry EXCEPT ![a] = [s \in Services |-> 0]]
           /\ \A s \in Services : live'[a][s] = IF registry[a][s] # 0 THEN Blank ELSE live[a][s]
           /\ \A b \in Apps : b # a => live'[b] = live[b]
           /\ live' = [b \in Apps |-> [s \in Services |-> live'[b][s]]]
           /\ job' = [w \in Workers |-> job'[w]]
           /\ \A w \in Workers : job'[w] =
                IF \E s \in Services : registry[a][s] # 0 /\ At(job[w], a, s)
                THEN NotAlone(job[w]) ELSE job[w]
           /\ revived' \subseteq revived \cup UNION {Pending(job[w]) : w \in Workers}
           /\ stale' = stale \ {a}
           /\ UNCHANGED <<now, files, restores>>
  BY RemoveEffect
<1>2. registry' \in [Apps -> [Services -> Time]]
  BY <1>1, BoundsAssumption DEF TypeOK, Time
<1>3. \A b \in Apps, s \in Services : live'[b][s] \in Data
  <2>1. \A b \in Apps, s \in Services : live'[b][s] = live[b][s] \/ live'[b][s] = Blank
    BY <1>1
  <2> QED
    BY <2>1, BlankType DEF TypeOK
<1>4. live' \in [Apps -> [Services -> Data]]
  BY <1>1, <1>3
<1>5. ASSUME NEW v \in Workers PROVE Kept(v)
  <2>1. CASE \E s \in Services : registry[a][s] # 0 /\ At(job[v], a, s)
    BY <1>1, <2>1 DEF Kept
  <2>2. CASE ~\E s \in Services : registry[a][s] # 0 /\ At(job[v], a, s)
    <3>1. job'[v] = job[v]
      BY <1>1, <2>2
    <3>2. ASSUME Held(job[v])
          PROVE  live'[Subject(job[v])][job[v].file.svc].items = Content(job[v])
      <4>1. Subject(job[v]) \in Apps /\ job[v].file.svc \in Services
        BY <3>2, JobShape DEF File
      <4>2. Subject(job[v]) = a => registry[a][job[v].file.svc] = 0
        BY <2>2, <3>2, <4>1 DEF At, Held
      <4> QED
        BY <1>1, <4>1, <4>2 DEF Content
    <3> QED
      BY <3>1, <3>2 DEF Kept
  <2> QED
    BY <2>1, <2>2
<1>6. revived' \subseteq Apps \X Services
  BY <1>1, JobShape, PendingType DEF TypeOK
<1>7. job' \in [Workers -> Job] /\ \A v \in Workers : Shape(job'[v])
  BY <1>1, <1>5, KeptTypes
<1> QED
  BY <1>1, <1>2, <1>4, <1>5, <1>6, <1>7, TypeOKFrom DEF TypeOK

LEMMA ReconcileEffect ==
  ASSUME TypeOK, Reconcile
  PROVE  /\ live' \in [Apps -> [Services -> Data]]
         /\ \A a \in Apps, s \in Services :
              /\ live'[a][s].items = live[a][s].items
              /\ registry[a][s] = 0 => live'[a][s] = live[a][s]
              /\ registry[a][s] # 0 /\ Usable(a, s) => Usable(a, s)'
              /\ registry[a][s] # 0 /\ s = "rabbitmq" => Usable(a, s)'
         /\ stale' = {}
         /\ UNCHANGED <<now, registry, files, job, restores, revived>>
<1>1. /\ live' = [a \in Apps |-> [s \in Services |->
               IF registry[a][s] # 0 /\ s \in Ensured
               THEN [live[a][s] EXCEPT !.store = TRUE, !.secret = registry[a][s]]
               ELSE live[a][s]]]
      /\ stale' = {} /\ UNCHANGED <<now, registry, files, job, restores, revived>>
  BY DEF Reconcile
<1>2. ASSUME NEW a \in Apps, NEW s \in Services
      PROVE  /\ live'[a][s] \in Data
             /\ live'[a][s].items = live[a][s].items
             /\ registry[a][s] = 0 => live'[a][s] = live[a][s]
             /\ registry[a][s] # 0 /\ Usable(a, s) => Usable(a, s)'
             /\ registry[a][s] # 0 /\ s = "rabbitmq" => Usable(a, s)'
  <2>1. live[a][s] \in Data /\ registry[a][s] \in Time /\ registry' = registry
    BY <1>1 DEF TypeOK
  <2>2. CASE registry[a][s] # 0 /\ s \in Ensured
    <3>1. live'[a][s] = [live[a][s] EXCEPT !.store = TRUE, !.secret = registry[a][s]]
      BY <1>1, <2>2
    <3> QED
      BY <2>1, <2>2, <3>1 DEF Data, Usable
  <2>3. CASE ~(registry[a][s] # 0 /\ s \in Ensured)
    BY <1>1, <2>1, <2>3 DEF Usable, Ensured
  <2> QED
    BY <2>2, <2>3
<1>3. live' \in [Apps -> [Services -> Data]]
  <2>1. live' = [a \in Apps |-> [s \in Services |-> live'[a][s]]]
    BY <1>1
  <2> QED
    BY <1>2, <2>1
<1> QED
  BY <1>1, <1>2, <1>3

LEMMA WritesEffect ==
  ASSUME TypeOK, AppWrites
  PROVE  \E a \in Apps, s \in Services :
           /\ registry[a][s] # 0 /\ now < MaxNow /\ now' = now + 1
           /\ live' \in [Apps -> [Services -> Data]]
           /\ live'[a][s].store = live[a][s].store /\ live'[a][s].secret = live[a][s].secret
           /\ \A b \in Apps, t \in Services : <<b, t>> # <<a, s>> => live'[b][t] = live[b][t]
           /\ job' = Disturbed(a, s)
           /\ UNCHANGED <<registry, files, restores, stale, revived>>
<1>1. PICK a \in Apps, s \in Services, i \in Items :
        /\ now < MaxNow /\ registry[a][s] # 0 /\ now' = now + 1
        /\ live' = [live EXCEPT ![a][s].items[i] =
             IF s = "redis" /\ RedisType[i] = "list" THEN Both(@, Only(now')) ELSE Only(now')]
        /\ job' = Disturbed(a, s)
        /\ UNCHANGED <<registry, files, restores, stale, revived>>
  BY DEF AppWrites
<1>2. live[a][s] \in Data /\ live[a][s].items \in Values /\ live[a][s].items[i] \in Value
  BY DEF TypeOK, Data, Values
<1> DEFINE v == IF s = "redis" /\ RedisType[i] = "list" THEN Both(live[a][s].items[i], Only(now'))
                ELSE Only(now')
           items == [live[a][s].items EXCEPT ![i] = v]
           data == [live[a][s] EXCEPT !.items = items]
<1>3. v \in Value
  BY <1>1, <1>2, NowType, NoValueType DEF TypeOK
<1>4. live' = [live EXCEPT ![a][s].items[i] = v]
  BY <1>1 DEF TypeOK, Data, Values
<1> HIDE DEF v
<1>5. items \in Values
  BY <1>2, <1>3 DEF Values
<1>6. data \in Data /\ data.store = live[a][s].store /\ data.secret = live[a][s].secret
  BY <1>2, <1>5 DEF Data
<1>7. live' = [live EXCEPT ![a][s] = data]
  BY <1>2, <1>4 DEF TypeOK, Data, Values
<1> HIDE DEF data
<1>8. live' \in [Apps -> [Services -> Data]] /\ live'[a][s] = data
      /\ \A b \in Apps, t \in Services : <<b, t>> # <<a, s>> => live'[b][t] = live[b][t]
  BY <1>6, <1>7 DEF TypeOK
<1> QED
  BY <1>1, <1>6, <1>8

LEMMA LifeTypes ==
  ASSUME TypeOK, SetupApp \/ RemoveApp \/ Reconcile \/ AppWrites
  PROVE  TypeOK' /\ \A v \in Workers : Kept(v)
<1>1. CASE Reconcile
  <2>1. \A v \in Workers : Kept(v)
    BY <1>1, ReconcileEffect, SameJobs
  <2> QED
    BY <1>1, <2>1, ReconcileEffect, TypeOKFrom, JobShape DEF TypeOK
<1>2. CASE AppWrites
  <2>1. PICK a \in Apps, s \in Services :
           /\ now < MaxNow /\ now' = now + 1
           /\ live' \in [Apps -> [Services -> Data]]
           /\ \A b \in Apps, t \in Services : <<b, t>> # <<a, s>> => live'[b][t] = live[b][t]
           /\ job' = Disturbed(a, s)
           /\ UNCHANGED <<registry, files, restores, stale, revived>>
    BY <1>2, WritesEffect
  <2>2. \A v \in Workers : Kept(v)
    BY <2>1, DisturbedEffect
  <2>3. job' = [v \in Workers |-> job'[v]]
    BY <2>1 DEF Disturbed
  <2> QED
    BY <2>1, <2>2, <2>3, KeptTypes, TypeOKFrom, NowType DEF TypeOK
<1> QED
  BY <1>1, <1>2, SetupTypes, RemoveTypes

-----------------------------------------------------------------------------
(***************************************************************************)
(* The steps of a backup and the deletion of files leave all else alone.   *)
(* A file stays the same but for its body.                                 *)
(***************************************************************************)
Same(f, g) ==
  /\ f.app = g.app /\ f.svc = g.svc /\ f.ts = g.ts
  /\ f.items = g.items /\ f.secret = g.secret /\ f.suspect = g.suspect

FileStep == OpenDump \/ CloseDump \/ DumpFails \/ DumpKilled \/ DeleteFile

LEMMA OpenDumpEffect ==
  ASSUME TypeOK, OpenDump
  PROVE  \E g \in File :
           /\ files' = files \cup {g} /\ g.ts = now' /\ now' = now + 1 /\ now < MaxNow
           /\ registry[g.app][g.svc] # 0
           /\ g.svc = "rabbitmq" => g.secret = live[g.app]["rabbitmq"].secret
           /\ g.suspect = (g.app \in stale)
           /\ UNCHANGED <<registry, live, job, restores, stale, revived>>
<1>1. PICK a \in Apps, s \in Services :
        /\ now < MaxNow /\ registry[a][s] # 0
        /\ now' = now + 1
        /\ files' = files \cup
             {[app |-> a, svc |-> s, ts |-> now', body |-> "open", items |-> live[a][s].items,
               secret |-> IF s = "rabbitmq" THEN live[a][s].secret ELSE 0,
               suspect |-> a \in stale]}
        /\ UNCHANGED <<registry, live, job, restores, stale, revived>>
  BY DEF OpenDump
<1> DEFINE secret == IF s = "rabbitmq" THEN live[a][s].secret ELSE 0
           suspect == a \in stale
           g == [app |-> a, svc |-> s, ts |-> now', body |-> "open", items |-> live[a][s].items,
                 secret |-> secret, suspect |-> suspect]
<1>2. live[a][s].items \in Values /\ secret \in Time
  BY BoundsAssumption DEF TypeOK, Data, Time
<1>3. now' \in Time
  BY <1>1, NowType DEF TypeOK
<1>4. suspect \in BOOLEAN
  OBVIOUS
<1>5. files' = files \cup {g}
  BY <1>1
<1>6. s = "rabbitmq" => secret = live[a]["rabbitmq"].secret
  OBVIOUS
<1> HIDE DEF secret
<1>7. suspect = (a \in stale)
  OBVIOUS
<1> HIDE DEF suspect
<1>8. g \in File /\ g.ts = now' /\ g.app = a /\ g.svc = s /\ g.secret = secret
      /\ g.suspect = suspect
  BY <1>2, <1>3, <1>4 DEF File
<1> HIDE DEF g
<1>9. registry[g.app][g.svc] # 0
  BY <1>1, <1>8
<1>10. g.svc = "rabbitmq" => g.secret = live[g.app]["rabbitmq"].secret
  BY <1>6, <1>8
<1>11. g.suspect = (g.app \in stale)
  BY <1>7, <1>8
<1> QED
  BY <1>1, <1>5, <1>8, <1>9, <1>10, <1>11

LEMMA BecameEffect ==
  ASSUME TypeOK, NEW f \in files, NEW body \in {"whole", "partial"}, files' = Became(f, body)
  PROVE  /\ files' \subseteq File
         /\ \A g \in files' : \E h \in files : Same(g, h)
         /\ \A h \in files : \E g \in files' : Same(g, h)
<1> DEFINE g == [f EXCEPT !.body = body]
<1>1. f \in File
  BY DEF TypeOK
<1>2. g \in File /\ Same(g, f)
  BY <1>1 DEF File, Same
<1>3. files' = (files \ {f}) \cup {g}
  BY DEF Became
<1> HIDE DEF g
<1>4. \A h : Same(h, h)
  BY DEF Same
<1> QED
  BY <1>2, <1>3, <1>4 DEF TypeOK

LEMMA FileTypes ==
  ASSUME TypeOK, FileStep
  PROVE  TypeOK' /\ \A v \in Workers : Kept(v)
<1>1. job' = job /\ live' = live /\ UNCHANGED <<registry, restores, stale, revived>>
  BY OpenDumpEffect DEF FileStep, CloseDump, DumpFails, DumpKilled, DeleteFile
<1>2. \A v \in Workers : Kept(v)
  BY <1>1 DEF Kept, Content
<1>3. now' \in Time
  BY OpenDumpEffect, NowType DEF FileStep, CloseDump, DumpFails, DumpKilled, DeleteFile, TypeOK
<1>4. files' \subseteq File
  <2>1. CASE OpenDump
    BY <2>1, OpenDumpEffect DEF TypeOK
  <2>2. CASE CloseDump \/ DumpKilled
    BY <2>2, BecameEffect DEF CloseDump, DumpKilled
  <2>3. CASE DumpFails \/ DeleteFile
    BY <2>3 DEF DumpFails, DeleteFile, TypeOK
  <2> QED
    BY <2>1, <2>2, <2>3 DEF FileStep
<1> QED
  BY <1>1, <1>2, <1>3, <1>4, TypeOKFrom, JobShape DEF TypeOK

(* No file is changed, added or forgotten, or one is added by a backup, or *)
(* one is deleted.                                                         *)
LEMMA FileEffect ==
  ASSUME TypeOK, CloseDump \/ DumpFails \/ DumpKilled \/ DeleteFile
  PROVE  /\ \A g \in files' : \E h \in files : Same(g, h)
         /\ UNCHANGED <<now, registry, live, job, restores, stale, revived>>
<1>1. CASE CloseDump \/ DumpKilled
  BY <1>1, BecameEffect DEF CloseDump, DumpKilled
<1>2. CASE DumpFails \/ DeleteFile
  BY <1>2 DEF DumpFails, DeleteFile, Same
<1> QED
  BY <1>1, <1>2

-----------------------------------------------------------------------------
(***************************************************************************)
(* The steps of a restore.                                                 *)
(***************************************************************************)
LEMMA GotoTypes ==
  ASSUME TypeOK, NEW w \in Workers, NEW j \in Job, Shape(j), Goto(w, j),
         UNCHANGED <<now, registry, live, files, stale>>,
         restores' \in 0..MaxRestores, revived' \subseteq Apps \X Services
  PROVE  TypeOK' /\ job'[w] = j /\ \A v \in Workers : v # w => Kept(v)
BY GotoEffect, TypeOKFrom DEF TypeOK

LEMMA PlanType ==
  ASSUME TypeOK, NEW a, NEW S
  PROVE  Plan(a, S) \in SUBSET Names
<1>1. ASSUME NEW n \in Plan(a, S) PROVE n \in Names
  <2>1. PICK f \in files : n = Name(f)
    BY DEF Plan, Latest
  <2>2. f \in File
    BY DEF TypeOK
  <2> QED
    BY <2>1, <2>2 DEF Name, File, Names
<1> QED
  BY <1>1

LEMMA PlanSetType ==
  ASSUME NEW j \in Job, NEW P \in SUBSET Names
  PROVE  /\ [j EXCEPT !.plan = P] \in Job /\ [j EXCEPT !.plan = P].app = j.app
         /\ [j EXCEPT !.plan = P].plan = P
BY DEF Job

LEMMA ShowPlanTypes ==
  ASSUME TypeOK, NEW w \in Workers, ShowPlan(w)
  PROVE  /\ TypeOK' /\ \A v \in Workers : v # w => Kept(v)
         /\ ~Held(job'[w]) /\ job'[w].pc = "prompt" /\ job'[w].since = now
         /\ job'[w].plan = {}
         /\ job'[w].shown = Plan(job'[w].app, job'[w].asked)
<1>1. PICK a \in Apps, S \in Requests :
        /\ restores < MaxRestores /\ restores' = restores + 1
        /\ Goto(w, [Idle EXCEPT !.pc = "prompt", !.app = a, !.asked = S, !.shown = Plan(a, S),
                                !.since = now])
        /\ UNCHANGED <<now, registry, live, files, stale, revived>>
  BY DEF ShowPlan
<1> DEFINE j == [Idle EXCEPT !.pc = "prompt", !.app = a, !.asked = S, !.shown = Plan(a, S),
                             !.since = now]
<1>2. /\ j \in Job /\ j.pc = "prompt" /\ j.app = a /\ j.asked = S /\ j.shown = Plan(a, S)
      /\ j.since = now /\ j.plan = Idle.plan /\ j.file = Idle.file
  BY PlanType, IdleType DEF TypeOK, Job
<1>3. Goto(w, j)
  BY <1>1
<1> HIDE DEF j
<1>4. j.file = NoFile /\ j.plan = {}
  BY <1>2 DEF Idle
<1>5. Shape(j) /\ ~Held(j)
  BY <1>2, <1>4, AppsAssumption DEF Shape, Held, Applying
<1>6. restores' \in 0..MaxRestores
  BY <1>1, BoundsAssumption DEF TypeOK
<1>7. TypeOK' /\ job'[w] = j /\ \A v \in Workers : v # w => Kept(v)
  BY <1>1, <1>2, <1>3, <1>5, <1>6, GotoTypes DEF TypeOK
<1> QED
  BY <1>2, <1>4, <1>5, <1>7

(* The end of one service, or of the restore.                              *)
Ends(w) == Confirm(w) \/ SkipService(w) \/ RestoreFails(w) \/ Restored(w) \/ Stop(w)

LEMMA EndsTypes ==
  ASSUME TypeOK, NEW w \in Workers, Ends(w)
  PROVE  /\ TypeOK' /\ \A v \in Workers : v # w => Kept(v)
         /\ ~Held(job'[w]) /\ job'[w].pc # "prompt" /\ job'[w].since = 0
         /\ UNCHANGED <<now, registry, live, files, restores, stale, revived>>
<1>1. UNCHANGED <<now, registry, live, files, restores, stale, revived>>
  BY DEF Ends, Confirm, SkipService, RestoreFails, Restored, Stop
<1>2. job[w] \in Job
  BY JobShape
<1>3. \A j \in Job : Continue(j).since = 0
  BY DEF Continue, Idle
<1>4. ASSUME NEW j \in Job, j.app \in Apps, Goto(w, Continue(j))
      PROVE  /\ TypeOK' /\ \A v \in Workers : v # w => Kept(v)
             /\ ~Held(job'[w]) /\ job'[w].pc # "prompt" /\ job'[w].since = 0
  BY <1>1, <1>3, <1>4, ContinueType, GotoTypes DEF TypeOK
<1>5. CASE Confirm(w)
  <2>1. job[w].app \in Apps /\ PlanAgain(job[w]) \in SUBSET Names
    BY <1>5, JobShape, PlanType DEF Confirm, PlanAgain
  <2> QED
    BY <1>1, <1>2, <1>4, <1>5, <2>1, PlanSetType DEF Confirm
<1>6. CASE SkipService(w)
  <2>1. PICK n \in job[w].plan : Goto(w, Continue([job[w] EXCEPT !.plan = @ \ {n}]))
    BY <1>6 DEF SkipService
  <2>2. job[w].app \in Apps /\ job[w].plan \ {n} \in SUBSET Names
    BY <1>6, JobShape DEF SkipService, Job
  <2>3. [job[w] EXCEPT !.plan = @ \ {n}] = [job[w] EXCEPT !.plan = job[w].plan \ {n}]
    BY <1>2 DEF Job
  <2> QED
    BY <1>1, <1>2, <1>4, <2>1, <2>2, <2>3, PlanSetType
<1>7. CASE RestoreFails(w) \/ Restored(w)
  BY <1>1, <1>2, <1>4, <1>7, JobShape DEF RestoreFails, Restored, Applying
<1>8. CASE Stop(w)
  <2>1. Goto(w, Idle) /\ Idle.since = 0 /\ Idle.pc = "idle"
    BY <1>8 DEF Stop, Idle
  <2> QED
    BY <1>1, <2>1, IdleType, GotoTypes DEF TypeOK
<1> QED
  BY <1>1, <1>5, <1>6, <1>7, <1>8 DEF Ends

(* A file is opened, one of the plan or the one asked for.                 *)
LEMMA OpenFileTypes ==
  ASSUME TypeOK, NEW w \in Workers, OpenFile(w)
  PROVE  /\ TypeOK' /\ \A v \in Workers : v # w => Kept(v)
         /\ \E f \in files : Name(f) \in job[w].plan /\ job'[w] = Opened(job[w], f)
         /\ job[w].app \in Apps
         /\ UNCHANGED <<now, registry, live, files, restores, stale, revived>>
<1>1. PICK f \in files : Name(f) \in job[w].plan /\ Goto(w, Opened(job[w], f))
  BY DEF OpenFile
<1>2. UNCHANGED <<now, registry, live, files, restores, stale, revived>>
  BY DEF OpenFile
<1>3. f \in File /\ job[w] \in Job /\ job[w].app \in Apps
  BY JobShape DEF TypeOK, OpenFile
<1>4. Opened(job[w], f) \in Job /\ Shape(Opened(job[w], f))
  BY <1>3, OpenedType
<1> QED
  BY <1>1, <1>2, <1>3, <1>4, GotoTypes DEF TypeOK

LEMMA RestoreFromFileTypes ==
  ASSUME TypeOK, NEW w \in Workers, RestoreFromFile(w)
  PROVE  /\ TypeOK' /\ \A v \in Workers : v # w => Kept(v)
         /\ \E a \in Apps, f \in files :
              /\ job'[w] = Opened([Idle EXCEPT !.app = a], f)
              /\ revived' = revived \cup {p \in Pending(job'[w]) : registry[p[1]][p[2]] = 0}
         /\ UNCHANGED <<now, registry, live, files, stale>>
<1>1. PICK a \in Apps, f \in files :
        LET j == Opened([Idle EXCEPT !.app = a], f)
        IN  /\ restores < MaxRestores
            /\ restores' = restores + 1
            /\ Goto(w, j)
            /\ revived' = revived \cup {p \in Pending(j) : registry[p[1]][p[2]] = 0}
  BY DEF RestoreFromFile
<1>2. UNCHANGED <<now, registry, live, files, stale>>
  BY DEF RestoreFromFile
<1> DEFINE j == Opened([Idle EXCEPT !.app = a], f)
<1>3. f \in File /\ [Idle EXCEPT !.app = a] \in Job /\ [Idle EXCEPT !.app = a].app \in Apps
  BY IdleType DEF TypeOK, Job
<1>4. j \in Job /\ Shape(j)
  BY <1>3, OpenedType
<1>5. /\ restores < MaxRestores /\ restores' = restores + 1 /\ Goto(w, j)
      /\ revived' = revived \cup {p \in Pending(j) : registry[p[1]][p[2]] = 0}
  BY <1>1
<1>6. job'[w] = j
  BY <1>2, <1>4, <1>5, GotoEffect
<1>7. job'[w] = Opened([Idle EXCEPT !.app = a], f)
  BY <1>6
<1> HIDE DEF j
<1>8. revived' \subseteq Apps \X Services
  BY <1>4, <1>5, PendingType DEF TypeOK
<1>9. restores' \in 0..MaxRestores
  BY <1>5, BoundsAssumption DEF TypeOK
<1>10. TypeOK' /\ \A v \in Workers : v # w => Kept(v)
  BY <1>2, <1>4, <1>5, <1>8, <1>9, GotoTypes
<1> QED
  BY <1>2, <1>5, <1>6, <1>7, <1>10

(* The same restore, further on.                                           *)
SameRestore(j, k) ==
  /\ j.app = k.app /\ j.file = k.file /\ j.plan = k.plan /\ j.since = k.since
  /\ j.quiet = k.quiet /\ j.before = k.before

LEMMA SucceedsTypes ==
  ASSUME TypeOK, NEW w \in Workers, Succeeds(w)
  PROVE  /\ TypeOK' /\ \A v \in Workers : v # w => Kept(v)
         /\ SameRestore(job'[w], job[w]) /\ job'[w].pc = "restored"
         /\ UNCHANGED <<now, registry, live, files, restores, stale, revived>>
<1> DEFINE j == [job[w] EXCEPT !.pc = "restored"]
<1>1. Goto(w, j) /\ UNCHANGED <<now, registry, live, files, restores, stale, revived>>
  BY DEF Succeeds
<1>2. job[w] \in Job /\ Shape(job[w]) /\ Held(job[w]) /\ job[w].app \in Apps
  BY JobShape DEF Succeeds, Held, Applying
<1>3. j \in Job /\ SameRestore(j, job[w]) /\ j.pc = "restored"
  BY <1>2 DEF Job, SameRestore
<1> HIDE DEF j
<1>4. Shape(j)
  BY <1>2, <1>3, AppsAssumption DEF Shape, Held, Applying, SameRestore
<1> QED
  BY <1>1, <1>3, <1>4, GotoTypes DEF TypeOK

(* A command changes one item of the subject, or makes its bucket.         *)
Command(w) == MakeBucket(w) \/ Drop(w) \/ Fill(w) \/ Import(w)

LEMMA PutTypes ==
  ASSUME TypeOK, NEW w \in Workers, Applying(job[w]), NEW values \in Data,
         NEW j \in Job, SameRestore(j, job[w]), Held(j), Put(w, values, j),
         stale' \subseteq Apps
  PROVE  /\ TypeOK' /\ \A v \in Workers : v # w => Kept(v)
         /\ job'[w] = j
         /\ live'[Subject(job[w])][job[w].file.svc] = values
         /\ \A b \in Apps, t \in Services :
              <<b, t>> # <<Subject(job[w]), job[w].file.svc>> => live'[b][t] = live[b][t]
         /\ UNCHANGED <<now, registry, files, restores, revived>>
<1>1. job[w] \in Job /\ Shape(job[w]) /\ Held(job[w]) /\ job[w].app \in Apps
  BY JobShape DEF Held, Applying
<1>2. Shape(j)
  BY <1>1, AppsAssumption DEF Shape, SameRestore, Held, Applying
<1>3. UNCHANGED <<now, registry, files, restores, revived>>
  BY DEF Put
<1> QED
  BY <1>2, <1>3, PutEffect, TypeOKFrom DEF TypeOK

(* What a command leaves of the subject: its items but one; Import says    *)
(* more.                                                                   *)
LEMMA HereType ==
  ASSUME TypeOK, NEW w \in Workers, Applying(job[w])
  PROVE  /\ Here(w) \in Data /\ Here(w) = live[Subject(job[w])][job[w].file.svc]
         /\ Here(w).items = Content(job[w]) /\ Here(w).items \in Values
         /\ job[w].file.items \in Values /\ job[w].file.secret \in Time
         /\ Subject(job[w]) \in Apps /\ job[w].file.svc \in Services
         /\ job[w].file.app \in Apps
<1>1. Subject(job[w]) \in Apps /\ job[w].file \in File
  BY JobShape DEF Held
<1>2. job[w].file.svc \in Services /\ job[w].file.app \in Apps
      /\ job[w].file.items \in Values /\ job[w].file.secret \in Time
  BY <1>1 DEF File
<1>3. live[Subject(job[w])][job[w].file.svc] \in Data
  BY <1>1, <1>2 DEF TypeOK
<1> QED
  BY <1>1, <1>2, <1>3 DEF Here, Content, Data

LEMMA ItemEffect ==
  ASSUME NEW d \in Data, NEW i \in Items, NEW v \in Value
  PROVE  /\ [d EXCEPT !.items[i] = v] \in Data
         /\ [d EXCEPT !.items[i] = v].store = d.store
         /\ [d EXCEPT !.items[i] = v].secret = d.secret
         /\ [d EXCEPT !.items[i] = v].items[i] = v
         /\ \A k \in Items : k # i => [d EXCEPT !.items[i] = v].items[k] = d.items[k]
<1>1. d.items \in Values
  BY DEF Data
<1>2. [d EXCEPT !.items[i] = v] = [d EXCEPT !.items = [d.items EXCEPT ![i] = v]]
  BY DEF Data
<1>3. [d.items EXCEPT ![i] = v] \in Values
  BY <1>1 DEF Values
<1> QED
  BY <1>1, <1>2, <1>3 DEF Data, Values

LEMMA FilledType ==
  ASSUME NEW s, NEW i \in Items, NEW v \in Value, NEW d \in Value
  PROVE  Filled(s, i, v, d) \subseteq Value
<1>1. Both(v, d) \in Value /\ Union(v, d) \in Value
  BY DEF Both, Union, Value
<1>2. Written(i, v, d) \in Value
  BY <1>1, RedisTypeAssumption DEF Written
<1> QED
  BY <1>1, <1>2 DEF Filled

LEMMA DroppedType ==
  ASSUME NEW s, NEW v \in Value
  PROVE  Dropped(s, v) \subseteq Value
BY NoValueType DEF Dropped

(* What every command leaves.                                              *)
Steady(w) ==
  /\ \A v \in Workers : v # w => Kept(v)
  /\ SameRestore(job'[w], job[w])
  /\ \A b \in Apps, t \in Services :
       <<b, t>> # <<Subject(job[w]), job[w].file.svc>> => live'[b][t] = live[b][t]
  /\ UNCHANGED <<now, registry, files, restores, revived>>

(* The account stays as it is.                                             *)
SameAccount(w) ==
  LET old == Here(w)
      new == live'[Subject(job[w])][job[w].file.svc]
  IN  /\ new.secret = old.secret /\ (old.store => new.store)
      /\ stale' = stale

LEMMA MakeBucketEffect ==
  ASSUME TypeOK, NEW w \in Workers, MakeBucket(w)
  PROVE  /\ TypeOK' /\ Steady(w) /\ SameAccount(w) /\ Applying(job[w])
         /\ job'[w].pc = "apply" /\ job'[w].drop = job[w].drop /\ job'[w].fill = job[w].fill
         /\ live'[Subject(job[w])][job[w].file.svc].items = Content(job[w])
<1> DEFINE j == [job[w] EXCEPT !.pc = "apply"]
           d == [Here(w) EXCEPT !.store = TRUE]
<1>1. Applying(job[w]) /\ job[w] \in Job /\ Put(w, d, j) /\ stale' = stale
  BY JobShape DEF MakeBucket, Applying
<1>2. j \in Job /\ SameRestore(j, job[w]) /\ Held(j)
      /\ j.pc = "apply" /\ j.drop = job[w].drop /\ j.fill = job[w].fill
  BY <1>1 DEF Job, SameRestore, Held, Applying
<1>3. /\ Here(w) \in Data /\ Here(w).items = Content(job[w])
      /\ Here(w) = live[Subject(job[w])][job[w].file.svc]
  BY <1>1, HereType
<1>4. d \in Data /\ d.store = TRUE /\ d.secret = Here(w).secret /\ d.items = Content(job[w])
  BY <1>3 DEF Data
<1> HIDE DEF j, d
<1>5. /\ TypeOK' /\ \A v \in Workers : v # w => Kept(v)
      /\ job'[w] = j
      /\ live'[Subject(job[w])][job[w].file.svc] = d
      /\ \A b \in Apps, t \in Services :
           <<b, t>> # <<Subject(job[w]), job[w].file.svc>> => live'[b][t] = live[b][t]
      /\ UNCHANGED <<now, registry, files, restores, revived>>
  BY <1>1, <1>2, <1>4, PutTypes DEF TypeOK
<1> QED
  BY <1>1, <1>2, <1>4, <1>5 DEF Steady, SameAccount

LEMMA DropEffect ==
  ASSUME TypeOK, NEW w \in Workers, Drop(w)
  PROVE  /\ TypeOK' /\ Steady(w) /\ SameAccount(w) /\ Applying(job[w])
         /\ job'[w].pc = job[w].pc /\ job'[w].fill = job[w].fill
         /\ \E i \in job[w].drop :
              LET items == live'[Subject(job[w])][job[w].file.svc].items
              IN  /\ job'[w].drop = job[w].drop \ {i}
                  /\ items[i] \in Dropped(job[w].file.svc, Content(job[w])[i])
                  /\ \A k \in Items : k # i => items[k] = Content(job[w])[k]
<1>0. PICK i \in job[w].drop :
        \E x \in Dropped(job[w].file.svc, Here(w).items[i]) :
          Put(w, [Here(w) EXCEPT !.items[i] = x], [job[w] EXCEPT !.drop = @ \ {i}])
  BY DEF Drop
<1>1. PICK x \in Dropped(job[w].file.svc, Here(w).items[i]) :
        Put(w, [Here(w) EXCEPT !.items[i] = x], [job[w] EXCEPT !.drop = @ \ {i}])
  BY <1>0
<1> DEFINE j == [job[w] EXCEPT !.drop = @ \ {i}]
           d == [Here(w) EXCEPT !.items[i] = x]
<1>2. Applying(job[w]) /\ job[w] \in Job /\ stale' = stale
  BY JobShape DEF Drop, Reachable, Applying
<1>3. i \in Items
  BY <1>2 DEF Job
<1>4. j \in Job /\ SameRestore(j, job[w]) /\ j.pc = job[w].pc
      /\ j.drop = job[w].drop \ {i} /\ j.fill = job[w].fill
  BY <1>2 DEF Job, SameRestore
<1>5. Here(w) \in Data /\ Here(w).items = Content(job[w]) /\ Here(w).items[i] \in Value
  BY <1>2, <1>3, HereType DEF Values
<1>6. /\ d \in Data /\ d.store = Here(w).store /\ d.secret = Here(w).secret
      /\ d.items[i] = x /\ \A k \in Items : k # i => d.items[k] = Here(w).items[k]
  BY <1>1, <1>3, <1>5, DroppedType, ItemEffect
<1>7. Put(w, d, j)
  BY <1>1
<1> HIDE DEF j, d
<1>8. Held(j)
  BY <1>2, <1>4 DEF Held, Applying
<1>9. /\ TypeOK' /\ \A v \in Workers : v # w => Kept(v)
      /\ job'[w] = j
      /\ live'[Subject(job[w])][job[w].file.svc] = d
      /\ \A b \in Apps, t \in Services :
           <<b, t>> # <<Subject(job[w]), job[w].file.svc>> => live'[b][t] = live[b][t]
      /\ UNCHANGED <<now, registry, files, restores, revived>>
  BY <1>2, <1>4, <1>6, <1>7, <1>8, PutTypes DEF TypeOK
<1>10. Steady(w) /\ SameAccount(w)
  BY <1>2, <1>4, <1>6, <1>9 DEF Steady, SameAccount
<1> QED
  BY <1>1, <1>2, <1>4, <1>5, <1>6, <1>9, <1>10

LEMMA FillEffect ==
  ASSUME TypeOK, NEW w \in Workers, Fill(w)
  PROVE  /\ TypeOK' /\ Steady(w) /\ SameAccount(w) /\ Applying(job[w])
         /\ job[w].file.svc # "rabbitmq" /\ Reachable(w)
         /\ job'[w].pc = job[w].pc /\ job'[w].drop = job[w].drop
         /\ \E i \in job[w].fill \ job[w].drop :
              LET items == live'[Subject(job[w])][job[w].file.svc].items
              IN  /\ job'[w].fill = job[w].fill \ {i}
                  /\ items[i] \in Filled(job[w].file.svc, i, Content(job[w])[i],
                                         job[w].file.items[i])
                  /\ \A k \in Items : k # i => items[k] = Content(job[w])[k]
<1>0. PICK i \in job[w].fill \ job[w].drop :
        \E x \in Filled(job[w].file.svc, i, Here(w).items[i], job[w].file.items[i]) :
          Put(w, [Here(w) EXCEPT !.items[i] = x], [job[w] EXCEPT !.fill = @ \ {i}])
  BY DEF Fill
<1>1. PICK x \in Filled(job[w].file.svc, i, Here(w).items[i], job[w].file.items[i]) :
        Put(w, [Here(w) EXCEPT !.items[i] = x], [job[w] EXCEPT !.fill = @ \ {i}])
  BY <1>0
<1> DEFINE j == [job[w] EXCEPT !.fill = @ \ {i}]
           d == [Here(w) EXCEPT !.items[i] = x]
<1>2. Applying(job[w]) /\ job[w] \in Job /\ stale' = stale
      /\ job[w].file.svc # "rabbitmq" /\ Reachable(w)
  BY JobShape DEF Fill, Reachable, Applying
<1>3. i \in Items
  BY <1>2 DEF Job
<1>4. j \in Job /\ SameRestore(j, job[w]) /\ j.pc = job[w].pc
      /\ j.fill = job[w].fill \ {i} /\ j.drop = job[w].drop
  BY <1>2 DEF Job, SameRestore
<1>5. Here(w) \in Data /\ Here(w).items = Content(job[w])
      /\ Here(w).items[i] \in Value /\ job[w].file.items[i] \in Value
  BY <1>2, <1>3, HereType DEF Values
<1>6. x \in Value
  BY <1>3, <1>5, FilledType
<1>7. /\ d \in Data /\ d.store = Here(w).store /\ d.secret = Here(w).secret
      /\ d.items[i] = x /\ \A k \in Items : k # i => d.items[k] = Here(w).items[k]
  BY <1>3, <1>5, <1>6, ItemEffect
<1>8. Put(w, d, j)
  BY <1>1
<1> HIDE DEF j, d
<1>9. Held(j)
  BY <1>2, <1>4 DEF Held, Applying
<1>10. /\ TypeOK' /\ \A v \in Workers : v # w => Kept(v)
       /\ job'[w] = j
       /\ live'[Subject(job[w])][job[w].file.svc] = d
       /\ \A b \in Apps, t \in Services :
            <<b, t>> # <<Subject(job[w]), job[w].file.svc>> => live'[b][t] = live[b][t]
       /\ UNCHANGED <<now, registry, files, restores, revived>>
  BY <1>2, <1>4, <1>7, <1>8, <1>9, PutTypes DEF TypeOK
<1>11. Steady(w) /\ SameAccount(w)
  BY <1>2, <1>4, <1>7, <1>10 DEF Steady, SameAccount
<1> QED
  BY <1>1, <1>2, <1>4, <1>5, <1>7, <1>10, <1>11

LEMMA ImportEffect ==
  ASSUME TypeOK, NEW w \in Workers, Import(w)
  PROVE  /\ TypeOK' /\ Steady(w) /\ Applying(job[w]) /\ Reachable(w)
         /\ job[w].file.svc = "rabbitmq" /\ Subject(job[w]) = job[w].file.app
         /\ job'[w].pc = "restored"
         /\ stale' = IF OfEarlierLife(job[w].file) THEN stale \cup {job[w].file.app} ELSE stale
         /\ LET new == live'[Subject(job[w])][job[w].file.svc]
            IN  /\ new.store /\ new.secret = job[w].file.secret
                /\ \E kept \in SUBSET (InDump(job[w].file) \ Absent(Content(job[w]))) :
                     \A i \in Items :
                       new.items[i] = IF i \in InDump(job[w].file) \ kept
                                      THEN job[w].file.items[i] ELSE Content(job[w])[i]
<1> DEFINE f == job[w].file
           items(K) == [i \in Items |-> IF i \in InDump(f) \ K THEN f.items[i]
                                        ELSE Here(w).items[i]]
<1>1. PICK kept \in SUBSET (InDump(f) \ Absent(Here(w).items)) :
        Put(w, [store |-> TRUE, secret |-> f.secret, items |-> items(kept)],
            [job[w] EXCEPT !.pc = "restored", !.fill = {}])
  BY DEF Import
<1> DEFINE j == [job[w] EXCEPT !.pc = "restored", !.fill = {}]
           d == [store |-> TRUE, secret |-> f.secret, items |-> items(kept)]
<1>2. Applying(job[w]) /\ job[w] \in Job /\ f.svc = "rabbitmq" /\ Reachable(w)
      /\ stale' = IF OfEarlierLife(f) THEN stale \cup {f.app} ELSE stale
  BY JobShape DEF Import, Reachable, Applying
<1>3. j \in Job /\ SameRestore(j, job[w]) /\ j.pc = "restored" /\ Held(j)
  BY <1>2 DEF Job, SameRestore, Held
<1>4. Here(w) \in Data /\ Here(w).items = Content(job[w]) /\ Here(w).items \in Values
      /\ f.items \in Values /\ f.secret \in Time /\ f.app \in Apps
  BY <1>2, HereType
<1>5. items(kept) \in Values
  BY <1>4 DEF Values
<1>6. d \in Data /\ d.store = TRUE /\ d.secret = f.secret /\ d.items = items(kept)
  BY <1>4, <1>5 DEF Data
<1>7. Put(w, d, j)
  BY <1>1
<1>8. stale' \subseteq Apps
  BY <1>2, <1>4 DEF TypeOK
<1> HIDE DEF j, d
<1>9. /\ TypeOK' /\ \A v \in Workers : v # w => Kept(v)
      /\ job'[w] = j
      /\ live'[Subject(job[w])][job[w].file.svc] = d
      /\ \A b \in Apps, t \in Services :
           <<b, t>> # <<Subject(job[w]), job[w].file.svc>> => live'[b][t] = live[b][t]
      /\ UNCHANGED <<now, registry, files, restores, revived>>
  BY <1>2, <1>3, <1>6, <1>7, <1>8, PutTypes DEF TypeOK
<1>10. Steady(w)
  BY <1>3, <1>9 DEF Steady
<1>11. Subject(job[w]) = f.app
  BY <1>2 DEF Subject, Target
<1>12. \A i \in Items : d.items[i] = IF i \in InDump(f) \ kept THEN f.items[i]
                                     ELSE Content(job[w])[i]
  BY <1>4, <1>6
<1>13. kept \in SUBSET (InDump(f) \ Absent(Content(job[w])))
  BY <1>4
<1> QED
  BY <1>2, <1>3, <1>6, <1>9, <1>10, <1>11, <1>12, <1>13

LEMMA CommandTypes ==
  ASSUME TypeOK, NEW w \in Workers, Command(w)
  PROVE  TypeOK' /\ Steady(w) /\ Applying(job[w]) /\ Held(job'[w])
<1>1. CASE MakeBucket(w)
  BY <1>1, MakeBucketEffect DEF Held, Applying
<1>2. CASE Drop(w)
  BY <1>2, DropEffect DEF Held, Applying
<1>3. CASE Fill(w)
  BY <1>3, FillEffect DEF Held, Applying
<1>4. CASE Import(w)
  BY <1>4, ImportEffect DEF Held, Applying
<1> QED
  BY <1>1, <1>2, <1>3, <1>4 DEF Command

(* Every step is one of these.                                             *)
Life == SetupApp \/ RemoveApp \/ Reconcile \/ AppWrites
Opens(w) == OpenFile(w) \/ RestoreFromFile(w)

LEMMA NextSplit ==
  ASSUME Next
  PROVE  \/ Life \/ FileStep
         \/ \E w \in Workers : ShowPlan(w) \/ Ends(w) \/ Opens(w) \/ Succeeds(w) \/ Command(w)
BY DEF Next, Life, FileStep, Ends, Opens, Command

LEMMA OpensEffect ==
  ASSUME TypeOK, NEW w \in Workers, Opens(w)
  PROVE  /\ TypeOK' /\ \A v \in Workers : v # w => Kept(v)
         /\ Held(job'[w]) /\ Applying(job'[w])
         /\ \E f \in files : /\ job'[w].file = f
                             /\ job'[w].since \in {0, job[w].since}
                             /\ job'[w].before = live[Subject(job'[w])][f.svc].items
                             /\ job'[w].fill = Fills(job'[w], f)
                             /\ job'[w].drop = Drops(f) \cap Fills(job'[w], f)
         /\ UNCHANGED <<now, registry, live, files, stale>>
<1>1. PICK k \in Job, f \in files :
        /\ k.app \in Apps /\ job'[w] = Opened(k, f) /\ k.since \in {0, job[w].since}
        /\ TypeOK' /\ \A v \in Workers : v # w => Kept(v)
        /\ UNCHANGED <<now, registry, live, files, stale>>
  <2>1. CASE OpenFile(w)
    <3>1. job[w] \in Job /\ job[w].app \in Apps
      BY <2>1, OpenFileTypes, JobShape
    <3> QED
      BY <2>1, <3>1, OpenFileTypes
  <2>2. CASE RestoreFromFile(w)
    <3>1. PICK a \in Apps, f \in files : job'[w] = Opened([Idle EXCEPT !.app = a], f)
      BY <2>2, RestoreFromFileTypes
    <3> DEFINE k == [Idle EXCEPT !.app = a]
    <3>2. Idle.since = 0
      BY DEF Idle
    <3>3. k \in Job /\ k.app \in Apps /\ k.since = 0 /\ job'[w] = Opened(k, f)
      BY <3>1, <3>2, IdleType DEF Job
    <3> HIDE DEF k
    <3>4. /\ TypeOK' /\ \A v \in Workers : v # w => Kept(v)
          /\ UNCHANGED <<now, registry, live, files, stale>>
      BY <2>2, RestoreFromFileTypes
    <3> QED
      BY <3>3, <3>4
  <2> QED
    BY <2>1, <2>2 DEF Opens
<1>2. f \in File
  BY DEF TypeOK
<1>3. /\ Applying(job'[w]) /\ job'[w].app = k.app /\ job'[w].file = f /\ job'[w].since = k.since
      /\ job'[w].before = live[Target(k, f)][f.svc].items
      /\ job'[w].drop = Drops(f) \cap Fills(k, f) /\ job'[w].fill = Fills(k, f)
  BY <1>1, <1>2, OpenedType
<1>4. Fills(k, f) = Fills(job'[w], f) /\ Target(k, f) = Subject(job'[w])
  BY <1>3 DEF Fills, Subject, Target
<1>5. Held(job'[w])
  BY <1>3 DEF Held
<1> QED
  BY <1>1, <1>3, <1>4, <1>5

LEMMA StepTypes == ASSUME TypeOK, Next PROVE TypeOK'
BY NextSplit, LifeTypes, FileTypes, ShowPlanTypes, EndsTypes, OpensEffect, SucceedsTypes,
   CommandTypes DEF Life

LEMMA InitTypes == ASSUME Init PROVE TypeOK
<1>1. 0 \in Time /\ 0 \in 0..MaxRestores
  BY BoundsAssumption DEF Time
<1>2. now \in Time /\ restores \in 0..MaxRestores /\ registry \in [Apps -> [Services -> Time]]
  BY <1>1 DEF Init
<1>3. live \in [Apps -> [Services -> Data]]
  BY BlankType DEF Init
<1>4. job \in [Workers -> Job] /\ \A w \in Workers : Shape(job[w])
  BY IdleType DEF Init
<1>5. files \subseteq File /\ stale \subseteq Apps /\ revived \subseteq Apps \X Services
  BY DEF Init
<1> QED
  BY <1>2, <1>3, <1>4, <1>5 DEF TypeOK, Shape, Held, Applying

(***************************************************************************)
(* Dates.                                                                  *)
(***************************************************************************)
LEMMA SetupEffect ==
  ASSUME TypeOK, SetupApp
  PROVE  \E a \in Apps, S \in SUBSET Services :
           /\ now' = now + 1
           /\ \A s \in Services :
                /\ registry[a][s] = 0
                /\ registry'[a][s] = IF s \in S THEN now' ELSE 0
                /\ s \in S => live'[a][s].store /\ live'[a][s].secret = now'
                /\ s \notin S => live'[a][s] = live[a][s]
           /\ \A b \in Apps : b # a => registry'[b] = registry[b] /\ live'[b] = live[b]
           /\ UNCHANGED <<files, job, restores, stale, revived>>
<1>1. PICK a \in Apps, S \in Setups :
        /\ now' = now + 1 /\ ~Registered(a)
        /\ registry' = [registry EXCEPT ![a] = [s \in Services |-> IF s \in S THEN now' ELSE 0]]
        /\ live' = [live EXCEPT ![a] = [s \in Services |->
             IF s \in S THEN [@[s] EXCEPT !.store = TRUE, !.secret = now'] ELSE @[s]]]
        /\ UNCHANGED <<files, job, restores, stale, revived>>
  BY DEF SetupApp
<1>2. S \in SUBSET Services
  BY SetupsAssumption
<1>3. ASSUME NEW s \in Services
      PROVE  /\ registry[a][s] = 0
             /\ registry'[a][s] = IF s \in S THEN now' ELSE 0
             /\ s \in S => live'[a][s].store /\ live'[a][s].secret = now'
             /\ s \notin S => live'[a][s] = live[a][s]
  <2>1. registry[a][s] = 0 /\ registry'[a][s] = IF s \in S THEN now' ELSE 0
    BY <1>1 DEF Registered, ServicesOf, TypeOK
  <2>2. live[a][s] \in Data
    BY DEF TypeOK
  <2>3. live'[a][s] = IF s \in S THEN [live[a][s] EXCEPT !.store = TRUE, !.secret = now']
                      ELSE live[a][s]
    BY <1>1 DEF TypeOK
  <2> QED
    BY <2>1, <2>2, <2>3 DEF Data
<1>4. \A b \in Apps : b # a => registry'[b] = registry[b] /\ live'[b] = live[b]
  BY <1>1 DEF TypeOK
<1> QED
  BY <1>1, <1>2, <1>3, <1>4

LEMMA LifeKeepsFiles ==
  ASSUME TypeOK, Life
  PROVE  files' = files /\ now' \in {now, now + 1}
BY SetupEffect, RemoveEffect, ReconcileEffect, WritesEffect DEF Life

(* The registry forgets or is given later dates.                           *)
LEMMA LifeOfRegistry ==
  ASSUME TypeOK, Life, NEW a \in Apps, NEW s \in Services
  PROVE  registry'[a][s] \in {registry[a][s], 0, now + 1}
<1>1. CASE SetupApp
  BY <1>1, SetupEffect
<1>2. CASE RemoveApp
  BY <1>2, RemoveEffect DEF TypeOK
<1>3. CASE Reconcile \/ AppWrites
  BY <1>3, ReconcileEffect, WritesEffect
<1> QED
  BY <1>1, <1>2, <1>3 DEF Life

LEMMA LifeSetsNow ==
  ASSUME TypeOK, Life, NEW a \in Apps, NEW s \in Services,
         registry'[a][s] \notin {registry[a][s], 0}
  PROVE  registry'[a][s] = now + 1 /\ now' = now + 1 /\ registry[a][s] = 0
<1>1. CASE SetupApp
  BY <1>1, SetupEffect
<1>2. CASE RemoveApp \/ Reconcile \/ AppWrites
  BY <1>2, RemoveEffect, ReconcileEffect, WritesEffect DEF TypeOK
<1> QED
  BY <1>1, <1>2 DEF Life

LEMMA DatedStep == ASSUME TypeOK, Dated, Next PROVE Dated'
<1>1. now \in Nat /\ now' \in Nat
  BY StepTypes DEF TypeOK, Time
<1> DEFINE OfJob(w) == (Held(job[w]) => job[w].file.ts <= now) /\ job[w].since <= now
<1>2. ASSUME NEW v \in Workers, Kept(v), now' \in {now, now + 1} PROVE OfJob(v)'
  <2>1. /\ job'[v].pc = job[v].pc /\ job'[v].file = job[v].file /\ job'[v].since = job[v].since
        /\ job[v] \in Job /\ OfJob(v) /\ (Held(job[v]) => job[v].file \in File)
    BY <1>2, KeptShape, JobShape DEF Dated
  <2> QED
    BY <1>1, <1>2, <2>1 DEF Held, Applying, Job, File, Time
<1>3. CASE Life
  <2>1. files' = files /\ now' \in {now, now + 1} /\ \A v \in Workers : Kept(v)
    BY <1>3, LifeKeepsFiles, LifeTypes DEF Life
  <2>2. \A f \in files' : f.ts <= now'
    BY <1>1, <2>1 DEF Dated, TypeOK, File, Time
  <2>3. \A a \in Apps, s \in Services : registry'[a][s] <= now'
    <3> SUFFICES ASSUME NEW a \in Apps, NEW s \in Services PROVE registry'[a][s] <= now'
      OBVIOUS
    <3>1. registry[a][s] <= now /\ registry[a][s] \in Nat
      BY DEF Dated, TypeOK, Time
    <3> QED
      BY <1>1, <1>3, <2>1, <3>1, LifeSetsNow
  <2> QED
    BY <1>2, <2>1, <2>2, <2>3 DEF Dated
<1>4. CASE FileStep
  <2>1. now' \in {now, now + 1} /\ registry' = registry /\ \A v \in Workers : Kept(v)
    BY <1>4, FileTypes, OpenDumpEffect, FileEffect DEF FileStep
  <2>2. \A f \in files' : f.ts <= now'
    <3>1. \A f \in files : f.ts <= now /\ f.ts \in Nat
      BY DEF Dated, TypeOK, File, Time
    <3>2. CASE OpenDump
      BY <1>1, <3>1, <3>2, OpenDumpEffect
    <3>3. CASE ~OpenDump
      BY <1>4, <3>1, <3>3, FileEffect DEF FileStep, Same
    <3> QED
      BY <3>2, <3>3
  <2>3. \A a \in Apps, s \in Services : registry'[a][s] <= now'
    BY <1>1, <2>1 DEF Dated, TypeOK, Time
  <2> QED
    BY <1>2, <2>1, <2>2, <2>3 DEF Dated
<1>5. ASSUME NEW w \in Workers, ShowPlan(w) \/ Ends(w) \/ Opens(w) \/ Succeeds(w) \/ Command(w)
      PROVE  Dated'
  <2>1. /\ now' = now /\ files' = files /\ registry' = registry
        /\ \A v \in Workers : v # w => Kept(v)
    BY <1>5, ShowPlanTypes, EndsTypes, OpensEffect, SucceedsTypes, CommandTypes
       DEF ShowPlan, Steady
  <2>2. OfJob(w)'
    <3>1. OfJob(w) /\ \A f \in files : f.ts <= now
      BY DEF Dated
    <3>2. CASE ShowPlan(w) \/ Ends(w)
      BY <1>1, <2>1, <3>2, ShowPlanTypes, EndsTypes
    <3>3. CASE Opens(w)
      BY <1>1, <2>1, <3>1, <3>3, OpensEffect
    <3>4. CASE Succeeds(w) \/ Command(w)
      <4>1. SameRestore(job'[w], job[w]) /\ Held(job[w])
        BY <3>4, SucceedsTypes, CommandTypes DEF Steady, Succeeds, Held, Applying
      <4> QED
        BY <2>1, <3>1, <4>1 DEF SameRestore
    <3> QED
      BY <1>5, <3>2, <3>3, <3>4
  <2> QED
    BY <1>2, <2>1, <2>2 DEF Dated
<1> QED
  BY <1>3, <1>4, <1>5, NextSplit

-----------------------------------------------------------------------------
(***************************************************************************)
(* Accounts: a definitions file of the app's present life brings back the  *)
(* account the app has; one of an earlier life is known by its date, or    *)
(* was dumped while such an account was in place.                          *)
(***************************************************************************)
LEMMA GenuineKept ==
  ASSUME TypeOK, Dated, Life \/ registry' = registry,
         NEW f \in File, NEW g \in File, Same(g, f), Genuine(f), f.ts <= now
  PROVE  Genuine(g)'
<1>1. CASE f.svc # "rabbitmq"
  BY <1>1 DEF Genuine, Same
<1>2. CASE f.svc = "rabbitmq"
  <2>1. f.app \in Apps /\ "rabbitmq" \in Services /\ f.ts \in Nat /\ now \in Nat
    BY <1>2 DEF File, TypeOK, Time
  <2>2. registry'[f.app]["rabbitmq"] \in {registry[f.app]["rabbitmq"], 0, now + 1}
    BY <2>1, LifeOfRegistry
  <2> QED
    BY <2>1, <2>2 DEF Genuine, Same
<1> QED
  BY <1>1, <1>2

LEMMA OpenDumpGenuine ==
  ASSUME TypeOK, RegisteredUsable, OpenDump, NEW g \in files', g \notin files
  PROVE  Genuine(g)' /\ g \in File
<1>1. PICK f \in File :
           /\ files' = files \cup {f}
           /\ registry[f.app][f.svc] # 0
           /\ f.svc = "rabbitmq" => f.secret = live[f.app]["rabbitmq"].secret
           /\ f.suspect = (f.app \in stale)
           /\ registry' = registry
  BY OpenDumpEffect
<1>2. g = f
  BY <1>1
<1>3. f.app \in Apps /\ f.svc \in Services
  BY DEF File
<1>4. f.svc = "rabbitmq" /\ ~f.suspect => f.secret = registry[f.app]["rabbitmq"]
  BY <1>1, <1>3 DEF RegisteredUsable, Usable
<1> QED
  BY <1>1, <1>2, <1>4 DEF Genuine

LEMMA AccountsStep ==
  ASSUME TypeOK, Dated, Accounts, RegisteredUsable, Next
  PROVE  Accounts'
<1>1. \A f \in files : f \in File /\ f.ts <= now /\ Genuine(f)
  BY DEF TypeOK, Dated, Accounts
<1>2. \A f : Same(f, f)
  BY DEF Same
<1> DEFINE OfJob(v) == Held(job[v]) => Genuine(job[v].file)
<1>3. ASSUME NEW v \in Workers, Life \/ registry' = registry, Kept(v) PROVE OfJob(v)'
  <2>1. job'[v].pc = job[v].pc /\ job'[v].file = job[v].file
    BY <1>3, KeptShape
  <2>2. Held(job[v]) => job[v].file \in File /\ job[v].file.ts <= now /\ Genuine(job[v].file)
    BY JobShape DEF Dated, Accounts
  <2>3. ASSUME NEW f \in File, f = job[v].file, Held(job[v]) PROVE Genuine(f)'
    BY <1>2, <1>3, <2>2, <2>3, GenuineKept
  <2> QED
    BY <2>1, <2>2, <2>3 DEF Held, Applying, Genuine
<1>4. ASSUME Life \/ registry' = registry, NEW g \in File, NEW f \in files, Same(g, f)
      PROVE  Genuine(g)'
  BY <1>1, <1>4, GenuineKept
<1>5. CASE Life
  <2>1. files' = files /\ \A v \in Workers : Kept(v)
    BY <1>5, LifeKeepsFiles, LifeTypes DEF Life
  <2> QED
    BY <1>1, <1>2, <1>3, <1>4, <1>5, <2>1 DEF Accounts
<1>6. CASE FileStep
  <2>1. registry' = registry /\ (\A v \in Workers : Kept(v)) /\ files' \subseteq File
    BY <1>6, FileTypes, OpenDumpEffect, FileEffect DEF FileStep, TypeOK
  <2>2. ASSUME NEW g \in files' PROVE Genuine(g)'
    <3>1. CASE OpenDump
      BY <1>2, <1>4, <2>1, <3>1, OpenDumpGenuine
    <3>2. CASE ~OpenDump
      <4>1. PICK f \in files : Same(g, f)
        BY <1>6, <3>2, FileEffect DEF FileStep
      <4> QED
        BY <1>4, <2>1, <4>1
    <3> QED
      BY <3>1, <3>2
  <2> QED
    BY <1>3, <2>1, <2>2 DEF Accounts
<1>7. ASSUME NEW w \in Workers, ShowPlan(w) \/ Ends(w) \/ Opens(w) \/ Succeeds(w) \/ Command(w)
      PROVE  Accounts'
  <2>1. /\ files' = files /\ registry' = registry
        /\ \A v \in Workers : v # w => Kept(v)
    BY <1>7, ShowPlanTypes, EndsTypes, OpensEffect, SucceedsTypes, CommandTypes
       DEF ShowPlan, Steady
  <2>2. \A f : Genuine(f)' = Genuine(f)
    BY <2>1 DEF Genuine
  <2>3. Held(job'[w]) => Genuine(job'[w].file)
    <3>1. CASE ShowPlan(w) \/ Ends(w)
      BY <3>1, ShowPlanTypes, EndsTypes
    <3>2. CASE Opens(w)
      BY <1>1, <3>2, OpensEffect
    <3>3. CASE Succeeds(w) \/ Command(w)
      <4>1. SameRestore(job'[w], job[w]) /\ Held(job[w])
        BY <3>3, SucceedsTypes, CommandTypes DEF Steady, Succeeds, Held, Applying
      <4> QED
        BY <4>1 DEF SameRestore, Accounts
    <3> QED
      BY <1>7, <3>1, <3>2, <3>3
  <2>4. OfJob(w)'
    BY <2>2, <2>3
  <2>5. \A v \in Workers : OfJob(v)'
    BY <1>3, <2>1, <2>4
  <2> QED
    BY <1>1, <2>1, <2>2, <2>5 DEF Accounts
<1> QED
  BY <1>5, <1>6, <1>7, NextSplit

LEMMA UsableStep ==
  ASSUME TypeOK, Dated, Accounts, RegisteredUsable, Next
  PROVE  RegisteredUsable'
<1> DEFINE Claim(a, s) == registry[a][s] # 0 /\ ~(s = "rabbitmq" /\ a \in stale) => Usable(a, s)
<1>1. \A a \in Apps, s \in Services : Claim(a, s)
  BY DEF RegisteredUsable
<1>2. ASSUME NEW a \in Apps, NEW s \in Services, registry'[a][s] = registry[a][s],
             live'[a][s] = live[a][s], a \in stale => a \in stale'
      PROVE  Claim(a, s)'
  BY <1>1, <1>2 DEF Usable
<1>3. CASE SetupApp
  <2>1. PICK a \in Apps, S \in SUBSET Services :
           /\ \A s \in Services :
                /\ registry'[a][s] = IF s \in S THEN now' ELSE 0
                /\ s \in S => live'[a][s].store /\ live'[a][s].secret = now'
           /\ \A b \in Apps : b # a => registry'[b] = registry[b] /\ live'[b] = live[b]
           /\ stale' = stale
    BY <1>3, SetupEffect
  <2>2. \A s \in Services : Claim(a, s)'
    BY <2>1 DEF Usable
  <2>3. \A b \in Apps, s \in Services : Claim(b, s)'
    BY <1>2, <2>1, <2>2
  <2> QED
    BY <2>3 DEF RegisteredUsable
<1>4. CASE RemoveApp
  <2>1. PICK a \in Apps :
           /\ registry' = [registry EXCEPT ![a] = [s \in Services |-> 0]]
           /\ \A b \in Apps : b # a => live'[b] = live[b]
           /\ stale' = stale \ {a}
    BY <1>4, RemoveEffect
  <2>2. \A s \in Services : registry'[a][s] = 0
    BY <2>1 DEF TypeOK
  <2>3. \A b \in Apps, s \in Services : b # a => registry'[b][s] = registry[b][s]
    BY <2>1 DEF TypeOK
  <2>4. \A b \in Apps, s \in Services : Claim(b, s)'
    BY <1>2, <2>1, <2>2, <2>3
  <2> QED
    BY <2>4 DEF RegisteredUsable
<1>5. CASE Reconcile
  BY <1>1, <1>5, ReconcileEffect DEF RegisteredUsable
<1>6. CASE AppWrites
  <2>1. PICK a \in Apps, s \in Services :
           /\ live'[a][s].store = live[a][s].store /\ live'[a][s].secret = live[a][s].secret
           /\ \A b \in Apps, t \in Services : <<b, t>> # <<a, s>> => live'[b][t] = live[b][t]
           /\ UNCHANGED <<registry, stale>>
    BY <1>6, WritesEffect
  <2>2. Claim(a, s)'
    BY <1>1, <2>1 DEF Usable
  <2>3. \A b \in Apps, t \in Services : Claim(b, t)'
    BY <1>2, <2>1, <2>2
  <2> QED
    BY <2>3 DEF RegisteredUsable
<1>7. CASE UNCHANGED <<registry, live, stale>>
  BY <1>1, <1>7 DEF RegisteredUsable, Usable
<1>8. ASSUME NEW w \in Workers, Command(w) PROVE RegisteredUsable'
  <2>1. Steady(w) /\ Applying(job[w])
    BY <1>8, CommandTypes
  <2>2. PICK a \in Apps, s \in Services : a = Subject(job[w]) /\ s = job[w].file.svc
    BY <2>1, HereType
  <2>3. /\ Here(w) = live[a][s] /\ registry' = registry
        /\ \A b \in Apps, t \in Services : <<b, t>> # <<a, s>> => live'[b][t] = live[b][t]
    BY <2>1, <2>2, HereType DEF Steady
  <2>4. CASE Import(w)
    <3>1. /\ s = "rabbitmq" /\ a = job[w].file.app
          /\ stale' = IF OfEarlierLife(job[w].file) THEN stale \cup {a} ELSE stale
          /\ live'[a][s].store /\ live'[a][s].secret = job[w].file.secret
      BY <2>2, <2>4, ImportEffect
    <3>2. Genuine(job[w].file) /\ job[w].file \in File
      BY <2>1, JobShape DEF Accounts, Held
    <3>3. ~OfEarlierLife(job[w].file) /\ registry[a][s] # 0
          => job[w].file.secret = registry[a][s]
      <4>1. registry[a][s] \in Nat /\ job[w].file.ts \in Nat
        BY <3>2 DEF TypeOK, Time, File
      <4> QED
        BY <2>2, <3>1, <3>2, <4>1 DEF Genuine, OfEarlierLife
    <3>4. Claim(a, s)'
      BY <2>3, <3>1, <3>3 DEF Usable
    <3>5. \A b \in Apps, t \in Services : Claim(b, t)'
      BY <1>2, <2>3, <3>1, <3>4
    <3> QED
      BY <3>5 DEF RegisteredUsable
  <2>5. CASE ~Import(w)
    <3>1. SameAccount(w)
      BY <1>8, <2>5, MakeBucketEffect, DropEffect, FillEffect DEF Command
    <3>2. /\ stale' = stale /\ live'[a][s].secret = live[a][s].secret
          /\ live[a][s].store => live'[a][s].store
      BY <2>2, <2>3, <3>1 DEF SameAccount
    <3>3. Claim(a, s)'
      BY <1>1, <2>3, <3>2 DEF Usable
    <3>4. \A b \in Apps, t \in Services : Claim(b, t)'
      BY <1>2, <2>3, <3>2, <3>3
    <3> QED
      BY <3>4 DEF RegisteredUsable
  <2> QED
    BY <2>4, <2>5
<1>9. ASSUME NEW w \in Workers, ShowPlan(w) \/ Ends(w) \/ Opens(w) \/ Succeeds(w)
      PROVE  UNCHANGED <<registry, live, stale>>
  BY <1>9, EndsTypes, OpensEffect, SucceedsTypes DEF ShowPlan
<1>10. FileStep => UNCHANGED <<registry, live, stale>>
  BY OpenDumpEffect, FileEffect DEF FileStep
<1> QED
  BY <1>3, <1>4, <1>5, <1>6, <1>7, <1>8, <1>9, <1>10, NextSplit DEF Life

-----------------------------------------------------------------------------
(***************************************************************************)
(* Removal.                                                                *)
(***************************************************************************)
LEMMA AwaitsSame ==
  ASSUME NEW j, NEW k, j.pc = k.pc, j.app = k.app, j.file = k.file, j.plan = k.plan,
         NEW a, NEW s, Awaits(j, a, s)
  PROVE  Awaits(k, a, s)
BY DEF Awaits, Applying, Subject, Target

(* Whoever continues awaits nothing new.                                   *)
LEMMA AwaitsContinue ==
  ASSUME NEW j, NEW a, NEW s, Awaits(Continue(j), a, s)
  PROVE  \E n \in j.plan : Target(j, n) = a /\ n.svc = s
<1>1. Continue(j).plan = {} \/ (Continue(j).plan = j.plan /\ Continue(j).app = j.app)
  BY DEF Continue, Idle
<1>2. ~Applying(Continue(j))
  BY DEF Continue, Idle, Applying
<1> QED
  BY <1>1, <1>2 DEF Awaits, Target

(* A plan is of the services the app has, of the app's newest files.       *)
LEMMA PlanMember ==
  ASSUME TypeOK, NEW a \in Apps, NEW S, NEW n \in Plan(a, S)
  PROVE  /\ n.app = a /\ n.svc \in Chosen(a, S) /\ n \in Names
         /\ \E f \in files :
              /\ n = Name(f) /\ f.app = a /\ f.svc = n.svc
              /\ \A g \in files : g.app = a /\ g.svc = n.svc => g.ts <= n.ts
<1>1. PICK s \in Chosen(a, S) : \E f \in Latest({f \in files : f.app = a /\ f.svc = s}) : n = Name(f)
  BY DEF Plan
<1>2. PICK f \in files : /\ n = Name(f) /\ f.app = a /\ f.svc = s
                         /\ \A g \in files : g.app = a /\ g.svc = s => g.ts <= f.ts
  BY <1>1 DEF Latest
<1>3. f \in File
  BY DEF TypeOK
<1> QED
  BY <1>2, <1>3 DEF Name, File, Names

LEMMA EndsAwaits ==
  ASSUME TypeOK, NEW w \in Workers, Ends(w), NEW a, NEW s, Awaits(job'[w], a, s)
  PROVE  Awaits(job[w], a, s) \/ (a \in Apps /\ s \in Services /\ registry[a][s] # 0)
<1>1. \A j : Goto(w, j) => job'[w] = j
  BY DEF Goto, TypeOK
<1>2. job[w] \in Job
  BY JobShape
<1>3. CASE Confirm(w)
  <2> DEFINE j == [job[w] EXCEPT !.plan = PlanAgain(job[w])]
  <2>1. job'[w] = Continue(j) /\ job[w].app \in Apps
    BY <1>1, <1>3, JobShape DEF Confirm
  <2>2. j.plan = PlanAgain(job[w]) /\ j.app = job[w].app
    BY <1>2 DEF Job
  <2> HIDE DEF j
  <2>3. PICK n \in j.plan : Target(j, n) = a /\ n.svc = s
    BY <2>1, AwaitsContinue
  <2>4. n \in Plan(job[w].app, job[w].asked)
    BY <2>2, <2>3 DEF PlanAgain
  <2>5. n.app = job[w].app /\ n.svc \in Chosen(job[w].app, job[w].asked)
    BY <2>1, <2>4, PlanMember
  <2> QED
    BY <2>1, <2>2, <2>3, <2>5 DEF Target, Chosen, ServicesOf
<1>4. CASE SkipService(w)
  <2>1. PICK n \in job[w].plan : Goto(w, Continue([job[w] EXCEPT !.plan = @ \ {n}]))
    BY <1>4 DEF SkipService
  <2> DEFINE j == [job[w] EXCEPT !.plan = @ \ {n}]
  <2>2. j.plan \subseteq job[w].plan /\ j.app = job[w].app /\ job'[w] = Continue(j)
    BY <1>1, <1>2, <2>1 DEF Job
  <2> HIDE DEF j
  <2>3. PICK m \in j.plan : Target(j, m) = a /\ m.svc = s
    BY <2>2, AwaitsContinue
  <2> QED
    BY <2>2, <2>3 DEF Awaits, Target
<1>5. CASE RestoreFails(w) \/ Restored(w)
  <2>1. job'[w] = Continue(job[w])
    BY <1>1, <1>5 DEF RestoreFails, Restored
  <2>2. \E n \in job[w].plan : Target(job[w], n) = a /\ n.svc = s
    BY <2>1, AwaitsContinue
  <2> QED
    BY <2>2 DEF Awaits
<1>6. CASE Stop(w)
  <2>1. job'[w] = Idle
    BY <1>1, <1>6 DEF Stop
  <2> QED
    BY <2>1, IdleType DEF Awaits, Held
<1> QED
  BY <1>3, <1>4, <1>5, <1>6 DEF Ends

LEMMA OpenFileAwaits ==
  ASSUME TypeOK, NEW w \in Workers, OpenFile(w), NEW a, NEW s, Awaits(job'[w], a, s)
  PROVE  Awaits(job[w], a, s)
<1>1. PICK f \in files : Name(f) \in job[w].plan /\ job'[w] = Opened(job[w], f)
  BY OpenFileTypes
<1>2. job[w] \in Job /\ job[w].app \in Apps /\ f \in File
  BY OpenFileTypes, JobShape DEF TypeOK
<1>3. job'[w].app = job[w].app /\ job'[w].file = f /\ job'[w].plan = job[w].plan \ {Name(f)}
  BY <1>1, <1>2, OpenedType
<1>4. Name(f).svc = f.svc /\ Target(job[w], Name(f)) = Target(job[w], f)
  BY DEF Name, Target
<1> QED
  BY <1>1, <1>3, <1>4 DEF Awaits, Subject, Target

LEMMA RemovalStep ==
  ASSUME TypeOK, Expected, NothingAfterRemoval, Next
  PROVE  Expected' /\ NothingAfterRemoval'
<1> DEFINE Known(a, s) == registry[a][s] # 0 \/ <<a, s>> \in revived
           OfJob(v) == \A a \in Apps, s \in Services : Awaits(job[v], a, s) => Known(a, s)
           Nothing(a, s) == ~Known(a, s) => live[a][s] = Blank
<1>1. /\ \A v \in Workers : OfJob(v)
      /\ \A a \in Apps, s \in Services : Nothing(a, s)
  BY PendingIsAwaited DEF Expected, NothingAfterRemoval
<1>2. (\A v \in Workers : OfJob(v)') => Expected'
  <2>1. \A j, a, s : <<a, s>> \in Pending(j) => Awaits(j, a, s)
    BY PendingIsAwaited
  <2>2. \A v, a, s : <<a, s>> \in Pending(job[v])' => Awaits(job[v], a, s)'
    BY <2>1 DEF Pending, Awaits, Target, Subject, Applying
  <2> QED
    BY <2>2 DEF Expected
<1>3. (\A a \in Apps, s \in Services : Nothing(a, s)') => NothingAfterRemoval'
  BY DEF NothingAfterRemoval
<1>4. ASSUME NEW v \in Workers, Kept(v), NEW a, NEW s, Awaits(job'[v], a, s)
      PROVE  Awaits(job[v], a, s)
  BY <1>4, KeptShape, AwaitsSame
<1>5. ASSUME \A a \in Apps, s \in Services : Known(a, s) => Known(a, s)',
             NEW v \in Workers, Kept(v)
      PROVE  OfJob(v)'
  BY <1>1, <1>4, <1>5
<1>6. CASE SetupApp
  <2>1. PICK a \in Apps, S \in SUBSET Services :
           /\ now' = now + 1
           /\ \A s \in Services :
                /\ registry[a][s] = 0
                /\ registry'[a][s] = IF s \in S THEN now' ELSE 0
                /\ s \notin S => live'[a][s] = live[a][s]
           /\ \A b \in Apps : b # a => registry'[b] = registry[b] /\ live'[b] = live[b]
           /\ revived' = revived
    BY <1>6, SetupEffect
  <2>2. now' # 0
    BY <2>1 DEF TypeOK, Time
  <2>3. \A b \in Apps, s \in Services : Known(b, s) => Known(b, s)'
    BY <2>1
  <2>4. \A b \in Apps, s \in Services : Nothing(b, s)'
    BY <1>1, <2>1, <2>2
  <2> QED
    BY <1>2, <1>3, <1>5, <1>6, <2>3, <2>4, SetupTypes
<1>7. CASE RemoveApp
  <2>1. PICK a \in Apps :
           /\ registry' = [registry EXCEPT ![a] = [s \in Services |-> 0]]
           /\ \A s \in Services : live'[a][s] = IF registry[a][s] # 0 THEN Blank ELSE live[a][s]
           /\ \A b \in Apps : b # a => live'[b] = live[b]
           /\ \A b \in Apps, s \in Services :
                <<b, s>> \in revived' <=>
                  IF b = a /\ registry[a][s] # 0
                  THEN \E w \in Workers : <<b, s>> \in Pending(job[w])
                  ELSE <<b, s>> \in revived
    BY <1>7, RemoveEffect
  <2>2. /\ \A s \in Services : registry'[a][s] = 0
        /\ \A b \in Apps, s \in Services : b # a => registry'[b][s] = registry[b][s]
    BY <2>1 DEF TypeOK
  <2>3. ASSUME NEW v \in Workers, NEW b \in Apps, NEW s \in Services, Awaits(job[v], b, s)
        PROVE  Known(b, s)'
    <3>1. <<b, s>> \in Pending(job[v]) /\ Known(b, s)
      BY <1>1, <2>3, PendingIsAwaited
    <3> QED
      BY <2>1, <2>2, <3>1
  <2>4. \A v \in Workers : OfJob(v)'
    BY <1>4, <1>7, <2>3, RemoveTypes
  <2>5. \A b \in Apps, s \in Services : Nothing(b, s)'
    BY <1>1, <2>1, <2>2
  <2> QED
    BY <1>2, <1>3, <2>4, <2>5
<1>8. CASE Reconcile \/ AppWrites
  <2>1. registry' = registry /\ revived' = revived /\ \A v \in Workers : Kept(v)
    BY <1>8, ReconcileEffect, WritesEffect, LifeTypes
  <2>2. \A a \in Apps, s \in Services : Nothing(a, s)'
    <3>1. \A a \in Apps, s \in Services : registry[a][s] = 0 => live'[a][s] = live[a][s]
      BY <1>8, ReconcileEffect, WritesEffect
    <3> QED
      BY <1>1, <2>1, <3>1
  <2> QED
    BY <1>2, <1>3, <1>5, <2>1, <2>2
<1>9. CASE FileStep
  <2>1. registry' = registry /\ revived' = revived /\ live' = live /\ \A v \in Workers : Kept(v)
    BY <1>9, FileTypes, OpenDumpEffect, FileEffect DEF FileStep
  <2> QED
    BY <1>1, <1>2, <1>3, <1>5, <2>1
<1>10. ASSUME NEW w \in Workers, ShowPlan(w) \/ Ends(w) \/ Opens(w) \/ Succeeds(w) \/ Command(w)
       PROVE  Expected' /\ NothingAfterRemoval'
  <2>1. /\ registry' = registry /\ revived \subseteq revived'
        /\ \A v \in Workers : v # w => Kept(v)
    <3>1. CASE Opens(w)
      BY <3>1, OpensEffect, OpenFileTypes, RestoreFromFileTypes DEF Opens
    <3>2. CASE ~Opens(w)
      BY <1>10, <3>2, ShowPlanTypes, EndsTypes, SucceedsTypes, CommandTypes DEF ShowPlan, Steady
    <3> QED
      BY <3>1, <3>2
  <2>2. \A a \in Apps, s \in Services : Known(a, s) => Known(a, s)'
    BY <2>1
  <2>3. ASSUME NEW a \in Apps, NEW s \in Services, Awaits(job'[w], a, s) PROVE Known(a, s)'
    <3>1. CASE ShowPlan(w)
      BY <2>3, <3>1, ShowPlanTypes DEF Awaits, Held
    <3>2. CASE Ends(w)
      BY <1>1, <2>2, <2>3, <3>2, EndsAwaits
    <3>3. CASE OpenFile(w)
      BY <1>1, <2>2, <2>3, <3>3, OpenFileAwaits
    <3>4. CASE RestoreFromFile(w)
      <4>1. revived' = revived \cup {p \in Pending(job'[w]) : registry[p[1]][p[2]] = 0}
        BY <3>4, RestoreFromFileTypes
      <4>2. <<a, s>> \in Pending(job'[w])
        BY <2>3, PendingIsAwaited
      <4> QED
        BY <2>1, <4>1, <4>2
    <3>5. CASE Succeeds(w) \/ Command(w)
      <4>1. SameRestore(job'[w], job[w]) /\ Applying(job[w])
        BY <3>5, SucceedsTypes, CommandTypes DEF Steady, Succeeds, Applying
      <4>2. Awaits(job[w], a, s)
        BY <2>3, <4>1 DEF SameRestore, Awaits, Subject, Target
      <4> QED
        BY <1>1, <2>2, <4>2
    <3> QED
      BY <1>10, <3>1, <3>2, <3>3, <3>4, <3>5 DEF Opens
  <2>4. ASSUME NEW a \in Apps, NEW s \in Services PROVE Nothing(a, s)'
    <3>1. CASE Command(w)
      <4>1. CASE a = Subject(job[w]) /\ s = job[w].file.svc
        <5>1. Awaits(job[w], a, s)
          BY <3>1, <4>1, CommandTypes DEF Awaits
        <5> QED
          BY <1>1, <2>2, <5>1
      <4>2. CASE ~(a = Subject(job[w]) /\ s = job[w].file.svc)
        <5>1. live'[a][s] = live[a][s]
          BY <3>1, <4>2, CommandTypes DEF Steady
        <5> QED
          BY <1>1, <2>2, <5>1
      <4> QED
        BY <4>1, <4>2
    <3>2. CASE ~Command(w)
      <4>1. live' = live
        BY <1>10, <3>2, EndsTypes, OpensEffect, SucceedsTypes DEF ShowPlan
      <4> QED
        BY <1>1, <2>2, <4>1
    <3> QED
      BY <3>1, <3>2
  <2>5. \A v \in Workers : OfJob(v)'
    BY <1>5, <2>1, <2>2, <2>3
  <2> QED
    BY <1>2, <1>3, <2>4, <2>5
<1> QED
  BY <1>6, <1>7, <1>8, <1>9, <1>10, NextSplit DEF Life

-----------------------------------------------------------------------------
(***************************************************************************)
(* The plan.  A service with a backup has a newest one: dates are bounded. *)
(***************************************************************************)
LEMMA HasLatest ==
  ASSUME NEW G, G # {}, \A f \in G : f.ts \in Time
  PROVE  Latest(G) # {}
<1> DEFINE Age == {MaxNow - f.ts : f \in G}
<1>1. Age # {} /\ Age \subseteq Nat
  BY BoundsAssumption DEF Time
<1> HIDE DEF Age
<1>2. PICK x \in Age : \A y \in Age : <<y, x>> \notin OpToRel(<, Nat)
  BY <1>1, NatLessThanWellFounded, WFMin
<1>3. \A y \in Age : ~(y < x)
  BY <1>1, <1>2 DEF OpToRel
<1>4. PICK f \in G : x = MaxNow - f.ts
  BY DEF Age
<1>5. ASSUME NEW g \in G PROVE g.ts <= f.ts
  <2>1. MaxNow - g.ts \in Age
    BY DEF Age
  <2>2. ~(MaxNow - g.ts < MaxNow - f.ts)
    BY <1>3, <1>4, <2>1
  <2> QED
    BY <2>2, BoundsAssumption DEF Time
<1> QED
  BY <1>5 DEF Latest

LEMMA PlanHasLatest ==
  ASSUME TypeOK, NEW a \in Apps, NEW S, NEW f \in files, f.app = a, f.svc \in Chosen(a, S)
  PROVE  \E n \in Plan(a, S) : n.svc = f.svc /\ f.ts <= n.ts
<1> DEFINE G == {g \in files : g.app = a /\ g.svc = f.svc}
<1>1. f \in G /\ \A g \in G : g.ts \in Time
  BY DEF TypeOK, File
<1>2. PICK g \in Latest(G) : TRUE
  BY <1>1, HasLatest
<1>3. g \in files /\ g.svc = f.svc /\ f.ts <= g.ts
  BY <1>1, <1>2 DEF Latest
<1>4. Name(g) \in Plan(a, S)
  BY <1>2 DEF Plan
<1>5. Name(g).svc = g.svc /\ Name(g).ts = g.ts
  BY DEF Name
<1> QED
  BY <1>3, <1>4, <1>5

PromptOf(j) ==
  j.pc = "prompt" =>
    /\ \A n \in j.shown : n.app = j.app
    /\ \A f \in files :
         /\ f.app = j.app /\ f.svc \in Chosen(j.app, j.asked)
         /\ registry[j.app][f.svc] <= j.since /\ f.ts <= j.since
         => \E n \in j.shown : n.svc = f.svc /\ f.ts <= n.ts

(* A prompt stays true of what is there: what is set up or backed up since *)
(* is dated since.                                                         *)
LEMMA PromptKept ==
  ASSUME TypeOK, Dated, NEW j \in Job, j.app \in Apps, j.since <= now, PromptOf(j),
         Life \/ registry' = registry,
         \A g \in files' : g.ts = now + 1 \/ \E h \in files : Same(g, h)
  PROVE  PromptOf(j)'
<1> SUFFICES ASSUME j.pc = "prompt", NEW g \in files',
                    g.app = j.app, g.svc \in Chosen(j.app, j.asked)',
                    registry'[j.app][g.svc] <= j.since, g.ts <= j.since
             PROVE  \E n \in j.shown : n.svc = g.svc /\ g.ts <= n.ts
  BY DEF PromptOf
<1>1. now \in Nat /\ j.since \in Nat
  BY DEF TypeOK, Time, Job
<1>2. PICK h \in files : Same(g, h)
  BY <1>1
<1>3. g.svc \in Services /\ registry'[j.app][g.svc] # 0
      /\ (j.asked = {} \/ g.svc \in j.asked)
  BY DEF Chosen, ServicesOf
<1>4. registry'[j.app][g.svc] \in {registry[j.app][g.svc], 0, now + 1}
  BY <1>3, LifeOfRegistry
<1>5. registry'[j.app][g.svc] = registry[j.app][g.svc]
  BY <1>1, <1>3, <1>4
<1>6. h.app = j.app /\ h.svc = g.svc /\ h.ts = g.ts
  BY <1>2 DEF Same
<1>7. g.svc \in Chosen(j.app, j.asked)
  BY <1>3, <1>5 DEF Chosen, ServicesOf
<1> QED
  BY <1>5, <1>6, <1>7 DEF PromptOf

LEMMA PromptedStep ==
  ASSUME TypeOK, Dated, Prompted, Next
  PROVE  Prompted'
<1>1. \A v \in Workers : PromptOf(job[v])
  BY DEF Prompted, PromptOf
<1>2. (\A v \in Workers : PromptOf(job[v])') => Prompted'
  BY DEF Prompted, PromptOf
<1>3. ASSUME NEW v \in Workers, Kept(v), Life \/ registry' = registry,
             \A g \in files' : g.ts = now + 1 \/ \E h \in files : Same(g, h)
      PROVE  PromptOf(job[v])'
  <2>1. PICK j \in Job : j = job[v]
    BY JobShape
  <2>2. /\ job'[v].pc = j.pc /\ job'[v].app = j.app /\ job'[v].shown = j.shown
        /\ job'[v].asked = j.asked /\ job'[v].since = j.since
    BY <1>3, <2>1, KeptShape
  <2>3. CASE j.pc # "prompt"
    BY <2>2, <2>3 DEF PromptOf
  <2>4. CASE j.pc = "prompt"
    <3>1. j.app \in Apps /\ PromptOf(j) /\ j.since <= now
      BY <1>1, <2>1, <2>4, JobShape DEF Dated
    <3>2. PromptOf(j)'
      BY <1>3, <3>1, PromptKept
    <3> QED
      BY <2>2, <3>2 DEF PromptOf, Chosen
  <2> QED
    BY <2>3, <2>4
<1>4. \A f : Same(f, f)
  BY DEF Same
<1>5. CASE Life
  BY <1>2, <1>3, <1>4, <1>5, LifeKeepsFiles, LifeTypes DEF Life
<1>6. CASE FileStep
  <2>1. registry' = registry /\ \A v \in Workers : Kept(v)
    BY <1>6, FileTypes, OpenDumpEffect, FileEffect DEF FileStep
  <2>2. \A g \in files' : g.ts = now + 1 \/ \E h \in files : Same(g, h)
    BY <1>4, <1>6, OpenDumpEffect, FileEffect DEF FileStep
  <2> QED
    BY <1>2, <1>3, <2>1, <2>2
<1>7. ASSUME NEW w \in Workers, ShowPlan(w) \/ Ends(w) \/ Opens(w) \/ Succeeds(w) \/ Command(w)
      PROVE  Prompted'
  <2>1. /\ files' = files /\ registry' = registry
        /\ \A v \in Workers : v # w => Kept(v)
    BY <1>7, ShowPlanTypes, EndsTypes, OpensEffect, SucceedsTypes, CommandTypes
       DEF ShowPlan, Steady
  <2>2. PromptOf(job[w])'
    <3>1. CASE ShowPlan(w)
      <4>1. PICK j \in Job : j = job'[w]
        BY <3>1, ShowPlanTypes, StepTypes DEF TypeOK
      <4>2. j.shown = Plan(j.app, j.asked) /\ j.pc = "prompt" /\ j.app \in Apps
        BY <3>1, <4>1, ShowPlanTypes, AppsAssumption DEF TypeOK, Job
      <4>3. \A n \in j.shown : n.app = j.app
        <5> SUFFICES ASSUME NEW n \in Plan(j.app, j.asked) PROVE n.app = j.app
          BY <4>2
        <5> QED
          BY <4>2, PlanMember
      <4>4. ASSUME NEW f \in files, f.app = j.app, f.svc \in Chosen(j.app, j.asked)
            PROVE  \E n \in j.shown : n.svc = f.svc /\ f.ts <= n.ts
        <5>1. \E n \in Plan(j.app, j.asked) : n.svc = f.svc /\ f.ts <= n.ts
          BY <4>2, <4>4, PlanHasLatest
        <5> QED
          BY <4>2, <5>1
      <4> QED
        BY <2>1, <4>1, <4>3, <4>4 DEF PromptOf, Chosen, ServicesOf
    <3>2. CASE ~ShowPlan(w)
      <4>1. job'[w].pc # "prompt"
        BY <1>7, <3>2, EndsTypes, OpensEffect, SucceedsTypes, CommandTypes DEF Applying, Held
      <4> QED
        BY <4>1 DEF PromptOf
    <3> QED
      BY <3>1, <3>2
  <2> QED
    BY <1>2, <1>3, <1>4, <2>1, <2>2
<1> QED
  BY <1>5, <1>6, <1>7, NextSplit

(* PlanKept of one step.                                                   *)
PlanKeptStep ==
  \A w \in Workers : LET j == job[w] IN
    j.pc = "prompt" /\ job'[w].pc = "next" =>
      \A m \in job'[w].plan :
        /\ \/ m \in j.shown \/ m.ts > j.since \/ registry[m.app][m.svc] > j.since
           \/ \E n \in j.shown : n.svc = m.svc /\ Deleted(n)
        /\ \A f \in files : f.app = m.app /\ f.svc = m.svc /\ f.ts <= j.since
                            => f.ts <= m.ts

LEMMA PlanKeptByStep ==
  ASSUME TypeOK, Prompted, Next
  PROVE  PlanKeptStep
<1> SUFFICES ASSUME NEW w \in Workers, job[w].pc = "prompt", job'[w].pc = "next",
                    NEW m \in job'[w].plan
             PROVE  LET j == job[w] IN
        /\ \/ m \in j.shown \/ m.ts > j.since \/ registry[m.app][m.svc] > j.since
           \/ \E n \in j.shown : n.svc = m.svc /\ Deleted(n)
        /\ \A f \in files : f.app = m.app /\ f.svc = m.svc /\ f.ts <= j.since
                            => f.ts <= m.ts
  BY DEF PlanKeptStep
<1>1. PICK j \in Job : j = job[w] /\ j.app \in Apps /\ j.since \in Nat
  BY JobShape DEF Job, Time
<1>2. Confirm(w)
  <2>1. ~Kept(w)
    BY KeptShape
  <2>2. ~Life /\ ~FileStep
    BY <2>1, LifeTypes, FileTypes DEF Life
  <2>3. \A v \in Workers : ShowPlan(v) \/ Ends(v) \/ Opens(v) \/ Succeeds(v) \/ Command(v)
          => v = w
    BY <2>1, ShowPlanTypes, EndsTypes, OpensEffect, SucceedsTypes, CommandTypes DEF Steady
  <2>4. ~ShowPlan(w) /\ ~Opens(w) /\ ~Succeeds(w) /\ ~Command(w)
    BY CommandTypes DEF ShowPlan, Opens, OpenFile, RestoreFromFile, Succeeds, Applying
  <2>5. ~SkipService(w) /\ ~RestoreFails(w) /\ ~Restored(w)
    BY DEF SkipService, RestoreFails, Restored, Applying
  <2>6. ~Stop(w)
    BY DEF Stop, Goto, Idle, TypeOK
  <2> QED
    BY <2>2, <2>3, <2>4, <2>5, <2>6, NextSplit DEF Ends
<1>3. m \in Plan(j.app, j.asked)
  <2> DEFINE k == [j EXCEPT !.plan = PlanAgain(j)]
  <2>1. job'[w] = Continue(k)
    BY <1>1, <1>2 DEF Confirm, Goto, TypeOK
  <2>2. k.plan = PlanAgain(j)
    BY <1>1 DEF Job
  <2> HIDE DEF k
  <2>3. Continue(k).plan \subseteq k.plan
    BY DEF Continue, Idle
  <2>4. m \in PlanAgain(j)
    BY <2>1, <2>2, <2>3
  <2> QED
    BY <2>4 DEF PlanAgain
<1>4. /\ m.app = j.app /\ m.svc \in Chosen(j.app, j.asked) /\ m \in Names
      /\ \E f \in files : m = Name(f) /\ f.app = j.app /\ f.svc = m.svc
      /\ \A g \in files : g.app = j.app /\ g.svc = m.svc => g.ts <= m.ts
  BY <1>1, <1>3, PlanMember
<1>5. \A f \in files : f.app = m.app /\ f.svc = m.svc /\ f.ts <= j.since => f.ts <= m.ts
  BY <1>4
<1>6. ASSUME m.ts <= j.since, registry[m.app][m.svc] <= j.since,
             ~\E n \in j.shown : n.svc = m.svc /\ Deleted(n)
      PROVE  m \in j.shown
  <2>1. PICK f \in files : m = Name(f) /\ f.app = j.app /\ f.svc = m.svc
    BY <1>4
  <2>2. f.ts = m.ts
    BY <2>1 DEF Name
  <2>3. PromptOf(j)
    BY <1>1 DEF Prompted, PromptOf
  <2>4. PICK n \in j.shown : n.svc = m.svc /\ m.ts <= n.ts /\ n.app = j.app
    BY <1>1, <1>4, <1>6, <2>1, <2>2, <2>3 DEF PromptOf
  <2>5. PICK g \in files : Name(g) = n
    BY <1>6, <2>4 DEF Deleted
  <2>6. g.app = n.app /\ g.svc = n.svc /\ g.ts = n.ts
    BY <2>5 DEF Name
  <2>7. n.ts <= m.ts
    BY <1>4, <2>4, <2>6
  <2>8. n \in Names /\ m \in Names
    BY <1>1, <1>4 DEF Job
  <2>9. n.app = m.app /\ n.svc = m.svc /\ n.ts = m.ts
    BY <1>4, <2>4, <2>7, <2>8 DEF Names, Time
  <2> QED
    BY <2>4, <2>8, <2>9 DEF Names
<1>7. m.ts \in Nat /\ registry[m.app][m.svc] \in Nat
  BY <1>1, <1>4 DEF Names, Time, TypeOK
<1> QED
  BY <1>1, <1>5, <1>6, <1>7

-----------------------------------------------------------------------------
(***************************************************************************)
(* What restores deliver.  A course is of the job and of the content c of  *)
(* its subject.                                                            *)
(***************************************************************************)
LEMMA CourseNotAlone ==
  ASSUME NEW j \in Job, NEW c, NEW d, Course(j, c)
  PROVE  Course(NotAlone(j), d)
<1>1. /\ NotAlone(j).pc = j.pc /\ NotAlone(j).file = j.file /\ NotAlone(j).drop = j.drop
      /\ NotAlone(j).fill = j.fill /\ ~NotAlone(j).quiet
  BY NotAloneType
<1>2. Placed(NotAlone(j))
  BY <1>1 DEF Course, Placed, Applying
<1>3. Progress(NotAlone(j), d) /\ Delivered(NotAlone(j), d)
  BY <1>1 DEF Progress, Delivered
<1>4. Half(NotAlone(j), d)
  BY <1>1 DEF Course, Half
<1> QED
  BY <1>2, <1>3, <1>4 DEF Course

LEMMA CourseOpened ==
  ASSUME NEW j, NEW f, NEW c, Applying(j), j.file = f, j.before = c,
         j.fill = Fills(j, f), j.drop = Drops(f) \cap Fills(j, f)
  PROVE  Course(j, c)
<1>1. j.pc # "restored"
  BY DEF Applying
<1>2. Placed(j)
  BY DEF Placed, Drops, Dropping, Fills
<1>3. ASSUME NEW i \in Items
      PROVE  /\ f.svc \in Dropping => i \notin j.fill \ j.drop
             /\ f.svc = "postgres" => c[i] = j.before[i]
             /\ ~Foreign(j) /\ f.svc # "rabbitmq" /\ i \notin j.fill => Promised(j, i, c)
  <2>1. f.svc \in Dropping => i \notin j.fill \ j.drop
    BY DEF Dropping, Drops, Fills
  <2>2. ASSUME ~Foreign(j), i \notin j.fill PROVE f.svc # "aistor" /\ f.items[i] = NoValue
    BY <2>2 DEF Foreign, Fills, InDump
  <2>3. f.svc # "aistor" /\ f.items[i] = NoValue => Promised(j, i, c)
    BY DEF Promised, Snapshot
  <2> QED
    BY <2>1, <2>2, <2>3
<1>4. Progress(j, c)
  BY <1>3 DEF Progress, Dropping
<1> QED
  BY <1>1, <1>2, <1>4 DEF Course, Delivered, Half

LEMMA CourseDrops ==
  ASSUME NEW j, NEW k, NEW c, NEW d, Course(j, c), Applying(j), Applying(k),
         SameRestore(k, j), k.fill = j.fill,
         NEW i \in j.drop, k.drop = j.drop \ {i}, d[i] \in Dropped(j.file.svc, c[i]),
         \A n \in Items : n # i => d[n] = c[n]
  PROVE  Course(k, d)
<1>1. /\ j.drop \subseteq j.fill /\ j.file.svc \in Dropping
      /\ j.file.svc # "aistor" => j.fill \subseteq InDump(j.file)
  BY DEF Course, Placed
<1>2. k.file = j.file /\ k.app = j.app /\ k.before = j.before /\ k.quiet = j.quiet
  BY DEF SameRestore
<1>3. Placed(k)
  BY <1>1, <1>2 DEF Placed
<1>4. j.file.svc # "redis" /\ j.file.svc # "rabbitmq"
  BY <1>1 DEF Dropping
<1>5. ASSUME j.quiet, NEW n \in Items
      PROVE  /\ j.file.svc = "mongodb" /\ n \in k.fill \ k.drop => d[n] = NoValue
             /\ j.file.svc = "postgres" /\ n \in k.fill => d[n] \in {NoValue, j.before[n]}
             /\ ~Foreign(j) /\ n \notin k.fill => Promised(k, n, d)
  <2>1. /\ j.file.svc = "mongodb" /\ n \in j.fill \ j.drop => c[n] = NoValue
        /\ j.file.svc = "postgres" /\ n \in j.fill => c[n] \in {NoValue, j.before[n]}
        /\ ~Foreign(j) /\ n \notin j.fill => Promised(j, n, c)
    BY <1>1, <1>4, <1>5 DEF Course, Progress
  <2>2. n \in k.fill => d[n] = c[n] \/ (n = i /\ d[n] \in Dropped(j.file.svc, c[n]))
    OBVIOUS
  <2>3. n \notin k.fill => d[n] = c[n] /\ (Promised(k, n, d) <=> Promised(j, n, c))
    BY <1>1, <1>2 DEF Promised
  <2> QED
    BY <1>1, <2>1, <2>2, <2>3 DEF Dropped
<1>6. Progress(k, d)
  BY <1>2, <1>4, <1>5 DEF Progress, Foreign
<1> QED
  BY <1>3, <1>6 DEF Course, Delivered, Half, Applying

LEMMA FilledIsPromised ==
  ASSUME NEW s, NEW i, NEW v, NEW d \in Value, NEW x \in Filled(s, i, v, d),
         s # "rabbitmq", s # "aistor" => d # NoValue, s = "mongodb" => v = NoValue,
         NEW b, s = "redis" => b = v, s = "postgres" => v \in {NoValue, b}
  PROVE  x \in Snapshot(s, i, b, d)
<1>1. Both(NoValue, d) = d
  BY DEF Both, NoValue, Value
<1>2. CASE s = "postgres"
  BY <1>1, <1>2 DEF Filled, Snapshot
<1>3. CASE s # "postgres"
  BY <1>3 DEF Filled, Snapshot
<1> QED
  BY <1>2, <1>3

LEMMA CourseFills ==
  ASSUME NEW j, NEW k, NEW c, NEW d, Course(j, c), Applying(j), Applying(k),
         SameRestore(k, j), k.drop = j.drop, j.fill \subseteq Items,
         j.file.svc # "rabbitmq", Parses(j.file), NEW i \in j.fill \ j.drop,
         j.file.items[i] \in Value,
         k.fill = j.fill \ {i}, d[i] \in Filled(j.file.svc, i, c[i], j.file.items[i]),
         \A n \in Items : n # i => d[n] = c[n]
  PROVE  Course(k, d)
<1>1. /\ j.drop \subseteq j.fill /\ (j.file.svc \notin Dropping => j.drop = {})
      /\ j.file.svc # "aistor" => j.fill \subseteq InDump(j.file)
  BY DEF Course, Placed
<1>2. k.file = j.file /\ k.app = j.app /\ k.before = j.before /\ k.quiet = j.quiet
  BY DEF SameRestore
<1>3. Placed(k)
  BY <1>1, <1>2 DEF Placed
<1>4. j.file.svc = "redis" => j.file.body = "whole"
  BY DEF Parses
<1>5. ASSUME j.quiet PROVE Promised(j, i, d)
  <2>1. i \in Items /\ (j.file.svc # "aistor" => j.file.items[i] # NoValue)
    BY <1>1 DEF InDump
  <2>2. /\ j.file.svc = "mongodb" => c[i] = NoValue
        /\ j.file.svc = "postgres" => c[i] \in {NoValue, j.before[i]}
        /\ j.file.svc = "redis" => c[i] = j.before[i]
    BY <1>5, <2>1 DEF Course, Progress
  <2> QED
    BY <2>1, <2>2, FilledIsPromised DEF Promised
<1>6. ASSUME j.quiet, NEW n \in Items
      PROVE  /\ j.file.svc = "mongodb" /\ n \in k.fill \ k.drop => d[n] = NoValue
             /\ j.file.svc = "postgres" /\ n \in k.fill => d[n] \in {NoValue, j.before[n]}
             /\ j.file.svc = "redis" /\ n \in k.fill => d[n] = j.before[n]
             /\ ~Foreign(j) /\ n \notin k.fill => Promised(k, n, d)
  <2>1. /\ j.file.svc = "mongodb" /\ n \in j.fill \ j.drop => c[n] = NoValue
        /\ j.file.svc = "postgres" /\ n \in j.fill => c[n] \in {NoValue, j.before[n]}
        /\ j.file.svc = "redis" /\ n \in j.fill => c[n] = j.before[n]
        /\ ~Foreign(j) /\ n \notin j.fill => Promised(j, n, c)
    BY <1>6 DEF Course, Progress
  <2>2. Promised(k, n, d) <=> Promised(j, n, d)
    BY <1>2 DEF Promised
  <2>3. CASE n = i
    BY <1>5, <1>6, <2>2, <2>3
  <2>4. CASE n # i
    <3>1. d[n] = c[n] /\ (Promised(j, n, c) => Promised(j, n, d))
      BY <2>4 DEF Promised
    <3> QED
      BY <2>1, <2>2, <2>4, <3>1
  <2> QED
    BY <2>3, <2>4
<1>7. Progress(k, d)
  BY <1>2, <1>4, <1>6 DEF Progress, Foreign
<1> QED
  BY <1>3, <1>7 DEF Course, Delivered, Half, Applying

LEMMA CourseSucceeds ==
  ASSUME NEW j, NEW k, NEW c \in Values, j.before \in Values, Course(j, c), Applying(j),
         SameRestore(k, j), k.pc = "restored", j.file.svc # "rabbitmq",
         \/ j.file.body = "whole" /\ j.fill = {}
         \/ j.file.body # "whole" /\ j.file.svc \in {"postgres", "redis"}
  PROVE  Course(k, c)
<1>1. k.file = j.file /\ k.app = j.app /\ k.before = j.before /\ k.quiet = j.quiet
  BY DEF SameRestore
<1>2. ~Applying(k)
  BY DEF Applying
<1>3. Delivered(k, c)
  <2> SUFFICES ASSUME k.quiet, k.file.body = "whole", ~Foreign(k), NEW i \in Items
               PROVE  Promised(k, i, c)
    BY DEF Delivered
  <2>1. Promised(j, i, c)
    BY <1>1 DEF Course, Progress, Foreign
  <2> QED
    BY <1>1, <2>1 DEF Promised
<1>4. Half(k, c)
  <2> SUFFICES ASSUME j.file.body # "whole", j.file.svc # "postgres"
               PROVE  j.file.svc = "redis" /\ (j.quiet => c = j.before)
    BY <1>1 DEF Half
  <2>1. j.file.svc = "redis"
    OBVIOUS
  <2>2. ASSUME j.quiet PROVE c = j.before
    <3>1. \A i \in Items : c[i] = j.before[i]
      BY <2>1, <2>2 DEF Course, Progress
    <3> QED
      BY <3>1 DEF Values
  <2> QED
    BY <2>1, <2>2
<1> QED
  BY <1>2, <1>3, <1>4 DEF Course, Placed, Progress

LEMMA CourseImports ==
  ASSUME NEW j, NEW k, NEW c, NEW d, Course(j, c), Applying(j), SameRestore(k, j),
         k.pc = "restored", j.file.svc = "rabbitmq", Parses(j.file),
         NEW kept \in SUBSET (InDump(j.file) \ Absent(c)),
         \A i \in Items : d[i] = IF i \in InDump(j.file) \ kept THEN j.file.items[i] ELSE c[i]
  PROVE  Course(k, d)
<1>1. k.file = j.file /\ k.app = j.app /\ k.before = j.before /\ k.quiet = j.quiet
  BY DEF SameRestore
<1>2. ~Applying(k) /\ j.file.body = "whole"
  BY DEF Applying, Parses
<1>3. Delivered(k, d)
  <2> SUFFICES ASSUME k.quiet, NEW i \in Items PROVE Promised(k, i, d)
    BY DEF Delivered
  <2>1. c[i] = j.before[i]
    BY <1>1 DEF Course, Progress
  <2>2. CASE i \in InDump(j.file) \ kept
    <3>1. d[i] = j.file.items[i] /\ j.file.items[i] # NoValue
      BY <2>2 DEF InDump
    <3> QED
      BY <1>1, <3>1 DEF Promised, Snapshot
  <2>3. CASE i \notin InDump(j.file) \ kept
    <3>1. d[i] = j.before[i]
      BY <2>1, <2>3
    <3>2. j.file.items[i] # NoValue => j.before[i] # NoValue
      BY <2>1, <2>3 DEF InDump, Absent
    <3> QED
      BY <1>1, <3>1, <3>2 DEF Promised, Snapshot
  <2> QED
    BY <2>2, <2>3
<1> QED
  BY <1>1, <1>2, <1>3 DEF Course, Placed, Progress, Half

LEMMA CourseMakes ==
  ASSUME NEW j, NEW k, NEW c, NEW d, Course(j, c), Applying(j), Applying(k), SameRestore(k, j),
         k.drop = j.drop, k.fill = j.fill, d = c
  PROVE  Course(k, d)
<1>1. k.file = j.file /\ k.app = j.app /\ k.before = j.before /\ k.quiet = j.quiet
  BY DEF SameRestore
<1>2. Placed(k)
  BY <1>1 DEF Course, Placed
<1>3. Progress(k, d)
  BY <1>1 DEF Course, Progress, Promised, Foreign
<1> QED
  BY <1>2, <1>3 DEF Course, Delivered, Half, Applying

(* The subject of a restore stays the same.                                *)
LEMMA ContentSame ==
  ASSUME NEW w, NEW j, NEW k, j = job[w], k = job'[w], SameRestore(k, j)
  PROVE  Content(job[w])' = live'[Subject(j)][j.file.svc].items
BY DEF Content, Subject, Target, SameRestore

LEMMA CoursesStep ==
  ASSUME TypeOK, Courses, Next
  PROVE  Courses'
<1> DEFINE OfJob(v) == Held(job[v]) => Course(job[v], Content(job[v]))
<1>1. \A v \in Workers : OfJob(v)
  BY DEF Courses
<1>2. (\A v \in Workers : OfJob(v)') => Courses'
  BY DEF Courses
<1>3. ASSUME NEW v \in Workers, Kept(v), Held(job'[v])
      PROVE  Course(job'[v], Content(job[v])')
  <2>1. job[v] \in Job /\ Held(job[v]) /\ Course(job[v], Content(job[v]))
    BY <1>1, <1>3, KeptShape, JobShape DEF Held, Applying
  <2>2. CASE job'[v] = NotAlone(job[v])
    BY <2>1, <2>2, CourseNotAlone
  <2>3. CASE job'[v] = job[v] /\ live'[Subject(job[v])][job[v].file.svc].items = Content(job[v])
    <3>1. Content(job[v])' = Content(job[v])
      BY <2>3 DEF Content, Subject, Target
    <3> QED
      BY <2>1, <2>3, <3>1
  <2> QED
    BY <1>3, <2>1, <2>2, <2>3 DEF Kept
<1>4. ASSUME NEW v \in Workers, Held(job'[v]) => Course(job'[v], Content(job[v])')
      PROVE  OfJob(v)'
  <2>1. Held(job[v])' <=> Held(job'[v])
    BY DEF Held, Applying
  <2>2. Course(job[v], Content(job[v]))' <=> Course(job'[v], Content(job[v])')
    BY DEF Course, Placed, Progress, Delivered, Half, Promised, Foreign, Applying
  <2> QED
    BY <1>4, <2>1, <2>2
<1>5. CASE Life \/ FileStep
  <2>1. \A v \in Workers : Kept(v)
    BY <1>5, LifeTypes, FileTypes DEF Life
  <2> QED
    BY <1>2, <1>3, <1>4, <2>1
<1>6. ASSUME NEW w \in Workers, ShowPlan(w) \/ Ends(w) \/ Opens(w) \/ Succeeds(w) \/ Command(w)
      PROVE  Courses'
  <2>1. \A v \in Workers : v # w => Kept(v)
    BY <1>6, ShowPlanTypes, EndsTypes, OpensEffect, SucceedsTypes, CommandTypes DEF Steady
  <2>2. ASSUME Held(job'[w]) PROVE Course(job'[w], Content(job[w])')
    <3> DEFINE j == job[w]
               k == job'[w]
               c == Content(job[w])
    <3>1. CASE ShowPlan(w) \/ Ends(w)
      BY <2>2, <3>1, ShowPlanTypes, EndsTypes
    <3>2. CASE Opens(w)
      <4>1. PICK f \in files : /\ k.file = f /\ k.before = live[Subject(k)][f.svc].items
                               /\ k.fill = Fills(k, f) /\ k.drop = Drops(f) \cap Fills(k, f)
        BY <3>2, OpensEffect
      <4>2. Applying(k) /\ live' = live
        BY <3>2, OpensEffect
      <4>3. Content(job[w])' = live[Subject(k)][f.svc].items
        BY <4>1, <4>2 DEF Content, Subject, Target
      <4> QED
        BY <4>1, <4>2, <4>3, CourseOpened
    <3>3. ASSUME Succeeds(w) \/ Command(w)
          PROVE  /\ Applying(j) /\ SameRestore(k, j) /\ Course(j, c) /\ j \in Job
                 /\ Content(job[w])' = live'[Subject(j)][j.file.svc].items
      <4>1. Applying(j) /\ SameRestore(k, j)
        BY <3>3, SucceedsTypes, CommandTypes DEF Steady, Succeeds, Applying
      <4>2. Course(j, c) /\ j \in Job
        BY <1>1, <4>1, JobShape DEF Held
      <4>3. Content(job[w])' = live'[Subject(j)][j.file.svc].items
        BY <4>1, ContentSame
      <4> QED
        BY <4>1, <4>2, <4>3
    <3>4. CASE Succeeds(w)
      <4>1. live' = live /\ k.pc = "restored"
        BY <3>4, SucceedsTypes
      <4>2. Content(job[w])' = c
        BY <3>3, <3>4, <4>1 DEF Content
      <4>3. c \in Values /\ j.before \in Values
        BY <3>3, <3>4, HereType DEF Job
      <4>4. /\ j.file.svc # "rabbitmq"
            /\ \/ j.file.body = "whole" /\ j.fill = {}
               \/ j.file.body # "whole" /\ j.file.svc \in {"postgres", "redis"}
        BY <3>4 DEF Succeeds
      <4> HIDE DEF j, k, c
      <4> QED
        BY <3>3, <3>4, <4>1, <4>2, <4>3, <4>4, CourseSucceeds DEF k
    <3>5. CASE MakeBucket(w)
      <4>1. /\ Applying(k) /\ k.drop = j.drop /\ k.fill = j.fill
            /\ live'[Subject(j)][j.file.svc].items = c
        BY <3>5, MakeBucketEffect DEF Applying
      <4> HIDE DEF j, k, c
      <4> QED
        BY <3>3, <3>5, <4>1, CourseMakes DEF Command, k
    <3>6. CASE Drop(w)
      <4> DEFINE d == live'[Subject(j)][j.file.svc].items
      <4>1. k.pc = j.pc /\ k.fill = j.fill
        BY <3>6, DropEffect
      <4>2. PICK i \in j.drop : /\ k.drop = j.drop \ {i} /\ d[i] \in Dropped(j.file.svc, c[i])
                                /\ \A n \in Items : n # i => d[n] = c[n]
        BY <3>6, DropEffect
      <4> HIDE DEF j, k, c, d
      <4>3. Applying(j) /\ SameRestore(k, j) /\ Course(j, c)
        BY <3>3, <3>6 DEF Command
      <4>4. Applying(k)
        BY <4>1, <4>3 DEF Applying
      <4>5. Course(k, d)
        BY <4>1, <4>2, <4>3, <4>4, CourseDrops
      <4> QED
        BY <3>3, <3>6, <4>5 DEF Command, k, d
    <3>7. CASE Fill(w)
      <4> DEFINE d == live'[Subject(j)][j.file.svc].items
      <4>1. k.pc = j.pc /\ k.drop = j.drop /\ j.file.svc # "rabbitmq" /\ Parses(j.file)
        BY <3>7, FillEffect DEF Reachable
      <4>2. PICK i \in j.fill \ j.drop :
              /\ k.fill = j.fill \ {i}
              /\ d[i] \in Filled(j.file.svc, i, c[i], j.file.items[i])
              /\ \A n \in Items : n # i => d[n] = c[n]
        BY <3>7, FillEffect
      <4>0. j.file.items[i] \in Value
        <5>1. i \in Items /\ j.file.items \in Values
          BY <3>3, <3>7, HereType DEF Job, Command
        <5> QED
          BY <5>1 DEF Values
      <4> HIDE DEF j, k, c, d
      <4>3. Applying(j) /\ SameRestore(k, j) /\ Course(j, c) /\ j.fill \subseteq Items
        BY <3>3, <3>7 DEF Command, Job
      <4>4. Applying(k)
        BY <4>1, <4>3 DEF Applying
      <4>5. Course(k, d)
        BY <4>0, <4>1, <4>2, <4>3, <4>4, CourseFills
      <4> QED
        BY <3>3, <3>7, <4>5 DEF Command, k, d
    <3>8. CASE Import(w)
      <4> DEFINE d == live'[Subject(j)][j.file.svc].items
      <4>1. k.pc = "restored" /\ j.file.svc = "rabbitmq" /\ Parses(j.file)
        BY <3>8, ImportEffect DEF Reachable
      <4>2. PICK kept \in SUBSET (InDump(j.file) \ Absent(c)) :
              \A i \in Items : d[i] = IF i \in InDump(j.file) \ kept THEN j.file.items[i] ELSE c[i]
        BY <3>8, ImportEffect
      <4> HIDE DEF j, k, c, d
      <4>3. Applying(j) /\ SameRestore(k, j) /\ Course(j, c)
        BY <3>3, <3>8 DEF Command
      <4>4. Course(k, d)
        BY <4>1, <4>2, <4>3, CourseImports
      <4> QED
        BY <3>3, <3>8, <4>4 DEF Command, k, d
    <3> QED
      BY <1>6, <3>1, <3>2, <3>4, <3>5, <3>6, <3>7, <3>8 DEF Command
  <2> QED
    BY <1>2, <1>3, <1>4, <2>1, <2>2
<1> QED
  BY <1>5, <1>6, NextSplit

-----------------------------------------------------------------------------
(***************************************************************************)
(* The theorems.                                                           *)
(***************************************************************************)
Restoring == Dated /\ Accounts /\ RegisteredUsable /\ Expected /\ NothingAfterRemoval /\ Prompted
             /\ Courses

LEMMA InitRestoring == ASSUME Init PROVE Restoring
<1>1. \A w \in Workers : job[w] = Idle
  BY DEF Init
<1>2. Idle.pc = "idle" /\ Idle.since = 0 /\ Idle.plan = {}
  BY DEF Idle
<1>3. \A w \in Workers : ~Held(job[w]) /\ ~Applying(job[w]) /\ job[w].pc # "prompt"
                         /\ job[w].since = 0 /\ job[w].plan = {}
  BY <1>1, <1>2 DEF Held, Applying
<1>4. \A a \in Apps, s \in Services : registry[a][s] = 0 /\ live[a][s] = Blank
  BY DEF Init
<1>5. now = 0 /\ files = {}
  BY DEF Init
<1>6. Dated
  BY <1>3, <1>4, <1>5 DEF Dated
<1>7. Accounts /\ Prompted /\ Courses
  BY <1>3, <1>5 DEF Accounts, Prompted, Courses
<1>8. RegisteredUsable /\ NothingAfterRemoval
  BY <1>4 DEF RegisteredUsable, NothingAfterRemoval
<1>9. Expected
  BY <1>3, PendingIsAwaited DEF Expected, Awaits
<1> QED
  BY <1>6, <1>7, <1>8, <1>9 DEF Restoring

LEMMA StutterKeeps ==
  ASSUME TypeOK, Restoring, UNCHANGED vars
  PROVE  TypeOK' /\ Restoring' /\ PlanKeptStep
<1>1. UNCHANGED <<now, registry, live, files, job, restores, stale, revived>>
  BY DEF vars
<1>2. TypeOK'
  BY <1>1 DEF TypeOK, Applying
<1>3. Dated' /\ Accounts'
  BY <1>1 DEF Restoring, Dated, Accounts, Genuine, Held, Applying
<1>4. RegisteredUsable' /\ NothingAfterRemoval'
  BY <1>1 DEF Restoring, RegisteredUsable, NothingAfterRemoval, Usable
<1>5. Expected'
  BY <1>1 DEF Restoring, Expected, Pending, Target, Applying
<1>6. Prompted'
  BY <1>1 DEF Restoring, Prompted, Chosen, ServicesOf
<1>7. Courses'
  <2> SUFFICES ASSUME NEW v \in Workers, Held(job[v]) PROVE Course(job[v], Content(job[v]))'
    BY <1>1 DEF Courses, Held, Applying
  <2>1. Course(job[v], Content(job[v]))
    BY DEF Restoring, Courses
  <2>2. Content(job[v])' = Content(job[v])
    BY <1>1 DEF Content, Subject, Target
  <2> QED
    BY <1>1, <2>1, <2>2
       DEF Course, Placed, Progress, Delivered, Half, Promised, Foreign, Applying
<1>8. PlanKeptStep
  BY <1>1 DEF PlanKeptStep
<1> QED
  BY <1>2, <1>3, <1>4, <1>5, <1>6, <1>7, <1>8 DEF Restoring

(* Everything at once is kept by every step, and every step keeps plans.   *)
THEOREM RestoreInvariant == Spec => [](TypeOK /\ Restoring) /\ [][PlanKeptStep]_vars
<1>1. Init => TypeOK /\ Restoring
  BY InitTypes, InitRestoring
<1>2. TypeOK /\ Restoring /\ [Next]_vars => (TypeOK /\ Restoring)' /\ PlanKeptStep
  <2>1. ASSUME TypeOK, Restoring, Next
        PROVE  TypeOK' /\ Restoring' /\ PlanKeptStep
    BY <2>1, StepTypes, DatedStep, AccountsStep, UsableStep, RemovalStep, PromptedStep,
       CoursesStep, PlanKeptByStep DEF Restoring
  <2> QED
    BY <2>1, StutterKeeps
<1> QED
  BY <1>1, <1>2, PTL DEF Spec

(* Every variable keeps its type, and a restore what it holds in each of   *)
(* its states: a file while it applies one, a plan before the next one.    *)
THEOREM RestoreTypeOK == Spec => []TypeOK
BY RestoreInvariant, PTL

(* RestoreDelivers: a whole file restored with success, undisturbed,       *)
(* leaves every item of the file as its service may, and the others as     *)
(* they were (none, for aistor), however many restores of however many     *)
(* items failed, were killed or went on elsewhere.  That is the file's     *)
(* content for mongodb and aistor; where the client reports success after  *)
(* statements that failed, the item may also be as it was (redis,          *)
(* postgres), lost or doubled (postgres).                                  *)
THEOREM RestoreRestoreDelivers == Spec => []RestoreDelivers
<1>1. TypeOK /\ Restoring => RestoreDelivers
  BY DEF Restoring, Courses, Course, Delivered, Promised, Foreign, Content, Held, RestoreDelivers
<1> QED
  BY <1>1, RestoreInvariant, PTL

(* HalfIsNoSuccess: only redis, which then does nothing, and psql report   *)
(* half a file as restored.                                                *)
THEOREM RestoreHalfIsNoSuccess == Spec => []HalfIsNoSuccess
<1>1. TypeOK /\ Restoring => HalfIsNoSuccess
  BY DEF Restoring, Courses, Course, Half, Content, Held, HalfIsNoSuccess
<1> QED
  BY <1>1, RestoreInvariant, PTL

(* RegisteredUsable: no restore but that of an earlier life's definitions  *)
(* takes its account from a registered app.                                *)
THEOREM RestoreRegisteredUsable == Spec => []RegisteredUsable
BY RestoreInvariant, PTL DEF Restoring

(* NothingAfterRemoval: nothing is given back to a removed app but by a    *)
(* restore at work when it was removed, or asked for another app.          *)
THEOREM RestoreNothingAfterRemoval == Spec => []NothingAfterRemoval
BY RestoreInvariant, PTL DEF Restoring

(* PlanKept: what is restored after the prompt is what was shown, but for  *)
(* what was backed up, set up or deleted meanwhile.                        *)
THEOREM RestorePlanKept == Spec => PlanKept
BY RestoreInvariant, PTL DEF PlanKept, PlanKeptStep

=============================================================================
