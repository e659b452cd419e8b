--------------------------- MODULE TargetsProofs ---------------------------
(***************************************************************************)
(* What the registry remembers of a setup is enough to attach SigNoz again *)
(* as the setup did, for any names, environments and way of joining them   *)
(* that keeps one app's siblings apart.                                    *)
(***************************************************************************)
EXTENDS Targets, TLAPS

Target == [name : Names, service : Names, env : EnvOrNone]
Origin == [app : Names, env : EnvOrNone, expanded : BOOLEAN]

(* An entry holds what its setup said, and its name is the one it made.    *)
Remembered(n) ==
  /\ origin[n] \in Origin
  /\ apps[n].environment = origin[n].env
  /\ apps[n].serviceName = IF origin[n].app # n THEN origin[n].app ELSE None
  /\ IF origin[n].expanded
     THEN origin[n].app \in Stems /\ origin[n].env \in Envs
          /\ n = NameOf(origin[n].app, origin[n].env)
     ELSE origin[n].app = n

Kept(n) ==
  /\ attach[n] # "foreign" => apps[n].signoz.service = origin[n].app
  /\ attach[n] = "plain" =>
       IF origin[n].env = None THEN apps[n].signoz.environment \in Defaults
       ELSE apps[n].signoz.environment = origin[n].env

IInv ==
  /\ TypeOK
  /\ \A n \in Names : Registered(n) => Remembered(n)
  /\ ReattachKeeps

-----------------------------------------------------------------------------
LEMMA OptionsParsed ==
  ASSUME NEW o \in CommandLine \cup Form
  PROVE  o \in Options
BY DEF CommandLine, Form

LEMMA SiblingTargets ==
  ASSUME NEW app \in Stems, NEW envs \in SUBSET Envs, NEW t \in Siblings(app, envs)
  PROVE  /\ t \in Target /\ t.service = app /\ t.env \in envs /\ t.name = NameOf(app, t.env)
         /\ \A u \in Siblings(app, envs) : u.name = t.name => u = t
<1>1. PICK e \in envs : t = [name |-> NameOf(app, e), service |-> app, env |-> e]
  BY DEF Siblings
<1>2. NameOf(app, e) \in Names /\ app \in Names
  BY NamesAssumption DEF NameOf
<1>3. ASSUME NEW u \in Siblings(app, envs), u.name = t.name
      PROVE  u = t
  <2>1. PICK f \in envs : u = [name |-> NameOf(app, f), service |-> app, env |-> f]
    BY DEF Siblings
  <2>2. e = f
    BY <1>1, <1>3, <2>1, JoinAssumption
  <2> QED
    BY <1>1, <2>1, <2>2
<1> QED
  BY <1>1, <1>2, <1>3 DEF Target, EnvOrNone

(* The targets of a setup name the app or its siblings, each once.         *)
LEMMA TargetsOfSetup ==
  ASSUME NEW app \in Names, NEW o \in Options, o.envs # {} => app \in Stems,
         NEW t \in SetupTargets(app, o)
  PROVE  /\ t \in Target /\ t.service = app
         /\ IF o.envs # {} THEN t.env \in Envs /\ t.name = NameOf(app, t.env) ELSE t.name = app
         /\ \A u \in SetupTargets(app, o) : u.name = t.name => u = t
<1>1. CASE o.envs # {}
  <2> DEFINE envs == o.envs
  <2>1. /\ t \in Siblings(app, envs) /\ envs \in SUBSET Envs /\ app \in Stems
        /\ SetupTargets(app, o) = Siblings(app, envs)
    BY <1>1 DEF SetupTargets, Options
  <2> HIDE DEF envs
  <2>2. /\ t \in Target /\ t.service = app /\ t.env \in Envs /\ t.name = NameOf(app, t.env)
        /\ \A u \in SetupTargets(app, o) : u.name = t.name => u = t
    BY <2>1, SiblingTargets
  <2> QED
    BY <1>1, <2>2
<1>2. CASE o.envs = {}
  BY <1>2 DEF SetupTargets, Options, Target
<1> QED
  BY <1>1, <1>2

(* The targets of an add: without flags, what the setup said.              *)
LEMMA TargetsOfAdd ==
  ASSUME IInv, NEW app \in Names, NEW o \in Options, o.envs # {} => app \in Stems,
         NEW t \in AddTargets(app, o), Registered(t.name)
  PROVE  /\ t \in Target
         /\ Attached(t.name, app, o) \in {"plain", "env", "foreign"}
         /\ Attached(t.name, app, o) # "foreign" => t.service = origin[t.name].app
         /\ Attached(t.name, app, o) = "plain" => t.env = origin[t.name].env
         /\ \A u \in AddTargets(app, o) : u.name = t.name => u = t
<1>1. CASE o.envs # {}
  <2> DEFINE envs == o.envs
  <2>1. /\ t \in Siblings(app, envs) /\ envs \in SUBSET Envs /\ app \in Stems
        /\ AddTargets(app, o) = Siblings(app, envs)
    BY <1>1 DEF AddTargets, Options
  <2> HIDE DEF envs
  <2>2. /\ t \in Target /\ t.service = app /\ t.env \in Envs /\ t.name = NameOf(app, t.env)
        /\ \A u \in AddTargets(app, o) : u.name = t.name => u = t
    BY <2>1, SiblingTargets
  <2>3. Remembered(t.name)
    BY <2>2 DEF IInv, Target
  <2>4. ASSUME origin[t.name].app = app PROVE t.env = origin[t.name].env
    <3>1. origin[t.name].expanded
      BY <2>1, <2>2, <2>3, <2>4, JoinAssumption DEF Remembered
    <3> QED
      BY <2>1, <2>2, <2>3, <2>4, <3>1, JoinAssumption DEF Remembered
  <2> QED
    BY <1>1, <2>2, <2>4 DEF Attached
<1>2. CASE o.envs = {}
  <2>1. t = [name    |-> app,
             service |-> IF Registered(app) /\ apps[app].serviceName # None
                         THEN apps[app].serviceName ELSE app,
             env     |-> IF Registered(app) /\ o.env = None
                         THEN apps[app].environment ELSE o.env]
        /\ \A u \in AddTargets(app, o) : u = t
    BY <1>2 DEF AddTargets
  <2>2. Registered(app) /\ Remembered(app) /\ t.name = app
    BY <2>1 DEF IInv
  <2>3. t.service = origin[app].app /\ origin[app] \in Origin
    BY <2>1, <2>2, NamesAssumption DEF Remembered, Origin
  <2>4. t.env = (IF o.env = None THEN origin[app].env ELSE o.env)
    BY <2>1, <2>2 DEF Remembered
  <2>5. t \in Target
    BY <2>1, <2>3, <2>4 DEF Target, Origin, Options
  <2> QED
    BY <1>2, <2>1, <2>2, <2>3, <2>4, <2>5 DEF Attached
<1> QED
  BY <1>1, <1>2

LEMMA ProvisionType ==
  ASSUME NEW t \in Target, NEW default \in Defaults
  PROVE  /\ Provision(t, default) \in Signoz
         /\ Provision(t, default).service = t.service
         /\ IF t.env = None THEN Provision(t, default).environment \in Defaults
            ELSE Provision(t, default).environment = t.env
BY DEF Provision, Target, Signoz, EnvOrNone

-----------------------------------------------------------------------------
(* The invariant of one app, and what a step that renews it must give it.  *)
Sound(n) ==
  /\ apps[n] \in AppEntry \cup {None} /\ origin[n] \in Origin \cup {None}
  /\ attach[n] \in {"plain", "env", "foreign", None}
  /\ Registered(n) => Remembered(n)
  /\ Registered(n) /\ apps[n].signoz # None => Kept(n)

Functions == apps \in [Names -> AppEntry \cup {None}]
             /\ origin \in [Names -> Origin \cup {None}]
             /\ attach \in [Names -> {"plain", "env", "foreign", None}]

LEMMA InvOfEachApp ==
  IInv <=> Functions /\ \A n \in Names : Sound(n)
BY DEF IInv, TypeOK, Functions, Sound, ReattachKeeps, Kept, Origin

LEMMA NextOfEachApp ==
  IInv' <=> Functions' /\ \A n \in Names : Sound(n)'
BY DEF IInv, TypeOK, Functions, Sound, ReattachKeeps, Kept, Origin

LEMMA InitSound == Init => IInv
BY DEF Init, IInv, TypeOK, ReattachKeeps, Registered

(* The target a name was saved for.                                        *)
LEMMA OfNamed ==
  ASSUME NEW targets, NEW n \in Named(targets)
  PROVE  Of(targets, n) \in targets /\ Of(targets, n).name = n
BY DEF Named, Of

LEMMA NewEntrySound ==
  ASSUME NEW t \in Target, NEW services, NEW default \in Defaults
  PROVE  /\ NewEntry(t, services, default) \in AppEntry
         /\ NewEntry(t, services, default).environment = t.env
         /\ NewEntry(t, services, default).serviceName =
              IF t.service # t.name THEN t.service ELSE None
         /\ NewEntry(t, services, default).signoz \in {None, Provision(t, default)}
<1>1. Provision(t, default) \in Signoz
  BY ProvisionType
<1>2. "signoz" \in services \/ "signoz" \notin services
  OBVIOUS
<1> QED
  BY <1>1, <1>2 DEF NewEntry, AppEntry, Target

(* An app whose entry and history stay as they are stays sound.            *)
LEMMA SoundStays ==
  ASSUME NEW n \in Names, Sound(n),
         apps'[n] = apps[n], origin'[n] = origin[n], attach'[n] = attach[n]
  PROVE  Sound(n)'
BY DEF Sound, Registered, Remembered, Kept

(* A setup writes what Remembered asks for.                                *)
LEMMA SetupSound == IInv /\ Setup => IInv'
<1> SUFFICES ASSUME IInv, Setup PROVE IInv'
  OBVIOUS
<1>1. PICK app \in Names, o \in CommandLine \cup Form,
           services \in SUBSET {"signoz", "other"}, default \in Defaults :
        /\ Cardinality({n \in Names : Registered(n)}) < MaxApps
        /\ services # {} /\ (o.envs # {} => app \in Stems)
        /\ \A t \in SetupTargets(app, o) : ~Registered(t.name)
        /\ \E saved \in SUBSET SetupTargets(app, o) : SaveNew(app, o, services, default, saved)
  BY DEF Setup
<1>2. o \in Options
  BY OptionsParsed
<1>3. PICK saved \in SUBSET SetupTargets(app, o) : SaveNew(app, o, services, default, saved)
  BY <1>1
<1> DEFINE Entry(n) == NewEntry(Of(saved, n), services, default)
           Made(n) == [app |-> app, env |-> Of(saved, n).env, expanded |-> o.envs # {}]
<1>4. /\ apps' = [n \in Names |-> IF n \notin Named(saved) THEN apps[n] ELSE Entry(n)]
      /\ origin' = [n \in Names |-> IF n \notin Named(saved) THEN origin[n] ELSE Made(n)]
      /\ attach' = [n \in Names |-> IF n \notin Named(saved) THEN attach[n] ELSE "plain"]
  BY <1>3 DEF SaveNew
<1>5. ASSUME NEW n \in Named(saved)
      PROVE  /\ Of(saved, n) \in Target /\ Of(saved, n).service = app /\ Of(saved, n).name = n
             /\ IF o.envs # {} THEN Of(saved, n).env \in Envs /\ n = NameOf(app, Of(saved, n).env)
                ELSE n = app
  BY <1>1, <1>2, OfNamed, TargetsOfSetup
<1>6. ASSUME NEW n \in Named(saved)
      PROVE  Entry(n) \in AppEntry /\ Made(n) \in Origin
  BY <1>5, NewEntrySound DEF Target, Origin
<1>7. Functions'
  <2>1. Functions
    BY InvOfEachApp
  <2> HIDE DEF Entry, Made
  <2> QED
    BY <1>4, <1>6, <2>1 DEF Functions
<1>8. ASSUME NEW n \in Names PROVE Sound(n)'
  <2>1. CASE n \notin Named(saved)
    BY <1>4, <2>1, SoundStays, InvOfEachApp
  <2>2. CASE n \in Named(saved)
    <3>1. apps'[n] = Entry(n) /\ origin'[n] = Made(n) /\ attach'[n] = "plain"
      BY <1>4, <2>2
    <3>2. /\ Of(saved, n) \in Target /\ Of(saved, n).service = app /\ Of(saved, n).name = n
          /\ IF o.envs # {} THEN Of(saved, n).env \in Envs /\ n = NameOf(app, Of(saved, n).env)
             ELSE n = app
      BY <1>5, <2>2
    <3>3. /\ Entry(n).environment = Of(saved, n).env
          /\ Entry(n).serviceName = IF app # n THEN app ELSE None
          /\ Entry(n).signoz \in {None, Provision(Of(saved, n), default)}
      BY <3>2, NewEntrySound
    <3>4. Made(n) \in Origin /\ Entry(n) \in AppEntry
      BY <1>6, <2>2
    <3>5. Remembered(n)'
      <4>1. /\ origin'[n].app = app /\ origin'[n].env = Of(saved, n).env
            /\ origin'[n].expanded = (o.envs # {})
        BY <3>1
      <4>2. origin'[n] \in Origin
        BY <3>1, <3>4
      <4> HIDE DEF Entry, Made
      <4>3. /\ apps'[n].environment = origin'[n].env
            /\ apps'[n].serviceName = IF origin'[n].app # n THEN origin'[n].app ELSE None
        BY <3>1, <3>3, <4>1
      <4>4. IF origin'[n].expanded
            THEN origin'[n].app \in Stems /\ origin'[n].env \in Envs
                 /\ n = NameOf(origin'[n].app, origin'[n].env)
            ELSE origin'[n].app = n
        BY <1>1, <3>2, <4>1
      <4> QED
        BY <4>2, <4>3, <4>4 DEF Remembered
    <3>6. Provision(Of(saved, n), default).service = app
          /\ IF Of(saved, n).env = None
             THEN Provision(Of(saved, n), default).environment \in Defaults
             ELSE Provision(Of(saved, n), default).environment = Of(saved, n).env
      BY <3>2, ProvisionType
    <3>7. apps'[n].signoz # None => Kept(n)'
      BY <3>1, <3>3, <3>6 DEF Kept
    <3> QED
      BY <3>1, <3>4, <3>5, <3>7 DEF Sound
  <2> QED
    BY <2>1, <2>2
<1> QED
  BY <1>7, <1>8, NextOfEachApp


(* An add changes the configuration only, and knows what Remembered says.  *)
LEMMA AddSound == IInv /\ Add => IInv'
<1> SUFFICES ASSUME IInv, Add PROVE IInv'
  OBVIOUS
<1>1. PICK app \in Names, o \in CommandLine, default \in Defaults :
        /\ o.envs # {} => app \in Stems
        /\ \A t \in AddTargets(app, o) : Registered(t.name)
        /\ \E saved \in SUBSET {t \in AddTargets(app, o) : apps[t.name].signoz = None} :
             SaveAttached(app, o, default, saved)
  BY DEF Add
<1>2. o \in Options
  BY OptionsParsed
<1>3. PICK saved \in SUBSET AddTargets(app, o) : SaveAttached(app, o, default, saved)
  BY <1>1
<1> DEFINE Entry(n) == [apps[n] EXCEPT !.signoz = Provision(Of(saved, n), default)]
<1>4. /\ apps' = [n \in Names |-> IF n \notin Named(saved) THEN apps[n] ELSE Entry(n)]
      /\ attach' = [n \in Names |-> IF n \notin Named(saved) THEN attach[n]
                                    ELSE Attached(n, app, o)]
      /\ origin' = origin
  BY <1>3 DEF SaveAttached
<1>5. ASSUME NEW n \in Named(saved)
      PROVE  /\ Of(saved, n) \in Target /\ n \in Names /\ Registered(n)
             /\ Attached(n, app, o) \in {"plain", "env", "foreign"}
             /\ Attached(n, app, o) # "foreign" => Of(saved, n).service = origin[n].app
             /\ Attached(n, app, o) = "plain" => Of(saved, n).env = origin[n].env
  <2>1. Of(saved, n) \in AddTargets(app, o) /\ Of(saved, n).name = n
    BY OfNamed
  <2>2. Registered(n)
    BY <1>1, <2>1
  <2> QED
    BY <1>1, <1>2, <2>1, <2>2, TargetsOfAdd DEF Target
<1>6. ASSUME NEW n \in Named(saved)
      PROVE  /\ Entry(n) \in AppEntry /\ apps[n] \in AppEntry
             /\ Entry(n).environment = apps[n].environment
             /\ Entry(n).serviceName = apps[n].serviceName
             /\ Entry(n).signoz = Provision(Of(saved, n), default)
  <2>1. apps[n] \in AppEntry
    BY <1>5, InvOfEachApp DEF Sound, Registered
  <2>2. Provision(Of(saved, n), default) \in Signoz
    BY <1>5, ProvisionType
  <2> QED
    BY <2>1, <2>2 DEF AppEntry
<1> HIDE DEF Entry
<1>7. Functions'
  BY <1>4, <1>5, <1>6, InvOfEachApp DEF Functions
<1>8. ASSUME NEW n \in Names PROVE Sound(n)'
  <2>1. CASE n \notin Named(saved)
    BY <1>4, <2>1, SoundStays, InvOfEachApp
  <2>2. CASE n \in Named(saved)
    <3>1. apps'[n] = Entry(n) /\ origin'[n] = origin[n] /\ attach'[n] = Attached(n, app, o)
      BY <1>4, <2>2
    <3>2. Remembered(n) /\ origin[n] \in Origin \cup {None}
      BY <1>5, <2>2, InvOfEachApp DEF Sound
    <3>3. Remembered(n)'
      BY <1>6, <2>2, <3>1, <3>2 DEF Remembered
    <3>4. /\ Provision(Of(saved, n), default).service = Of(saved, n).service
          /\ IF Of(saved, n).env = None
             THEN Provision(Of(saved, n), default).environment \in Defaults
             ELSE Provision(Of(saved, n), default).environment = Of(saved, n).env
      BY <1>5, <2>2, ProvisionType
    <3>5. Kept(n)'
      BY <1>5, <1>6, <2>2, <3>1, <3>4 DEF Kept
    <3> QED
      BY <1>5, <1>6, <2>2, <3>1, <3>2, <3>3, <3>5 DEF Sound
  <2> QED
    BY <2>1, <2>2
<1> QED
  BY <1>7, <1>8, NextOfEachApp

LEMMA DetachSound == ASSUME IInv, NEW n \in Names, Detach(n) PROVE IInv'
<1>1. Functions /\ \A m \in Names : Sound(m)
  BY InvOfEachApp
<1>2. /\ apps' = [apps EXCEPT ![n].signoz = None] /\ origin' = origin
      /\ attach' = [attach EXCEPT ![n] = "plain"] /\ apps[n] \in AppEntry
  BY <1>1 DEF Detach, Sound, Registered
<1>3. apps'[n] = [apps[n] EXCEPT !.signoz = None] /\ apps'[n] \in AppEntry
      /\ apps'[n].signoz = None /\ apps'[n].environment = apps[n].environment
      /\ apps'[n].serviceName = apps[n].serviceName
  BY <1>1, <1>2 DEF Functions, AppEntry
<1>4. Functions'
  BY <1>1, <1>2, <1>3 DEF Functions
<1>5. ASSUME NEW m \in Names, m # n PROVE Sound(m)'
  BY <1>1, <1>2, <1>5, SoundStays DEF Functions
<1>6. Sound(n)'
  <2>1. Remembered(n)
    BY <1>1 DEF Sound, Detach
  <2>2. Remembered(n)'
    BY <1>2, <1>3, <2>1 DEF Remembered
  <2> QED
    BY <1>1, <1>2, <1>3, <2>2 DEF Sound, Functions
<1> QED
  BY <1>4, <1>5, <1>6, NextOfEachApp

LEMMA RemoveSound == ASSUME IInv, NEW n \in Names, RemoveApp(n) PROVE IInv'
<1>1. Functions /\ \A m \in Names : Sound(m)
  BY InvOfEachApp
<1>2. /\ apps' = [apps EXCEPT ![n] = None] /\ origin' = [origin EXCEPT ![n] = None]
      /\ attach' = [attach EXCEPT ![n] = None]
  BY DEF RemoveApp
<1>3. Functions'
  BY <1>1, <1>2 DEF Functions
<1>4. ASSUME NEW m \in Names, m # n PROVE Sound(m)'
  BY <1>1, <1>2, <1>4, SoundStays DEF Functions
<1>5. Sound(n)'
  BY <1>1, <1>2 DEF Sound, Functions, Registered
<1> QED
  BY <1>3, <1>4, <1>5, NextOfEachApp

LEMMA NextSound == IInv /\ [Next]_vars => IInv'
<1> SUFFICES ASSUME IInv, [Next]_vars PROVE IInv'
  OBVIOUS
<1>1. CASE Setup
  BY <1>1, SetupSound
<1>2. CASE Add
  BY <1>2, AddSound
<1>3. CASE \E n \in Names : Detach(n) \/ RemoveApp(n)
  BY <1>3, DetachSound, RemoveSound
<1>4. CASE UNCHANGED vars
  BY <1>4 DEF vars, IInv, TypeOK, ReattachKeeps, Registered, Remembered
<1> QED
  BY <1>1, <1>2, <1>3, <1>4 DEF Next

THEOREM InductiveInvariant == Spec => []IInv
<1>1. Init => IInv
  BY InitSound
<1>2. IInv /\ [Next]_vars => IInv'
  BY NextSound
<1> QED
  BY <1>1, <1>2, PTL DEF Spec

(* Every variable keeps its type.                                          *)
THEOREM TargetsTypeOK == Spec => []TypeOK
<1>1. IInv => TypeOK
  BY DEF IInv
<1> QED
  BY <1>1, InductiveInvariant, PTL

(* SigNoz attached again reports what the setup said (registry.go 58-59).  *)
THEOREM TargetsReattachKeeps == Spec => []ReattachKeeps
<1>1. IInv => ReattachKeeps
  BY DEF IInv
<1> QED
  BY <1>1, InductiveInvariant, PTL

(* Two siblings that report as one would have one name.                    *)
THEOREM TargetsSiblingsApart == Spec => []SiblingsApart
<1>1. IInv => SiblingsApart
  <2> SUFFICES ASSUME IInv, NEW m \in Names, NEW n \in Names,
                      Registered(m), Registered(n), origin[m].expanded, origin[n].expanded,
                      attach[m] = "plain", attach[n] = "plain", apps[m].signoz # None,
                      apps[m].signoz = apps[n].signoz
               PROVE  m = n
    BY DEF SiblingsApart
  <2>1. Remembered(m) /\ Remembered(n)
    BY DEF IInv
  <2>2. /\ origin[m].env \in Envs /\ m = NameOf(origin[m].app, origin[m].env)
        /\ origin[n].env \in Envs /\ n = NameOf(origin[n].app, origin[n].env)
    BY <2>1 DEF Remembered
  <2>3. /\ apps[m].signoz.service = origin[m].app
        /\ apps[n].signoz.service = origin[n].app
        /\ apps[m].signoz.environment = origin[m].env
        /\ apps[n].signoz.environment = origin[n].env
    BY <2>2, NamesAssumption DEF IInv, ReattachKeeps
  <2> QED
    BY <2>2, <2>3
<1> QED
  BY <1>1, InductiveInvariant, PTL

=============================================================================
