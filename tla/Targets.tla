------------------------------- MODULE Targets -------------------------------
(***************************************************************************)
(* Which apps a setup or an add is about (internal/envspec), and what the  *)
(* registry remembers of it, so that SigNoz attached later reports an app  *)
(* under the service and the environment it was set up with.               *)
(*                                                                         *)
(* --envs makes siblings <app>-<env> that share the service <app>.  Names  *)
(* are joined with a hyphen that apps and environments may hold too, so    *)
(* siblings of different apps may be the same app: Join is not one-to-one. *)
(***************************************************************************)
EXTENDS Naturals, Sequences, FiniteSets

CONSTANTS
  Names,     \* apps
  Stems,     \* bound: apps given with --envs
  Envs,      \* environments
  Join,      \* app and environment -> <app>-<env>
  Inputs,    \* bound: comma separated lists typed, as sequences of parts
  Blank,     \* a part of spaces
  MaxApps,   \* bound: a setup begins with fewer apps registered
  Defaults,  \* SIGNOZ_DEFAULT_ENV of a process, or dev
  None

ASSUME NamesAssumption ==
  /\ Stems \subseteq Names /\ None \notin Names \cup Envs \cup Defaults
  /\ Join \in [Stems \X Envs -> Names]

NameOf(app, env) == Join[<<app, env>>]

(* One app's siblings have different names, and none is the app's own.     *)
ASSUME JoinAssumption ==
  \A a \in Stems, e, f \in Envs :
    NameOf(a, e) # a /\ (NameOf(a, e) = NameOf(a, f) => e = f)

VARIABLES
  apps,    \* app -> its entry in the registry, or None
  origin,  \* history: app -> the setup that made it
  attach   \* history: app -> what named the SigNoz configuration it has

vars == <<apps, origin, attach>>

EnvOrNone == Envs \cup {None}
Signoz == [service : Names, environment : Envs \cup Defaults]
AppEntry == [environment : EnvOrNone, serviceName : Names \cup {None}, signoz : Signoz \cup {None}]
Registered(n) == apps[n] # None

Init ==
  /\ apps = [n \in Names |-> None]
  /\ origin = [n \in Names |-> None]
  /\ attach = [n \in Names |-> None]

-----------------------------------------------------------------------------
(***************************************************************************)
(* The flags and the form.  A parser returns the set of its one result, or *)
(* nothing when it refuses.                                                *)
(***************************************************************************)
Parts(raw) == {raw[i] : i \in DOMAIN raw} \ {Blank}
Duplicate(raw) == \E i, j \in DOMAIN raw : i # j /\ raw[i] = raw[j] /\ raw[i] # Blank

ParseEnvs(raw) ==
  IF raw = <<>> THEN {{}}
  ELSE {envs \in {Parts(raw)} : envs # {} /\ envs \subseteq Envs /\ ~Duplicate(raw)}

ParseSingleEnv(part) ==
  IF part = Blank THEN {None} ELSE {part} \cap Envs

Options == [envs : SUBSET Envs, env : EnvOrNone]

(* --envs and --env exclude each other.                                    *)
CommandLine ==
  {o \in Options : /\ \E raw \in Inputs : o.envs \in ParseEnvs(raw)
                   /\ \E part \in Envs \cup {Blank} : o.env \in ParseSingleEnv(part)
                   /\ o.envs = {} \/ o.env = None}

(* One field: without a comma it tags, with one it expands.                *)
Form ==
  {o \in Options : \E raw \in Inputs :
     IF Len(raw) <= 1
     THEN o.envs = {} /\ o.env \in IF raw = <<>> THEN {None} ELSE ParseSingleEnv(raw[1])
     ELSE o.envs \in ParseEnvs(raw) /\ o.env = None}

-----------------------------------------------------------------------------
Siblings(app, envs) == {[name |-> NameOf(app, e), service |-> app, env |-> e] : e \in envs}

SetupTargets(app, o) ==
  IF o.envs # {} THEN Siblings(app, o.envs)
  ELSE {[name |-> app, service |-> app, env |-> o.env]}

(* Without --envs what is not given comes from the app's entry.            *)
AddTargetsAnew(app, o) == SetupTargets(app, o)           \* mutant
AddTargets(app, o) ==
  IF o.envs # {} THEN Siblings(app, o.envs)
  ELSE {[name    |-> app,
         service |-> IF Registered(app) /\ apps[app].serviceName # None
                     THEN apps[app].serviceName ELSE app,
         env     |-> IF Registered(app) /\ o.env = None THEN apps[app].environment ELSE o.env]}

ProvisionDefault(t, default) == [service |-> t.service, environment |-> default]   \* mutant
Provision(t, default) ==
  [service |-> t.service, environment |-> IF t.env = None THEN default ELSE t.env]

Named(targets) == {t.name : t \in targets}
Of(targets, n) == CHOOSE t \in targets : t.name = n

(***************************************************************************)
(* SetupApp refuses when a target is registered, and saves after each      *)
(* target: a save that fails leaves the first ones, of whichever order.    *)
(***************************************************************************)
NewEntry(t, services, default) ==
  [environment |-> t.env,
   serviceName |-> IF t.service # t.name THEN t.service ELSE None,
   signoz      |-> IF "signoz" \in services THEN Provision(t, default) ELSE None]

SaveNew(app, o, services, default, saved) ==
  /\ apps' = [n \in Names |-> IF n \notin Named(saved) THEN apps[n]
                              ELSE NewEntry(Of(saved, n), services, default)]
  /\ origin' = [n \in Names |-> IF n \notin Named(saved) THEN origin[n] ELSE
       [app |-> app, env |-> Of(saved, n).env, expanded |-> o.envs # {}]]
  /\ attach' = [n \in Names |-> IF n \notin Named(saved) THEN attach[n] ELSE "plain"]

Setup ==
  \E app \in Names, o \in CommandLine \cup Form, services \in SUBSET {"signoz", "other"},
     default \in Defaults :
    /\ Cardinality({n \in Names : Registered(n)}) < MaxApps
    /\ services # {} /\ (o.envs # {} => app \in Stems)
    /\ \A t \in SetupTargets(app, o) : ~Registered(t.name)
    /\ \E saved \in SUBSET SetupTargets(app, o) : SaveNew(app, o, services, default, saved)

(***************************************************************************)
(* What names the configuration: what the setup said, another environment, *)
(* or the siblings of another app.                                         *)
(***************************************************************************)
Attached(n, app, o) ==
  IF o.envs # {} THEN IF origin[n].app = app THEN "plain" ELSE "foreign"
  ELSE IF o.env # None THEN "env" ELSE "plain"

(* AddServices; what is provisioned already is skipped.                    *)
SaveAttached(app, o, default, saved) ==
  /\ apps' = [n \in Names |-> IF n \notin Named(saved) THEN apps[n]
                              ELSE [apps[n] EXCEPT !.signoz = Provision(Of(saved, n), default)]]
  /\ attach' = [n \in Names |-> IF n \notin Named(saved) THEN attach[n]
                                ELSE Attached(n, app, o)]
  /\ UNCHANGED origin

Add ==
  \E app \in Names, o \in CommandLine, default \in Defaults :
    /\ o.envs # {} => app \in Stems
    /\ \A t \in AddTargets(app, o) : Registered(t.name)
    /\ \E saved \in SUBSET {t \in AddTargets(app, o) : apps[t.name].signoz = None} :
         SaveAttached(app, o, default, saved)

Detach(n) ==
  /\ Registered(n)
  /\ apps' = [apps EXCEPT ![n].signoz = None]
  /\ attach' = [attach EXCEPT ![n] = "plain"]
  /\ UNCHANGED origin

RemoveApp(n) ==
  /\ Registered(n)
  /\ apps' = [apps EXCEPT ![n] = None]
  /\ origin' = [origin EXCEPT ![n] = None]
  /\ attach' = [attach EXCEPT ![n] = None]

Next == Setup \/ Add \/ \E n \in Names : Detach(n) \/ RemoveApp(n)

Spec == Init /\ [][Next]_vars

-----------------------------------------------------------------------------
(* Types.                                                                  *)
TypeOK ==
  /\ apps \in [Names -> AppEntry \cup {None}]
  /\ origin \in [Names -> [app : Names, env : EnvOrNone, expanded : BOOLEAN] \cup {None}]
  /\ attach \in [Names -> {"plain", "env", "foreign", None}]

(***************************************************************************)
(* "Survives addon detach/reattach so re-attaching SignOz via the UI       *)
(* preserves the env" (registry.go): however often SigNoz was detached and *)
(* attached, or if it was attached after the setup only, an app reports    *)
(* under the service of its setup, unless --envs of another app named it,  *)
(* and in the environment of its setup, unless --env gave another.         *)
(***************************************************************************)
ReattachKeeps ==
  \A n \in Names : Registered(n) /\ apps[n].signoz # None =>
    /\ attach[n] # "foreign" => apps[n].signoz.service = origin[n].app
    /\ attach[n] = "plain" =>
         IF origin[n].env = None THEN apps[n].signoz.environment \in Defaults
         ELSE apps[n].signoz.environment = origin[n].env

(***************************************************************************)
(* Two apps that --envs made never report as one: not when their names     *)
(* could be read as the siblings of either app, not after one of them was  *)
(* removed and set up anew, unless an add named what they report as.       *)
(***************************************************************************)
SiblingsApart ==
  \A m, n \in Names :
    /\ m # n /\ Registered(m) /\ Registered(n)
    /\ origin[m].expanded /\ origin[n].expanded
    /\ attach[m] = "plain" /\ attach[n] = "plain" /\ apps[m].signoz # None
    => apps[m].signoz # apps[n].signoz

=============================================================================
