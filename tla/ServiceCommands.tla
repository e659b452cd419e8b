--------------------------- MODULE ServiceCommands ---------------------------
(***************************************************************************)
(* What the docker exec commands of internal/services/* do to the part of  *)
(* a backing service that belongs to one app.                              *)
(*                                                                         *)
(* A resource is that part: the container of the app's data (database,     *)
(* vhost, bucket), the secrets its account accepts (none: no account) and  *)
(* whether the account has been given access to the data.  A secret is the *)
(* number of the request that generated it (passwordgen.Generate draws a   *)
(* fresh one for each Provision).                                          *)
(*                                                                         *)
(* The operators are pure: Provisioning runs the commands one at a time,   *)
(* so that other processes can act between two of them.                    *)
(***************************************************************************)
EXTENDS Naturals, Sequences

(* The services of the catalog in the order RemoveApp walks them.          *)
orderedServices ==
  <<"postgres", "redis", "rabbitmq", "aistor", "mongodb", "signoz">>

AllServices ==
  {"postgres", "redis", "rabbitmq", "aistor", "mongodb", "signoz"}

Before(s, t) ==
  \E i, j \in 1 .. 6 : i < j /\ orderedServices[i] = s /\ orderedServices[j] = t

(* Addons that DetachServices accepts.                                     *)
detachable == {"signoz"}

(* The services Reconcile has an Ensure for; a mutant first.               *)
ensuredRabbitOnly == {"rabbitmq"}
ensured == {"rabbitmq", "mongodb"}

(* Services whose data lives in an object that has to be created.          *)
HasStore == {"postgres", "rabbitmq", "aistor"}

(***************************************************************************)
(* The docker exec commands of Provision, Teardown and Ensure of each      *)
(* package, in order.  A mongosh script is one command, but Teardown's     *)
(* two are not: the script goes on when the first throws.                  *)
(***************************************************************************)
PostgresProvision == <<"CREATE DATABASE", "CREATE USER", "GRANT", "grantPermissions">>
PostgresTeardownKeepsUser == <<"pg_terminate_backend", "DROP DATABASE">>   \* mutant
PostgresTeardown == <<"pg_terminate_backend", "DROP DATABASE", "DROP USER">>

RedisProvisionUnsaved == <<"ACL SETUSER">>                                 \* mutant
RedisProvision == <<"ACL SETUSER", "ACL SAVE">>
RedisTeardownUnsaved == <<"EVAL del", "ACL DELUSER">>                      \* mutant
RedisTeardown == <<"EVAL del", "ACL DELUSER", "ACL SAVE">>

RabbitmqProvision == <<"add_vhost", "add_user", "set_permissions", "set_user_tags">>
RabbitmqEnsure ==
  <<"list_vhosts", "ensure vhost", "list_users", "ensure user", "set_permissions",
    "set_user_tags">>
RabbitmqTeardown == <<"delete_user", "delete_vhost">>

AistorProvision == <<"mb", "user add", "policy create", "policy attach">>
AistorTeardown == <<"rb", "policy detach", "policy rm", "user remove">>

MongodbProvision == <<"createUser">>
MongodbEnsure == <<"getUser createUser updateUser">>
MongodbTeardown == <<"dropUser", "dropDatabase">>

(* The signoz addon has no account: one step in memory, which cannot fail. *)
SignozStep == <<"none">>

(* provisionService, teardownService and the calls of Reconcile.           *)
Provision(s) ==
  CASE s = "postgres" -> PostgresProvision
    [] s = "redis"    -> RedisProvision
    [] s = "rabbitmq" -> RabbitmqProvision
    [] s = "aistor"   -> AistorProvision
    [] s = "mongodb"  -> MongodbProvision
    [] OTHER          -> SignozStep

Teardown(s) ==
  CASE s = "postgres" -> PostgresTeardown
    [] s = "redis"    -> RedisTeardown
    [] s = "rabbitmq" -> RabbitmqTeardown
    [] s = "aistor"   -> AistorTeardown
    [] s = "mongodb"  -> MongodbTeardown
    [] OTHER          -> SignozStep

Ensure(s) == IF s = "rabbitmq" THEN RabbitmqEnsure ELSE MongodbEnsure

(* Teardown commands whose error the code discards before going on, and    *)
(* the services that have any.                                             *)
BestEffort ==
  {"delete_user", "rb", "policy detach", "policy rm", "user remove", "dropUser"}
Discarding == {"rabbitmq", "aistor", "mongodb"}

-----------------------------------------------------------------------------
Resource == [store : BOOLEAN, secrets : SUBSET Nat, granted : BOOLEAN]

Blank == [store |-> FALSE, secrets |-> {}, granted |-> FALSE]

(* A client of the app can log in with the secret and use its data.        *)
Usable(s, r, secret) ==
  \/ s = "signoz"
  \/ /\ secret \in r.secrets
     /\ r.granted
     /\ s \in HasStore => r.store

(***************************************************************************)
(* Whether the service carries out the command.  CREATE DATABASE, CREATE   *)
(* USER, add_user and createUser refuse what exists already; grants need   *)
(* both ends.  `seen` is what Ensure's last list command answered.         *)
(***************************************************************************)
Accepts(cmd, r, seen) ==
  CASE cmd = "CREATE DATABASE"                               -> ~r.store
    [] cmd \in {"CREATE USER", "add_user", "createUser"}     -> r.secrets = {}
    [] cmd \in {"GRANT", "grantPermissions", "set_permissions"} ->
                                               r.store /\ r.secrets # {}
    [] cmd \in {"set_user_tags", "policy attach",
                "delete_user", "user remove", "dropUser"}    -> r.secrets # {}
    [] cmd \in {"delete_vhost", "rb"}                        -> r.store
    [] cmd = "policy detach"                                 -> r.granted
    [] cmd = "ensure user"                                   -> seen <=> r.secrets # {}
    [] OTHER                                                 -> TRUE

(* Ensure runs no command for a vhost it has just seen, and signoz none at  *)
(* all: nothing can fail there.                                            *)
Fallible(cmd, seen) == cmd # "none" /\ ~(cmd = "ensure vhost" /\ seen)

(* What a list command answers; the other commands leave the answer alone. *)
Seen(cmd, r, seen) ==
  CASE cmd = "list_vhosts" -> r.store
    [] cmd = "list_users"  -> r.secrets # {}
    [] OTHER               -> seen

(* ACL SETUSER >password adds a password to those the user has; a mutant   *)
(* that resets them first.                                                 *)
ReplacePassword(r, secret) == [r EXCEPT !.secrets = {secret}, !.granted = TRUE]
AddPassword(r, secret) == [r EXCEPT !.secrets = @ \cup {secret}, !.granted = TRUE]

(***************************************************************************)
(* The resource after the command.  mc admin user add replaces the secret; *)
(* dropping a database or a vhost drops the grants in it.                  *)
(***************************************************************************)
Effect(cmd, r, secret, seen) ==
  CASE cmd \in {"CREATE DATABASE", "add_vhost", "mb"}  -> [r EXCEPT !.store = TRUE]
    [] cmd = "ensure vhost" -> IF seen THEN r ELSE [r EXCEPT !.store = TRUE]
    [] cmd \in {"CREATE USER", "add_user", "user add", "ensure user"} ->
                                         [r EXCEPT !.secrets = {secret}]
    [] cmd \in {"grantPermissions", "set_permissions", "policy attach"} ->
                                         [r EXCEPT !.granted = TRUE]
    [] cmd = "ACL SETUSER"                             -> AddPassword(r, secret)
    [] cmd \in {"createUser", "getUser createUser updateUser"} ->
                                         [r EXCEPT !.secrets = {secret}, !.granted = TRUE]
    [] cmd \in {"DROP DATABASE", "delete_vhost"} ->
                                         [r EXCEPT !.store = FALSE, !.granted = FALSE]
    [] cmd = "rb"                                      -> [r EXCEPT !.store = FALSE]
    [] cmd \in {"DROP USER", "delete_user", "ACL DELUSER", "user remove", "dropUser"} ->
                                         [r EXCEPT !.secrets = {}, !.granted = FALSE]
    [] cmd = "policy detach"                           -> [r EXCEPT !.granted = FALSE]
    [] OTHER                                           -> r

=============================================================================
