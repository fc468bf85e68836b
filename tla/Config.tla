------------------------------- MODULE Config -------------------------------
(***************************************************************************)
(* The configuration of internal/config/config.go: what Load makes of the  *)
(* environment, and the API keys.                                          *)
(*                                                                         *)
(* An environment is what its variables hold after trimming: None when     *)
(* unset or blank.  settings holds the numbers and durations that are set, *)
(* Malformed when they do not parse.  apiKeys is PIXRAIL_API_KEYS split at *)
(* the commas: an entry's empty parts are None, its roles None when it has *)
(* two parts only, and a sequence otherwise.  Addresses, the tracing       *)
(* exporter and the fields copied unread are left out.                     *)
(***************************************************************************)
EXTENDS Rail, Integers, Sequences

CONSTANT Malformed

Roles == {"tenant", "worker", "risk", "provider"}

HasRole(key, role) ==
  IF key.roles = {} THEN role = "tenant" ELSE role \in key.roles

-----------------------------------------------------------------------------
(* parseAPIKeys and parseRoles                                             *)
Elements(s) == {s[i] : i \in 1..Len(s)}

ValidEntry(entry) ==
  /\ entry.tenant # None /\ entry.secret # None
  /\ entry.roles # None => Len(entry.roles) > 0 /\ Elements(entry.roles) \subseteq Roles

ValidAPIKeys(entries) ==
  /\ \A i \in 1..Len(entries) : ValidEntry(entries[i])
  /\ \A i, j \in 1..Len(entries) : entries[i].secret = entries[j].secret => i = j

ParseAPIKeys(entries) ==
  [secret \in {entries[i].secret : i \in 1..Len(entries)} |->
     LET i == CHOOSE k \in 1..Len(entries) : entries[k].secret = secret IN
     [tenant |-> entries[i].tenant,
      roles  |-> IF entries[i].roles = None THEN {"tenant"} ELSE Elements(entries[i].roles)]]

(* The four keys of a development environment that configures none.        *)
DevKeys ==
  [secret \in {"dev-secret", "worker-secret", "risk-secret", "provider-secret"} |->
     [tenant |-> "tenant_demo",
      roles  |-> CASE secret = "dev-secret"    -> {"tenant"}
                   [] secret = "worker-secret" -> {"worker"}
                   [] secret = "risk-secret"   -> {"risk"}
                   [] OTHER                    -> {"provider"}]]

-----------------------------------------------------------------------------
(* getenvIntAtLeast and getenvDurationAtLeast: the fallback and the least  *)
(* value of every number Load reads; a duration is in milliseconds, and    *)
(* its least value of one nanosecond is any positive one.                  *)
Limit(fallback, least) == [fallback |-> fallback, least |-> least]

Limits ==
  [minConns |-> Limit(0, 0), maxConns |-> Limit(10, 1), maxConnLifetime |-> Limit(1800000, 1),
   tenantBucket |-> Limit(120, 1), dictBucket |-> Limit(60, 1), dictTimeout |-> Limit(300, 1),
   batchSize |-> Limit(100, 1), interval |-> Limit(1000, 1),
   tolerance |-> Limit(300000, 1), shutdownTimeout |-> Limit(5000, 1)]

ValidSettings(settings) ==
  \A name \in DOMAIN settings :
    settings[name] # Malformed /\ settings[name] >= Limits[name].least

Settings(settings) ==
  [name \in DOMAIN Limits |->
     IF name \in DOMAIN settings THEN settings[name] ELSE Limits[name].fallback]

(* getenv                                                                  *)
Getenv(value, fallback) == IF value = None THEN fallback ELSE value

DefaultProviderCallbackSecret(env) ==
  IF env = "production" THEN None ELSE "dev-provider-callback-secret"

CallbackSecret(e) == Getenv(e.callbackSecret, DefaultProviderCallbackSecret(e.env))
Driver(e) == Getenv(e.driver, "memory")

-----------------------------------------------------------------------------
(* A deliberately wrong form of ValidDriver.                               *)
AnyDriver(e) == Driver(e) \in {"memory", "postgres"}

-----------------------------------------------------------------------------
(* The checks of Load that refuse to start the process.                    *)
ValidDriver(e) ==
  /\ Driver(e) \in {"memory", "postgres"}
  /\ Driver(e) = "postgres" => e.databaseURL # None
  /\ e.env = "production" => Driver(e) = "postgres"

ValidSecrets(e) ==
  e.env = "production" => e.apiKeys # <<>> /\ CallbackSecret(e) # None

Loads(e) ==
  /\ ValidAPIKeys(e.apiKeys)
  /\ ValidSecrets(e)
  /\ ValidDriver(e)
  /\ ValidSettings(e.settings)

Load(e) ==
  [driver    |-> Driver(e),
   keys      |-> IF e.apiKeys = <<>> THEN DevKeys ELSE ParseAPIKeys(e.apiKeys),
   secret    |-> CallbackSecret(e),
   settings  |-> Settings(e.settings)]
=============================================================================
