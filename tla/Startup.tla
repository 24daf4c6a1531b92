------------------------------ MODULE Startup ------------------------------
(***************************************************************************)
(* One deployment of the API from its environment to a serving process:    *)
(* the .env file, config.Load with its defaults and rules, and the calls   *)
(* of run that can refuse what Load let pass.  A value of a variable is    *)
(* one of a few words, the blank one included; the tables below say how    *)
(* the parsers read them.  Variables whose parsing is all there is to them *)
(* (names, ports, the HTTP and pool timeouts, log settings) are left out,  *)
(* and "WHATSAPP" stands for the four that hold WhatsApp's credentials,    *)
(* which production asks for alike.                                        *)
(***************************************************************************)
EXTENDS Naturals, Sequences

CONSTANTS
  Deployment,  \* pairs [real, file]: the environment, and the lines of .env
  Unset

Key == {"APP_ENV", "CORS_ALLOWED_ORIGINS", "DATABASE_URL", "DATABASE_MAX_CONNS",
        "DATABASE_MIN_CONNS", "DATABASE_AUTO_MIGRATE", "JWT_ACCESS_SECRET",
        "JWT_REFRESH_SECRET", "JWT_ACCESS_TTL", "JWT_REFRESH_TTL", "WHATSAPP"}

VARIABLES
  at,        \* where run is
  real,      \* the environment the process is started with
  file,      \* the lines of its .env
  setting,   \* the process environment, with what .env added
  cfg,       \* the configuration, when Load returned one
  report,    \* the variables named by Load's error
  repaired,  \* history: the variables repaired after an earlier report
  schema     \* "old", or "new" when the migrations have run

vars == <<at, real, file, setting, cfg, report, repaired, schema>>

-----------------------------------------------------------------------------
(* How the parsers read the words; what is not in a table is unreadable.   *)

Atoi == [zero |-> 0, five |-> 5, twenty |-> 20, thousands |-> 2000]
Day == 24 * 60
ParseDuration == [nothing |-> 0, minutes5 |-> 5, minutes15 |-> 15, days30 |-> 30 * Day, days60 |-> 60 * Day]
ParseBool == [true |-> TRUE, false |-> FALSE]
Bytes == [blank |-> 0, weak |-> 31, secret |-> 32, another |-> 64, fresh |-> 32, fresh2 |-> 32]
Split == [app |-> {"app"}, star |-> {"*"}, both |-> {"app", "*"}, commas |-> {}]

\* The trimmed value, and "" for a variable that is not set.
raw(env, key) == IF env[key] = Unset THEN "" ELSE env[key]

str(env, key, def) == IF raw(env, key) = "" THEN def ELSE raw(env, key)

\* The parsers keep the default for a value they report.
Readable(env, key, table, valid) ==
  raw(env, key) = "" \/ (raw(env, key) \in DOMAIN table /\ table[raw(env, key)] \in valid)

Parsed(env, key, table, valid, def) ==
  IF raw(env, key) # "" /\ Readable(env, key, table, valid) THEN table[raw(env, key)] ELSE def

Positive == Nat \ {0}

Environments == {"development", "test", "staging", "production"}

Enum(env) ==
  IF str(env, "APP_ENV", "development") \in Environments
  THEN str(env, "APP_ENV", "development") ELSE "development"

List(env, key, def) ==
  IF raw(env, key) = "" \/ Split[raw(env, key)] = {} THEN def ELSE Split[raw(env, key)]

Config(env) ==
  [env |-> Enum(env),
   origins |-> List(env, "CORS_ALLOWED_ORIGINS", {"localhost"}),
   maxConns |-> Parsed(env, "DATABASE_MAX_CONNS", Atoi, 1..1000, 10),
   minConns |-> Parsed(env, "DATABASE_MIN_CONNS", Atoi, 0..1000, 2),
   autoMigrate |-> Parsed(env, "DATABASE_AUTO_MIGRATE", ParseBool, BOOLEAN, FALSE),
   access |-> str(env, "JWT_ACCESS_SECRET", "blank"),
   refresh |-> str(env, "JWT_REFRESH_SECRET", "blank"),
   accessTTL |-> Parsed(env, "JWT_ACCESS_TTL", ParseDuration, Positive, 15),
   refreshTTL |-> Parsed(env, "JWT_REFRESH_TTL", ParseDuration, Positive, 30 * Day),
   whatsApp |-> str(env, "WHATSAPP", "blank")]

\* The variables the parsers report.
Unreadable(env) ==
  {k \in {"APP_ENV"} : str(env, k, "development") \notin Environments}
    \union {k \in {"DATABASE_URL"} : raw(env, k) # "postgres"}
    \union {k \in {"DATABASE_MAX_CONNS"} : ~Readable(env, k, Atoi, 1..1000)}
    \union {k \in {"DATABASE_MIN_CONNS"} : ~Readable(env, k, Atoi, 0..1000)}
    \union {k \in {"DATABASE_AUTO_MIGRATE"} : ~Readable(env, k, ParseBool, BOOLEAN)}
    \union {k \in {"JWT_ACCESS_TTL", "JWT_REFRESH_TTL"} : ~Readable(env, k, ParseDuration, Positive)}

IsZero(secret) == secret = "blank"

\* The variables that break a rule of several, or of production.
Inconsistent(c) ==
  {k \in {"DATABASE_MIN_CONNS", "DATABASE_MAX_CONNS"} : c.minConns > c.maxConns}
    \union {k \in {"JWT_ACCESS_TTL", "JWT_REFRESH_TTL"} : c.accessTTL >= c.refreshTTL}
    \union {k \in {"JWT_ACCESS_SECRET"} : ~IsZero(c.access) /\ Bytes[c.access] < 32}
    \union {k \in {"JWT_REFRESH_SECRET"} : ~IsZero(c.refresh) /\ Bytes[c.refresh] < 32}
    \union {k \in {"JWT_ACCESS_SECRET", "JWT_REFRESH_SECRET"} :
              ~IsZero(c.access) /\ c.access = c.refresh}

\* Mutation: "*" is looked for as the whole list.
MissingWildcard(c) ==
  IF c.env # "production" THEN {}
  ELSE {k \in {"JWT_ACCESS_SECRET"} : IsZero(c.access)}
         \union {k \in {"JWT_REFRESH_SECRET"} : IsZero(c.refresh)}
         \union {k \in {"WHATSAPP"} : IsZero(c.whatsApp)}
         \union {k \in {"CORS_ALLOWED_ORIGINS"} : c.origins = {"*"}}

\* What production asks for on top.
ProductionRules(c) ==
  IF c.env # "production" THEN {}
  ELSE {k \in {"JWT_ACCESS_SECRET"} : IsZero(c.access)}
         \union {k \in {"JWT_REFRESH_SECRET"} : IsZero(c.refresh)}
         \union {k \in {"WHATSAPP"} : IsZero(c.whatsApp)}
         \union {k \in {"CORS_ALLOWED_ORIGINS"} : "*" \in c.origins}

\* Mutation: the rules are not looked at when a value could not be read.
ReadableFirst(env) ==
  IF Unreadable(env) # {} THEN Unreadable(env)
  ELSE Inconsistent(Config(env)) \union ProductionRules(Config(env))

\* Everything Load reports, in one error: the parsers go on after a value they
\* cannot read, and validate looks at the defaults they put in its place.
Problems(env) ==
  Unreadable(env) \union Inconsistent(Config(env)) \union ProductionRules(Config(env))

-----------------------------------------------------------------------------
(* .env: lines <<key, value>>, of which the last counts, or "junk".        *)

Malformed(lines) == \E i \in DOMAIN lines : lines[i] = <<"junk">>

parseDotEnv(lines) ==
  [k \in Key |->
     LET at_k == {i \in DOMAIN lines : lines[i][1] = k}
     IN  IF at_k = {} THEN Unset
         ELSE lines[CHOOSE i \in at_k : \A j \in at_k : j <= i][2]]

-----------------------------------------------------------------------------
NoConfig == Config([k \in Key |-> Unset])

Init ==
  /\ at = "dotenv"
  /\ \E d \in Deployment : real = d.real /\ file = d.file
  /\ setting = real
  /\ cfg = NoConfig
  /\ report = {} /\ repaired = {}
  /\ schema = "old"

Exit == at' = "exited" /\ UNCHANGED <<setting, cfg, report, schema>>

\* A variable that is set stays as it is, even when it is blank.
LoadDotEnv ==
  /\ at = "dotenv"
  /\ IF Malformed(file) THEN Exit
     ELSE /\ at' = "load"
          /\ LET add == parseDotEnv(file)
             IN  setting' = [k \in Key |-> IF real[k] # Unset THEN real[k] ELSE add[k]]
          /\ UNCHANGED <<cfg, report, schema>>
  /\ UNCHANGED <<real, file, repaired>>

Load ==
  /\ at = "load"
  /\ report' = Problems(setting)
  /\ IF report' = {}
     THEN at' = "connect" /\ cfg' = Config(setting)
     ELSE at' = "exited" /\ cfg' = cfg
  /\ UNCHANGED <<real, file, setting, repaired, schema>>

Connect ==
  /\ at = "connect"
  /\ \/ at' = "migrate" /\ UNCHANGED <<setting, cfg, report, schema>>
     \/ Exit
  /\ UNCHANGED <<real, file, repaired>>

MigrateSchema ==
  /\ at = "migrate"
  /\ \/ /\ at' = "issuer"
        /\ schema' = IF cfg.autoMigrate THEN "new" ELSE schema
        /\ UNCHANGED <<setting, cfg, report>>
     \/ cfg.autoMigrate /\ Exit
  /\ UNCHANGED <<real, file, repaired>>

\* Load lets an unset secret pass outside production; this does not.
NewAccessTokenIssuer ==
  /\ at = "issuer"
  /\ IF Bytes[cfg.access] < 32 \/ cfg.accessTTL <= 0
     THEN Exit
     ELSE at' = "listen" /\ UNCHANGED <<setting, cfg, report, schema>>
  /\ UNCHANGED <<real, file, repaired>>

\* The port may be taken.
Listen ==
  /\ at = "listen"
  /\ \/ at' = "serving" /\ UNCHANGED <<setting, cfg, report, schema>>
     \/ Exit
  /\ UNCHANGED <<real, file, repaired>>

Stop ==
  /\ at = "serving"
  /\ Exit
  /\ UNCHANGED <<real, file, repaired>>

\* A value for each variable that is fine whatever the others are.
Good == [APP_ENV |-> "production", CORS_ALLOWED_ORIGINS |-> "app", DATABASE_URL |-> "postgres",
         DATABASE_MAX_CONNS |-> "twenty", DATABASE_MIN_CONNS |-> "zero",
         DATABASE_AUTO_MIGRATE |-> "true", JWT_ACCESS_SECRET |-> "fresh",
         JWT_REFRESH_SECRET |-> "fresh2", JWT_ACCESS_TTL |-> "minutes5",
         JWT_REFRESH_TTL |-> "days60", WHATSAPP |-> "set"]

\* What a deployment's secrets may be: a repair draws fresh ones.
Secrets == (DOMAIN Bytes \ {"fresh", "fresh2"}) \union {"", Unset}

SecretKeys == {"JWT_ACCESS_SECRET", "JWT_REFRESH_SECRET"}

ASSUME DeploymentAssumption ==
  /\ \A k \in Key : Good[k] # Unset
  /\ \A d \in Deployment :
       /\ d.file \in Seq(Seq(STRING))
       /\ \A k \in SecretKeys :
            /\ d.real[k] \in Secrets
            /\ \A i \in DOMAIN d.file : d.file[i][1] = k => d.file[i][2] \in Secrets

\* The operator starts it again, after repairing just what was reported.
Restart ==
  /\ at = "exited"
  /\ real' = [k \in Key |-> IF k \in report THEN Good[k] ELSE real[k]]
  /\ repaired' = repaired \union report
  /\ at' = "dotenv" /\ setting' = real' /\ cfg' = NoConfig /\ report' = {}
  /\ UNCHANGED <<file, schema>>

Next ==
  \/ LoadDotEnv \/ Load \/ Connect \/ MigrateSchema \/ NewAccessTokenIssuer
  \/ Listen \/ Stop \/ Restart

Spec == Init /\ [][Next]_vars

-----------------------------------------------------------------------------
\* A process that serves is safe to serve: the real environment was not overruled
\* by .env, every rule of Load and of the constructors holds of the values in use
\* (defaults put in for others included), and one that the environment names a
\* production is held to production's rules.
RunsSoundly ==
  at = "serving" =>
    /\ \A k \in Key : real[k] # Unset => setting[k] = real[k]
    /\ real["APP_ENV"] = "production" => cfg.env = "production"
    /\ cfg.minConns <= cfg.maxConns
    /\ cfg.accessTTL < cfg.refreshTTL
    /\ Bytes[cfg.access] >= 32 /\ cfg.access # cfg.refresh
    /\ cfg.env = "production" =>
         "*" \notin cfg.origins /\ ~IsZero(cfg.whatsApp) /\ Bytes[cfg.refresh] >= 32
    /\ cfg.autoMigrate => schema = "new"

\* One repair suffices: after repairing every variable Load reported, no further
\* report names another -- unless APP_ENV itself was misspelled, when the rules of
\* production were not applied.
OneRepairSuffices ==
  report # {} /\ repaired # {} => "APP_ENV" \in repaired
=============================================================================
