--------------------------- MODULE Startup_proofs ---------------------------
(***************************************************************************)
(* Theorems about Startup, for every deployment: any values of the         *)
(* variables in the environment and in .env, the secrets excepted, whose   *)
(* lengths have to be known.                                               *)
(***************************************************************************)
EXTENDS Startup, WellFoundedInduction, TLAPS

-----------------------------------------------------------------------------
(* The inductive invariant.                                                *)

\* What LoadDotEnv makes of an environment and a file.
Setting(env, lines) ==
  [k \in Key |-> IF env[k] # Unset THEN env[k] ELSE parseDotEnv(lines)[k]]

\* The secrets of an environment have a known length.
Sized(env) == \A k \in SecretKeys : env[k] \in DOMAIN Bytes \union {"", Unset}

\* Nothing is drawn yet that a repair would draw.
Original(env) == \A k \in SecretKeys : env[k] \in Secrets

InputsInv ==
  /\ Original(parseDotEnv(file))
  /\ Sized(real)
  /\ repaired = {} => Original(real)

Configured == {"connect", "migrate", "issuer", "listen", "serving"}

\* How far startup has come, and what is known since.
StartInv ==
  /\ at \in {"load"} \union Configured => setting = Setting(real, file)
  /\ at \in Configured => Problems(setting) = {} /\ cfg = Config(setting)
  /\ at \in {"issuer", "listen", "serving"} => (cfg.autoMigrate => schema = "new")
  /\ at \in {"listen", "serving"} => Bytes[cfg.access] >= 32

\* A report is the one for the present environment, and a repair leaves nothing.
RepairInv ==
  /\ report # {} => at = "exited" /\ report = Problems(Setting(real, file))
  /\ repaired # {} /\ "APP_ENV" \notin repaired => Problems(Setting(real, file)) = {}

IInv == InputsInv /\ StartInv /\ RepairInv

-----------------------------------------------------------------------------
(* What the operators return.                                              *)

\* A finite set of positions has a last one.
LEMMA LastExists ==
  ASSUME NEW n \in Nat, NEW S \in SUBSET (1..n), S # {}
  PROVE  \E i \in S : \A j \in S : j <= i
<1> DEFINE T == {n - i : i \in S}
<1>1. \A i \in S : i \in Int /\ n - i \in Nat
  OBVIOUS
<1>2. T \subseteq Nat /\ T # {}
  BY <1>1
<1>3. PICK x \in T : \A y \in T : ~(<<y, x>> \in OpToRel(<, Nat))
  BY <1>2, NatLessThanWellFounded, WFMin
<1>4. \A y \in T : ~(y < x)
  BY <1>2, <1>3 DEF OpToRel
<1>5. PICK i \in S : x = n - i
  OBVIOUS
<1>6. ASSUME NEW j \in S PROVE j <= i
  <2>1. ~(n - j < n - i)
    BY <1>4, <1>5
  <2> QED BY <1>1, <2>1
<1> QED BY <1>6

\* The secrets of a .env file are those of its lines.
LEMMA FileSecrets ==
  ASSUME NEW d \in Deployment
  PROVE  Original(parseDotEnv(d.file))
<1> SUFFICES ASSUME NEW k \in SecretKeys PROVE parseDotEnv(d.file)[k] \in Secrets
  BY DEF Original
<1> DEFINE at_k == {i \in DOMAIN d.file : d.file[i][1] = k}
<1>1. k \in Key
  BY DEF SecretKeys, Key
<1>2. parseDotEnv(d.file)[k] =
        IF at_k = {} THEN Unset ELSE d.file[CHOOSE i \in at_k : \A j \in at_k : j <= i][2]
  BY <1>1 DEF parseDotEnv
<1>3. CASE at_k = {}
  BY <1>2, <1>3 DEF Secrets
<1>4. CASE at_k # {}
  <2>1. d.file \in Seq(Seq(STRING))
    BY DeploymentAssumption
  <2>2. Len(d.file) \in Nat /\ at_k \in SUBSET (1..Len(d.file))
    BY <2>1
  <2>3. \E i \in at_k : \A j \in at_k : j <= i
    BY <1>4, <2>2, LastExists
  <2> DEFINE last == CHOOSE i \in at_k : \A j \in at_k : j <= i
  <2>4. last \in at_k
    BY <2>3
  <2>5. d.file[last][2] \in Secrets
    BY <2>4, DeploymentAssumption
  <2> QED BY <1>2, <1>4, <2>5
<1> QED BY <1>3, <1>4

\* The secrets in use have a known length.
LEMMA SettingSized ==
  ASSUME NEW env, NEW lines, Sized(env), Original(parseDotEnv(lines))
  PROVE  Sized(Setting(env, lines))
<1>1. Secrets \subseteq DOMAIN Bytes \union {"", Unset} /\ SecretKeys \subseteq Key
  BY DEF Secrets, SecretKeys, Key
<1> QED BY <1>1 DEF Sized, Original, Setting

\* What Load puts in each field.
LEMMA ConfigFields ==
  ASSUME NEW env
  PROVE  /\ Config(env).env = Enum(env)
         /\ Config(env).origins = List(env, "CORS_ALLOWED_ORIGINS", {"localhost"})
         /\ Config(env).maxConns = Parsed(env, "DATABASE_MAX_CONNS", Atoi, 1..1000, 10)
         /\ Config(env).minConns = Parsed(env, "DATABASE_MIN_CONNS", Atoi, 0..1000, 2)
         /\ Config(env).access = str(env, "JWT_ACCESS_SECRET", "blank")
         /\ Config(env).refresh = str(env, "JWT_REFRESH_SECRET", "blank")
         /\ Config(env).accessTTL = Parsed(env, "JWT_ACCESS_TTL", ParseDuration, Positive, 15)
         /\ Config(env).refreshTTL = Parsed(env, "JWT_REFRESH_TTL", ParseDuration, Positive, 30 * Day)
         /\ Config(env).whatsApp = str(env, "WHATSAPP", "blank")
<1>1. Config(env).env = Enum(env)
  BY DEF Config
<1>2. Config(env).origins = List(env, "CORS_ALLOWED_ORIGINS", {"localhost"})
  BY DEF Config
<1>3. Config(env).maxConns = Parsed(env, "DATABASE_MAX_CONNS", Atoi, 1..1000, 10)
  BY DEF Config
<1>4. Config(env).minConns = Parsed(env, "DATABASE_MIN_CONNS", Atoi, 0..1000, 2)
  BY DEF Config
<1>5. Config(env).access = str(env, "JWT_ACCESS_SECRET", "blank")
  BY DEF Config
<1>6. Config(env).refresh = str(env, "JWT_REFRESH_SECRET", "blank")
  BY DEF Config
<1>7. Config(env).accessTTL = Parsed(env, "JWT_ACCESS_TTL", ParseDuration, Positive, 15)
  BY DEF Config
<1>8. Config(env).refreshTTL = Parsed(env, "JWT_REFRESH_TTL", ParseDuration, Positive, 30 * Day)
  BY DEF Config
<1>9. Config(env).whatsApp = str(env, "WHATSAPP", "blank")
  BY DEF Config
<1> QED BY <1>1, <1>2, <1>3, <1>4, <1>5, <1>6, <1>7, <1>8, <1>9

\* The secrets Load returns have a known length.
LEMMA ConfigSized ==
  ASSUME NEW env, Sized(env)
  PROVE  /\ Config(env).access \in DOMAIN Bytes /\ Config(env).refresh \in DOMAIN Bytes
<1>1. "blank" \in DOMAIN Bytes
  BY DEF Bytes
<1>2. ASSUME NEW k \in SecretKeys PROVE str(env, k, "blank") \in DOMAIN Bytes
  <2>1. env[k] \in DOMAIN Bytes \union {"", Unset}
    BY <1>2 DEF Sized
  <2> QED BY <1>1, <2>1, Zenon DEF str, raw
<1>3. "JWT_ACCESS_SECRET" \in SecretKeys /\ "JWT_REFRESH_SECRET" \in SecretKeys
  BY DEF SecretKeys
<1>4. str(env, "JWT_ACCESS_SECRET", "blank") \in DOMAIN Bytes
      /\ str(env, "JWT_REFRESH_SECRET", "blank") \in DOMAIN Bytes
  BY <1>2, <1>3
<1> QED BY <1>4, ConfigFields

\* Lengths are natural numbers, and nothing is the length of no secret.
LEMMA BytesIs == Bytes["blank"] = 0 /\ \A w \in DOMAIN Bytes : Bytes[w] \in Nat
BY DEF Bytes

\* A parser returns a valid value, if its default is one.
LEMMA ParsedIs ==
  ASSUME NEW env, NEW key, NEW table, NEW valid, NEW def \in valid
  PROVE  Parsed(env, key, table, valid, def) \in valid
BY DEF Parsed, Readable

\* Whatever the environment, the fields are within the bounds of their parsers.
LEMMA ConfigIs ==
  ASSUME NEW env
  PROVE  /\ Config(env).minConns \in 0..1000 /\ Config(env).maxConns \in 1..1000
         /\ Config(env).accessTTL \in Positive /\ Config(env).refreshTTL \in Positive
<1>1. 10 \in 1..1000 /\ 2 \in 0..1000 /\ 15 \in Positive /\ 30 * Day \in Positive
  BY DEF Positive, Day
<1>2. Parsed(env, "DATABASE_MAX_CONNS", Atoi, 1..1000, 10) \in 1..1000
  BY <1>1, ParsedIs, SMT
<1>3. Parsed(env, "DATABASE_MIN_CONNS", Atoi, 0..1000, 2) \in 0..1000
  BY <1>1, ParsedIs, SMT
<1>4. Parsed(env, "JWT_ACCESS_TTL", ParseDuration, Positive, 15) \in Positive
  BY <1>1, ParsedIs, SMT
<1>5. Parsed(env, "JWT_REFRESH_TTL", ParseDuration, Positive, 30 * Day) \in Positive
  BY <1>1, ParsedIs, SMT
<1>6. Config(env).minConns \in 0..1000 /\ Config(env).maxConns \in 1..1000
  <2> DEFINE X == 1..1000
             N == 0..1000
             x == Parsed(env, "DATABASE_MAX_CONNS", Atoi, X, 10)
             n == Parsed(env, "DATABASE_MIN_CONNS", Atoi, N, 2)
  <2>1. x \in X
    BY <1>2
  <2>2. n \in N
    BY <1>3
  <2>3. Config(env).maxConns = x /\ Config(env).minConns = n
    BY ConfigFields
  <2> HIDE DEF X, N, x, n
  <2>4. Config(env).maxConns \in X /\ Config(env).minConns \in N
    BY <2>1, <2>2, <2>3
  <2> QED BY <2>4 DEF X, N
<1>7. Config(env).accessTTL \in Positive /\ Config(env).refreshTTL \in Positive
  BY <1>4, <1>5, ConfigFields
<1> QED BY <1>6, <1>7

-----------------------------------------------------------------------------
(* What serves is sound.                                                   *)

\* What serves has passed Load and the constructors.
LEMMA ServesSoundly == IInv => RunsSoundly
<1> SUFFICES ASSUME IInv, at = "serving" PROVE RunsSoundly
  BY DEF RunsSoundly
<1>1. /\ setting = Setting(real, file) /\ cfg = Config(setting) /\ Problems(setting) = {}
      /\ (cfg.autoMigrate => schema = "new") /\ Bytes[cfg.access] >= 32
  BY DEF IInv, StartInv, Configured
<1>2. \A k \in Key : real[k] # Unset => setting[k] = real[k]
  BY <1>1 DEF Setting
<1>3. real["APP_ENV"] = "production" => cfg.env = "production"
  <2>1. "production" # Unset
    BY DeploymentAssumption DEF Good, Key
  <2>2. real["APP_ENV"] = "production" => setting["APP_ENV"] = "production"
    BY <1>2, <2>1 DEF Key
  <2>3. setting["APP_ENV"] = "production" => Enum(setting) = "production"
    BY <2>1 DEF Enum, str, raw, Environments
  <2> QED BY <1>1, <2>2, <2>3, ConfigFields
<1>4. Inconsistent(cfg) = {} /\ ProductionRules(cfg) = {}
  BY <1>1 DEF Problems
<1>5. cfg.minConns <= cfg.maxConns /\ cfg.accessTTL < cfg.refreshTTL
  <2>1. ~(cfg.minConns > cfg.maxConns) /\ ~(cfg.accessTTL >= cfg.refreshTTL)
    BY <1>4 DEF Inconsistent
  <2>2. /\ cfg.minConns \in 0..1000 /\ cfg.maxConns \in 1..1000
        /\ cfg.accessTTL \in Positive /\ cfg.refreshTTL \in Positive
    BY <1>1, ConfigIs
  <2> DEFINE least == cfg.minConns
             most == cfg.maxConns
             short == cfg.accessTTL
             long == cfg.refreshTTL
  <2>3. least \in 0..1000 /\ most \in 1..1000 /\ ~(least > most)
    BY <2>1, <2>2
  <2>4. short \in Nat /\ long \in Nat /\ ~(short >= long)
    BY <2>1, <2>2 DEF Positive
  <2> HIDE DEF least, most, short, long
  <2>5. least <= most
    BY <2>3
  <2>6. short < long
    BY <2>4
  <2> QED BY <2>5, <2>6 DEF least, most, short, long
<1>6. cfg.access \in DOMAIN Bytes /\ cfg.refresh \in DOMAIN Bytes
  BY <1>1, SettingSized, ConfigSized DEF IInv, InputsInv
<1>7. ~IsZero(cfg.access) /\ cfg.access # cfg.refresh
  <2>1. ~IsZero(cfg.access)
    BY <1>1, BytesIs DEF IsZero
  <2> QED BY <2>1, <1>4 DEF Inconsistent
<1>8. cfg.env = "production" =>
        "*" \notin cfg.origins /\ ~IsZero(cfg.whatsApp) /\ Bytes[cfg.refresh] >= 32
  <2> SUFFICES ASSUME cfg.env = "production"
               PROVE  "*" \notin cfg.origins /\ ~IsZero(cfg.whatsApp) /\ Bytes[cfg.refresh] >= 32
    OBVIOUS
  <2>1. "*" \notin cfg.origins /\ ~IsZero(cfg.whatsApp) /\ ~IsZero(cfg.refresh)
    BY <1>4 DEF ProductionRules
  <2>2. ~(Bytes[cfg.refresh] < 32)
    BY <1>4, <2>1 DEF Inconsistent
  <2> QED BY <1>6, <2>1, <2>2, BytesIs
<1> QED BY <1>1, <1>2, <1>3, <1>5, <1>7, <1>8 DEF RunsSoundly

-----------------------------------------------------------------------------
(* One repair is enough.                                                   *)

\* Reading a variable after its repair, or without one.
LEMMA RepairedReads ==
  ASSUME NEW e, NEW e2, NEW P, NEW k \in Key,
         e2[k] = IF k \in P THEN Good[k] ELSE e[k]
  PROVE  /\ k \in P => raw(e2, k) = Good[k]
         /\ k \notin P => raw(e2, k) = raw(e, k)
BY DeploymentAssumption DEF raw

\* What the operator puts in for each variable.
LEMMA GoodIs ==
  /\ Good["CORS_ALLOWED_ORIGINS"] = "app" /\ Good["DATABASE_URL"] = "postgres"
  /\ Good["DATABASE_MAX_CONNS"] = "twenty" /\ Good["DATABASE_MIN_CONNS"] = "zero"
  /\ Good["DATABASE_AUTO_MIGRATE"] = "true"
  /\ Good["JWT_ACCESS_SECRET"] = "fresh" /\ Good["JWT_REFRESH_SECRET"] = "fresh2"
  /\ Good["JWT_ACCESS_TTL"] = "minutes5" /\ Good["JWT_REFRESH_TTL"] = "days60"
  /\ Good["WHATSAPP"] = "set"
BY DEF Good

\* What an environment reports, variable by variable.
LEMMA Reports ==
  ASSUME NEW e
  PROVE  /\ "APP_ENV" \in Problems(e) <=> str(e, "APP_ENV", "development") \notin Environments
         /\ raw(e, "DATABASE_URL") # "postgres" => "DATABASE_URL" \in Problems(e)
         /\ ~Readable(e, "DATABASE_MAX_CONNS", Atoi, 1..1000) => "DATABASE_MAX_CONNS" \in Problems(e)
         /\ ~Readable(e, "DATABASE_MIN_CONNS", Atoi, 0..1000) => "DATABASE_MIN_CONNS" \in Problems(e)
         /\ ~Readable(e, "DATABASE_AUTO_MIGRATE", ParseBool, BOOLEAN)
              => "DATABASE_AUTO_MIGRATE" \in Problems(e)
         /\ ~Readable(e, "JWT_ACCESS_TTL", ParseDuration, Positive) => "JWT_ACCESS_TTL" \in Problems(e)
         /\ ~Readable(e, "JWT_REFRESH_TTL", ParseDuration, Positive) => "JWT_REFRESH_TTL" \in Problems(e)
<1>1. "APP_ENV" \notin Inconsistent(Config(e)) /\ "APP_ENV" \notin ProductionRules(Config(e))
  BY DEF Inconsistent, ProductionRules
<1> QED BY <1>1 DEF Problems, Unreadable

\* Which variables each broken rule names.
LEMMA Rules ==
  ASSUME NEW e
  PROVE  LET c == Config(e)
         IN  /\ c.minConns > c.maxConns =>
                  "DATABASE_MIN_CONNS" \in Problems(e) /\ "DATABASE_MAX_CONNS" \in Problems(e)
             /\ c.accessTTL >= c.refreshTTL =>
                  "JWT_ACCESS_TTL" \in Problems(e) /\ "JWT_REFRESH_TTL" \in Problems(e)
             /\ ~IsZero(c.access) /\ Bytes[c.access] < 32 => "JWT_ACCESS_SECRET" \in Problems(e)
             /\ ~IsZero(c.refresh) /\ Bytes[c.refresh] < 32 => "JWT_REFRESH_SECRET" \in Problems(e)
             /\ ~IsZero(c.access) /\ c.access = c.refresh =>
                  "JWT_ACCESS_SECRET" \in Problems(e) /\ "JWT_REFRESH_SECRET" \in Problems(e)
             /\ c.env = "production" =>
                  /\ IsZero(c.access) => "JWT_ACCESS_SECRET" \in Problems(e)
                  /\ IsZero(c.refresh) => "JWT_REFRESH_SECRET" \in Problems(e)
                  /\ IsZero(c.whatsApp) => "WHATSAPP" \in Problems(e)
                  /\ "*" \in c.origins => "CORS_ALLOWED_ORIGINS" \in Problems(e)
<1> DEFINE c == Config(e)
<1> HIDE DEF c
<1>1. Problems(e) = Unreadable(e) \union Inconsistent(c) \union ProductionRules(c)
  BY Zenon DEF Problems, c
<1>2. /\ c.minConns > c.maxConns =>
           "DATABASE_MIN_CONNS" \in Inconsistent(c) /\ "DATABASE_MAX_CONNS" \in Inconsistent(c)
      /\ c.accessTTL >= c.refreshTTL =>
           "JWT_ACCESS_TTL" \in Inconsistent(c) /\ "JWT_REFRESH_TTL" \in Inconsistent(c)
      /\ ~IsZero(c.access) /\ Bytes[c.access] < 32 => "JWT_ACCESS_SECRET" \in Inconsistent(c)
      /\ ~IsZero(c.refresh) /\ Bytes[c.refresh] < 32 => "JWT_REFRESH_SECRET" \in Inconsistent(c)
      /\ ~IsZero(c.access) /\ c.access = c.refresh =>
           "JWT_ACCESS_SECRET" \in Inconsistent(c) /\ "JWT_REFRESH_SECRET" \in Inconsistent(c)
  BY DEF Inconsistent
<1>3. c.env = "production" =>
           /\ IsZero(c.access) => "JWT_ACCESS_SECRET" \in ProductionRules(c)
           /\ IsZero(c.refresh) => "JWT_REFRESH_SECRET" \in ProductionRules(c)
           /\ IsZero(c.whatsApp) => "WHATSAPP" \in ProductionRules(c)
           /\ "*" \in c.origins => "CORS_ALLOWED_ORIGINS" \in ProductionRules(c)
  BY DEF ProductionRules
<1> QED BY <1>1, <1>2, <1>3 DEF c

\* With every variable readable and every rule kept there is nothing to report.
LEMMA Clean ==
  ASSUME NEW e, NEW c, c = Config(e),
         str(e, "APP_ENV", "development") \in Environments,
         raw(e, "DATABASE_URL") = "postgres",
         Readable(e, "DATABASE_MAX_CONNS", Atoi, 1..1000),
         Readable(e, "DATABASE_MIN_CONNS", Atoi, 0..1000),
         Readable(e, "DATABASE_AUTO_MIGRATE", ParseBool, BOOLEAN),
         Readable(e, "JWT_ACCESS_TTL", ParseDuration, Positive),
         Readable(e, "JWT_REFRESH_TTL", ParseDuration, Positive),
         ~(c.minConns > c.maxConns), ~(c.accessTTL >= c.refreshTTL),
         IsZero(c.access) \/ ~(Bytes[c.access] < 32),
         IsZero(c.refresh) \/ ~(Bytes[c.refresh] < 32),
         IsZero(c.access) \/ c.access # c.refresh,
         c.env = "production" => /\ ~IsZero(c.access) /\ ~IsZero(c.refresh)
                                 /\ ~IsZero(c.whatsApp) /\ "*" \notin c.origins
  PROVE  Problems(e) = {}
<1>1. Unreadable(e) = {}
  BY DEF Unreadable
<1>2. Inconsistent(c) = {}
  BY DEF Inconsistent
<1>3. ProductionRules(c) = {}
  BY DEF ProductionRules
<1> QED BY <1>1, <1>2, <1>3 DEF Problems

\* A number is reported alone only when it could not be read.
LEMMA ReportedAlone ==
  ASSUME NEW e
  PROVE  LET c == Config(e)
         IN  /\ "DATABASE_MAX_CONNS" \in Problems(e) /\ "DATABASE_MIN_CONNS" \notin Problems(e) =>
                  ~Readable(e, "DATABASE_MAX_CONNS", Atoi, 1..1000)
             /\ "JWT_ACCESS_TTL" \in Problems(e) /\ "JWT_REFRESH_TTL" \notin Problems(e) =>
                  ~Readable(e, "JWT_ACCESS_TTL", ParseDuration, Positive)
             /\ "JWT_REFRESH_TTL" \in Problems(e) /\ "JWT_ACCESS_TTL" \notin Problems(e) =>
                  ~Readable(e, "JWT_REFRESH_TTL", ParseDuration, Positive)
<1> DEFINE c == Config(e)
<1> HIDE DEF c
<1>1. Problems(e) = Unreadable(e) \union Inconsistent(c) \union ProductionRules(c)
  BY Zenon DEF Problems, c
<1>2. /\ "DATABASE_MAX_CONNS" \in Inconsistent(c) <=> "DATABASE_MIN_CONNS" \in Inconsistent(c)
      /\ "JWT_ACCESS_TTL" \in Inconsistent(c) <=> "JWT_REFRESH_TTL" \in Inconsistent(c)
  BY DEF Inconsistent
<1>3. {"DATABASE_MAX_CONNS", "JWT_ACCESS_TTL", "JWT_REFRESH_TTL"} \intersect ProductionRules(c) = {}
  BY DEF ProductionRules
<1>4. /\ "DATABASE_MAX_CONNS" \in Unreadable(e) => ~Readable(e, "DATABASE_MAX_CONNS", Atoi, 1..1000)
      /\ "JWT_ACCESS_TTL" \in Unreadable(e) => ~Readable(e, "JWT_ACCESS_TTL", ParseDuration, Positive)
      /\ "JWT_REFRESH_TTL" \in Unreadable(e) => ~Readable(e, "JWT_REFRESH_TTL", ParseDuration, Positive)
  BY DEF Unreadable
<1> QED BY <1>1, <1>2, <1>3, <1>4

\* A variable read alike is parsed alike.
LEMMA ReadAlike ==
  ASSUME NEW e, NEW e2, NEW key, NEW table, NEW valid, NEW def, raw(e2, key) = raw(e, key)
  PROVE  /\ Readable(e2, key, table, valid) <=> Readable(e, key, table, valid)
         /\ Parsed(e2, key, table, valid, def) = Parsed(e, key, table, valid, def)
         /\ str(e2, key, def) = str(e, key, def)
BY DEF Readable, Parsed, str

\* What cannot be read becomes its default.
LEMMA Unparsed ==
  ASSUME NEW e, NEW key, NEW table, NEW valid, NEW def, ~Readable(e, key, table, valid)
  PROVE  Parsed(e, key, table, valid, def) = def
BY DEF Parsed

\* How the good numbers are read.
LEMMA GoodNumbers ==
  ASSUME NEW e
  PROVE  /\ raw(e, "DATABASE_MAX_CONNS") = "twenty" =>
              /\ Readable(e, "DATABASE_MAX_CONNS", Atoi, 1..1000)
              /\ Parsed(e, "DATABASE_MAX_CONNS", Atoi, 1..1000, 10) = 20
         /\ raw(e, "DATABASE_MIN_CONNS") = "zero" =>
              /\ Readable(e, "DATABASE_MIN_CONNS", Atoi, 0..1000)
              /\ Parsed(e, "DATABASE_MIN_CONNS", Atoi, 0..1000, 2) = 0
         /\ raw(e, "JWT_ACCESS_TTL") = "minutes5" =>
              /\ Readable(e, "JWT_ACCESS_TTL", ParseDuration, Positive)
              /\ Parsed(e, "JWT_ACCESS_TTL", ParseDuration, Positive, 15) = 5
         /\ raw(e, "JWT_REFRESH_TTL") = "days60" =>
              /\ Readable(e, "JWT_REFRESH_TTL", ParseDuration, Positive)
              /\ Parsed(e, "JWT_REFRESH_TTL", ParseDuration, Positive, 30 * Day) = 60 * Day
         /\ raw(e, "DATABASE_AUTO_MIGRATE") = "true" =>
              Readable(e, "DATABASE_AUTO_MIGRATE", ParseBool, BOOLEAN)
<1>1. /\ "twenty" \in DOMAIN Atoi /\ Atoi["twenty"] = 20
      /\ "zero" \in DOMAIN Atoi /\ Atoi["zero"] = 0
      /\ "minutes5" \in DOMAIN ParseDuration /\ ParseDuration["minutes5"] = 5
      /\ "days60" \in DOMAIN ParseDuration /\ ParseDuration["days60"] = 60 * Day
      /\ "true" \in DOMAIN ParseBool /\ ParseBool["true"] = TRUE
  BY DEF Atoi, ParseDuration, ParseBool
<1>2. 20 \in 1..1000 /\ 0 \in 0..1000 /\ 5 \in Positive /\ 60 * Day \in Positive
  BY DEF Positive, Day
<1>3. raw(e, "DATABASE_MAX_CONNS") = "twenty" =>
        /\ Readable(e, "DATABASE_MAX_CONNS", Atoi, 1..1000)
        /\ Parsed(e, "DATABASE_MAX_CONNS", Atoi, 1..1000, 10) = 20
  <2> SUFFICES ASSUME raw(e, "DATABASE_MAX_CONNS") = "twenty"
               PROVE  /\ Readable(e, "DATABASE_MAX_CONNS", Atoi, 1..1000)
                      /\ Parsed(e, "DATABASE_MAX_CONNS", Atoi, 1..1000, 10) = Atoi["twenty"]
    BY <1>1
  <2>1. "twenty" # "" /\ "twenty" \in DOMAIN Atoi /\ Atoi["twenty"] \in 1..1000
    BY <1>1, <1>2
  <2> QED BY <2>1 DEF Readable, Parsed
<1>4. raw(e, "DATABASE_MIN_CONNS") = "zero" =>
        /\ Readable(e, "DATABASE_MIN_CONNS", Atoi, 0..1000)
        /\ Parsed(e, "DATABASE_MIN_CONNS", Atoi, 0..1000, 2) = 0
  <2> SUFFICES ASSUME raw(e, "DATABASE_MIN_CONNS") = "zero"
               PROVE  /\ Readable(e, "DATABASE_MIN_CONNS", Atoi, 0..1000)
                      /\ Parsed(e, "DATABASE_MIN_CONNS", Atoi, 0..1000, 2) = Atoi["zero"]
    BY <1>1
  <2>1. "zero" # "" /\ "zero" \in DOMAIN Atoi /\ Atoi["zero"] \in 0..1000
    BY <1>1, <1>2
  <2> QED BY <2>1 DEF Readable, Parsed
<1>5. raw(e, "JWT_ACCESS_TTL") = "minutes5" =>
        /\ Readable(e, "JWT_ACCESS_TTL", ParseDuration, Positive)
        /\ Parsed(e, "JWT_ACCESS_TTL", ParseDuration, Positive, 15) = 5
  <2> SUFFICES ASSUME raw(e, "JWT_ACCESS_TTL") = "minutes5"
               PROVE  /\ Readable(e, "JWT_ACCESS_TTL", ParseDuration, Positive)
                      /\ Parsed(e, "JWT_ACCESS_TTL", ParseDuration, Positive, 15) = ParseDuration["minutes5"]
    BY <1>1
  <2>1. "minutes5" # "" /\ "minutes5" \in DOMAIN ParseDuration /\ ParseDuration["minutes5"] \in Positive
    BY <1>1, <1>2
  <2> QED BY <2>1 DEF Readable, Parsed
<1>6. raw(e, "JWT_REFRESH_TTL") = "days60" =>
        /\ Readable(e, "JWT_REFRESH_TTL", ParseDuration, Positive)
        /\ Parsed(e, "JWT_REFRESH_TTL", ParseDuration, Positive, 30 * Day) = 60 * Day
  <2> SUFFICES ASSUME raw(e, "JWT_REFRESH_TTL") = "days60"
               PROVE  /\ Readable(e, "JWT_REFRESH_TTL", ParseDuration, Positive)
                      /\ Parsed(e, "JWT_REFRESH_TTL", ParseDuration, Positive, 30 * Day) = ParseDuration["days60"]
    BY <1>1
  <2>1. "days60" # "" /\ "days60" \in DOMAIN ParseDuration /\ ParseDuration["days60"] \in Positive
    BY <1>1, <1>2
  <2>2. Readable(e, "JWT_REFRESH_TTL", ParseDuration, Positive)
    BY <2>1 DEF Readable
  <2>3. Parsed(e, "JWT_REFRESH_TTL", ParseDuration, Positive, 30 * Day) = ParseDuration["days60"]
    BY <2>1, <2>2, Zenon DEF Parsed
  <2> QED BY <2>2, <2>3
<1>7. raw(e, "DATABASE_AUTO_MIGRATE") = "true" =>
        Readable(e, "DATABASE_AUTO_MIGRATE", ParseBool, BOOLEAN)
  <2>1. "true" \in DOMAIN ParseBool
    BY <1>1
  <2>2. ParseBool["true"] \in BOOLEAN
    BY DEF ParseBool
  <2> QED BY <2>1, <2>2 DEF Readable
<1> QED BY <1>3, <1>4, <1>5, <1>6, <1>7

\* e2 is e after the repair of what was reported of e.
Mended(e, e2) ==
  \A k \in Key : e2[k] = IF k \in Problems(e) THEN Good[k] ELSE e[k]

\* A repair changes the variables that were named, and no other.
LEMMA MendedReads ==
  ASSUME NEW e, NEW e2, Mended(e, e2), NEW k \in Key
  PROVE  /\ k \in Problems(e) => raw(e2, k) = Good[k]
         /\ k \notin Problems(e) => raw(e2, k) = raw(e, k)
<1>1. e2[k] = IF k \in Problems(e) THEN Good[k] ELSE e[k]
  BY DEF Mended
<1> QED BY <1>1, RepairedReads

\* The limits of the pool fit after a repair.
LEMMA ConnsMended ==
  ASSUME NEW e, NEW e2, Mended(e, e2)
  PROVE  /\ Readable(e2, "DATABASE_MAX_CONNS", Atoi, 1..1000)
         /\ Readable(e2, "DATABASE_MIN_CONNS", Atoi, 0..1000)
         /\ ~(Config(e2).minConns > Config(e2).maxConns)
<1> DEFINE kn == "DATABASE_MIN_CONNS"
           kx == "DATABASE_MAX_CONNS"
           n == Parsed(e, kn, Atoi, 0..1000, 2)
           x == Parsed(e, kx, Atoi, 1..1000, 10)
           n2 == Parsed(e2, kn, Atoi, 0..1000, 2)
           x2 == Parsed(e2, kx, Atoi, 1..1000, 10)
<1>1. kn \in Key /\ kx \in Key
  BY DEF Key
<1>2. Config(e).minConns = n /\ Config(e).maxConns = x /\ Config(e2).minConns = n2 /\ Config(e2).maxConns = x2
  BY ConfigFields
<1>3. kn \notin Problems(e) => Readable(e2, kn, Atoi, 0..1000) /\ n2 = n
  <2> SUFFICES ASSUME kn \notin Problems(e) PROVE Readable(e2, kn, Atoi, 0..1000) /\ n2 = n
    OBVIOUS
  <2>1. raw(e2, kn) = raw(e, kn) /\ Readable(e, kn, Atoi, 0..1000)
    BY <1>1, MendedReads, Reports
  <2> QED BY <2>1, ReadAlike
<1>4. kx \notin Problems(e) => Readable(e2, kx, Atoi, 1..1000) /\ x2 = x
  <2> SUFFICES ASSUME kx \notin Problems(e) PROVE Readable(e2, kx, Atoi, 1..1000) /\ x2 = x
    OBVIOUS
  <2>1. raw(e2, kx) = raw(e, kx) /\ Readable(e, kx, Atoi, 1..1000)
    BY <1>1, MendedReads, Reports
  <2> QED BY <2>1, ReadAlike
<1>5. kn \in Problems(e) => Readable(e2, kn, Atoi, 0..1000) /\ n2 = 0
  BY <1>1, MendedReads, GoodIs, GoodNumbers
<1>6. kx \in Problems(e) => Readable(e2, kx, Atoi, 1..1000) /\ x2 = 20
  BY <1>1, MendedReads, GoodIs, GoodNumbers
<1>7. kx \in Problems(e) /\ kn \notin Problems(e) => x = 10
  BY ReportedAlone, Unparsed
<1>8. kx \notin Problems(e) \/ kn \notin Problems(e) => ~(n > x)
  BY <1>2, Rules
<1>9. n \in 0..1000 /\ x \in 1..1000
  <2>1. Config(e).minConns \in 0..1000 /\ Config(e).maxConns \in 1..1000
    BY ConfigIs
  <2> HIDE DEF n, x, n2, x2
  <2> QED BY <1>2, <2>1
<1> HIDE DEF n, x, n2, x2
<1>10. ~(n2 > x2)
  <2>1. CASE kn \in Problems(e)
    BY <1>4, <1>5, <1>6, <1>9, <2>1
  <2>2. CASE kn \notin Problems(e) /\ kx \notin Problems(e)
    BY <1>3, <1>4, <1>8, <2>2
  <2>3. CASE kn \notin Problems(e) /\ kx \in Problems(e)
    BY <1>3, <1>6, <1>7, <1>8, <1>9, <2>3
  <2> QED BY <2>1, <2>2, <2>3
<1> QED BY <1>2, <1>3, <1>4, <1>5, <1>6, <1>10

\* And so do the lifetimes.
LEMMA TTLsMended ==
  ASSUME NEW e, NEW e2, Mended(e, e2)
  PROVE  /\ Readable(e2, "JWT_ACCESS_TTL", ParseDuration, Positive)
         /\ Readable(e2, "JWT_REFRESH_TTL", ParseDuration, Positive)
         /\ ~(Config(e2).accessTTL >= Config(e2).refreshTTL)
<1> DEFINE ka == "JWT_ACCESS_TTL"
           kr == "JWT_REFRESH_TTL"
           a == Parsed(e, ka, ParseDuration, Positive, 15)
           r == Parsed(e, kr, ParseDuration, Positive, 30 * Day)
           a2 == Parsed(e2, ka, ParseDuration, Positive, 15)
           r2 == Parsed(e2, kr, ParseDuration, Positive, 30 * Day)
<1>1. ka \in Key /\ kr \in Key
  BY DEF Key
<1>2. Config(e).accessTTL = a /\ Config(e).refreshTTL = r /\ Config(e2).accessTTL = a2 /\ Config(e2).refreshTTL = r2
  BY ConfigFields
<1>3. ka \notin Problems(e) => Readable(e2, ka, ParseDuration, Positive) /\ a2 = a
  <2> SUFFICES ASSUME ka \notin Problems(e) PROVE Readable(e2, ka, ParseDuration, Positive) /\ a2 = a
    OBVIOUS
  <2>1. raw(e2, ka) = raw(e, ka) /\ Readable(e, ka, ParseDuration, Positive)
    BY <1>1, MendedReads, Reports
  <2> QED BY <2>1, ReadAlike
<1>4. kr \notin Problems(e) => Readable(e2, kr, ParseDuration, Positive) /\ r2 = r
  <2> SUFFICES ASSUME kr \notin Problems(e) PROVE Readable(e2, kr, ParseDuration, Positive) /\ r2 = r
    OBVIOUS
  <2>1. raw(e2, kr) = raw(e, kr) /\ Readable(e, kr, ParseDuration, Positive)
    BY <1>1, MendedReads, Reports
  <2> QED BY <2>1, ReadAlike
<1>5. ka \in Problems(e) => Readable(e2, ka, ParseDuration, Positive) /\ a2 = 5
  BY <1>1, MendedReads, GoodIs, GoodNumbers
<1>6. kr \in Problems(e) => Readable(e2, kr, ParseDuration, Positive) /\ r2 = 60 * Day
  BY <1>1, MendedReads, GoodIs, GoodNumbers
<1>7. ka \in Problems(e) /\ kr \notin Problems(e) => a = 15
  BY ReportedAlone, Unparsed
<1>8. kr \in Problems(e) /\ ka \notin Problems(e) => r = 30 * Day
  BY ReportedAlone, Unparsed
<1>9. ka \notin Problems(e) \/ kr \notin Problems(e) => ~(a >= r)
  BY <1>2, Rules
<1>10. a \in Nat /\ r \in Nat
  BY <1>2, ConfigIs DEF Positive
<1>11. Day \in Nat /\ 15 < Day
  BY DEF Day
<1> HIDE DEF a, r, a2, r2
<1>12. ~(a2 >= r2)
  <2>1. CASE ka \in Problems(e) /\ kr \in Problems(e)
    BY <1>5, <1>6, <1>11, <2>1
  <2>2. CASE ka \notin Problems(e) /\ kr \notin Problems(e)
    BY <1>3, <1>4, <1>9, <2>2
  <2>3. CASE ka \in Problems(e) /\ kr \notin Problems(e)
    BY <1>4, <1>5, <1>7, <1>9, <1>10, <2>3
  <2>4. CASE ka \notin Problems(e) /\ kr \in Problems(e)
    BY <1>3, <1>6, <1>8, <1>9, <1>10, <1>11, <2>4
  <2> QED BY <2>1, <2>2, <2>3, <2>4
<1> QED BY <1>2, <1>3, <1>4, <1>5, <1>6, <1>12

\* The secrets are long, and two fresh ones differ from each other and from any
\* the deployment had.
LEMMA SecretsMended ==
  ASSUME NEW e, NEW e2, Mended(e, e2), Original(e)
  PROVE  LET c == Config(e2)
         IN  /\ IsZero(c.access) \/ ~(Bytes[c.access] < 32)
             /\ IsZero(c.refresh) \/ ~(Bytes[c.refresh] < 32)
             /\ IsZero(c.access) \/ c.access # c.refresh
             /\ Config(e).env = "production" => ~IsZero(c.access) /\ ~IsZero(c.refresh)
<1> DEFINE ka == "JWT_ACCESS_SECRET"
           kr == "JWT_REFRESH_SECRET"
           a == str(e, ka, "blank")
           r == str(e, kr, "blank")
           a2 == str(e2, ka, "blank")
           r2 == str(e2, kr, "blank")
<1>1. ka \in Key /\ kr \in Key /\ ka \in SecretKeys /\ kr \in SecretKeys
  BY DEF Key, SecretKeys
<1>2. Config(e).access = a /\ Config(e).refresh = r /\ Config(e2).access = a2 /\ Config(e2).refresh = r2
  BY ConfigFields
<1>3. (ka \notin Problems(e) => a2 = a) /\ (kr \notin Problems(e) => r2 = r)
  BY <1>1, MendedReads, ReadAlike
<1>4. ka \in Problems(e) => a2 = "fresh"
  BY <1>1, MendedReads, GoodIs DEF str
<1>5. kr \in Problems(e) => r2 = "fresh2"
  BY <1>1, MendedReads, GoodIs DEF str
<1>6. a \notin {"fresh", "fresh2"} /\ r \notin {"fresh", "fresh2"}
  <2>1. e[ka] \in Secrets /\ e[kr] \in Secrets
    BY <1>1 DEF Original
  <2>2. raw(e, ka) \notin {"fresh", "fresh2"} /\ raw(e, kr) \notin {"fresh", "fresh2"}
    BY <2>1 DEF raw, Secrets
  <2> QED BY <2>2 DEF str
<1>7. /\ ~IsZero(a) /\ Bytes[a] < 32 => ka \in Problems(e)
      /\ ~IsZero(r) /\ Bytes[r] < 32 => kr \in Problems(e)
      /\ ~IsZero(a) /\ a = r => ka \in Problems(e) /\ kr \in Problems(e)
      /\ Config(e).env = "production" => /\ IsZero(a) => ka \in Problems(e)
                                         /\ IsZero(r) => kr \in Problems(e)
  BY <1>2, Rules
<1>8. ~IsZero("fresh") /\ ~IsZero("fresh2") /\ Bytes["fresh"] = 32 /\ Bytes["fresh2"] = 32
  BY DEF IsZero, Bytes
<1> HIDE DEF a, r, a2, r2
<1>9. (IsZero(a2) \/ ~(Bytes[a2] < 32)) /\ (IsZero(r2) \/ ~(Bytes[r2] < 32))
  BY <1>3, <1>4, <1>5, <1>7, <1>8
<1>10. IsZero(a2) \/ a2 # r2
  BY <1>3, <1>4, <1>5, <1>6, <1>7, <1>8
<1>11. Config(e).env = "production" => ~IsZero(a2) /\ ~IsZero(r2)
  BY <1>3, <1>4, <1>5, <1>7, <1>8
<1> QED BY <1>2, <1>9, <1>10, <1>11

\* Every rule is applied the first time, so what the repair leaves has been looked
\* at; only a misspelled APP_ENV keeps the rules of production back.
LEMMA RepairIsEnough ==
  ASSUME NEW e, NEW e2, Mended(e, e2), Original(e), "APP_ENV" \notin Problems(e)
  PROVE  Problems(e2) = {}
<1> DEFINE c == Config(e2)
<1>1. {"APP_ENV", "DATABASE_URL", "DATABASE_AUTO_MIGRATE", "CORS_ALLOWED_ORIGINS", "WHATSAPP"} \subseteq Key
  BY DEF Key
<1>2. /\ str(e2, "APP_ENV", "development") = str(e, "APP_ENV", "development")
      /\ str(e, "APP_ENV", "development") \in Environments
  <2>1. raw(e2, "APP_ENV") = raw(e, "APP_ENV")
    BY <1>1, MendedReads
  <2> QED BY <2>1, ReadAlike, Reports
<1>3. c.env = Config(e).env
  BY <1>2, ConfigFields DEF Enum
<1>4. raw(e2, "DATABASE_URL") = "postgres"
  BY <1>1, MendedReads, GoodIs, Reports
<1>5. Readable(e2, "DATABASE_AUTO_MIGRATE", ParseBool, BOOLEAN)
  <2> DEFINE k == "DATABASE_AUTO_MIGRATE"
  <2>1. CASE k \in Problems(e)
    BY <1>1, <2>1, MendedReads, GoodIs, GoodNumbers
  <2>2. CASE k \notin Problems(e)
    <3>1. raw(e2, k) = raw(e, k) /\ Readable(e, k, ParseBool, BOOLEAN)
      BY <1>1, <2>2, MendedReads, Reports
    <3> QED BY <3>1, ReadAlike
  <2> QED BY <2>1, <2>2
<1>6. c.env = "production" => ~IsZero(c.whatsApp)
  <2>1. CASE "WHATSAPP" \in Problems(e)
    <3>1. raw(e2, "WHATSAPP") = "set"
      BY <1>1, <2>1, MendedReads, GoodIs
    <3>2. c.whatsApp = str(e2, "WHATSAPP", "blank")
      BY ConfigFields
    <3>3. str(e2, "WHATSAPP", "blank") = "set"
      BY <3>1 DEF str
    <3> QED BY <3>2, <3>3 DEF IsZero
  <2>2. CASE "WHATSAPP" \notin Problems(e)
    <3>1. raw(e2, "WHATSAPP") = raw(e, "WHATSAPP")
      BY <1>1, <2>2, MendedReads
    <3>2. c.whatsApp = str(e2, "WHATSAPP", "blank") /\ Config(e).whatsApp = str(e, "WHATSAPP", "blank")
      BY ConfigFields
    <3>3. str(e2, "WHATSAPP", "blank") = str(e, "WHATSAPP", "blank")
      BY <3>1, ReadAlike
    <3> QED BY <1>3, <2>2, <3>2, <3>3, Rules
  <2> QED BY <2>1, <2>2
<1>7. c.env = "production" => "*" \notin c.origins
  <2> DEFINE k == "CORS_ALLOWED_ORIGINS"
  <2>1. c.origins = List(e2, k, {"localhost"}) /\ Config(e).origins = List(e, k, {"localhost"})
    BY ConfigFields
  <2>2. CASE k \in Problems(e)
    <3>1. raw(e2, k) = "app"
      BY <1>1, <2>2, MendedReads, GoodIs
    <3>2. Split["app"] = {"app"}
      BY DEF Split
    <3>3. List(e2, k, {"localhost"}) = {"app"}
      BY <3>1, <3>2 DEF List
    <3> QED BY <2>1, <3>3
  <2>3. CASE k \notin Problems(e)
    <3>1. raw(e2, k) = raw(e, k)
      BY <1>1, <2>3, MendedReads
    <3>2. c.origins = Config(e).origins
      BY <2>1, <3>1 DEF List
    <3> QED BY <1>3, <2>3, <3>2, Rules
  <2> QED BY <2>2, <2>3
<1>8. /\ Readable(e2, "DATABASE_MAX_CONNS", Atoi, 1..1000)
      /\ Readable(e2, "DATABASE_MIN_CONNS", Atoi, 0..1000)
      /\ ~(c.minConns > c.maxConns)
  BY ConnsMended
<1>9. /\ Readable(e2, "JWT_ACCESS_TTL", ParseDuration, Positive)
      /\ Readable(e2, "JWT_REFRESH_TTL", ParseDuration, Positive)
      /\ ~(c.accessTTL >= c.refreshTTL)
  BY TTLsMended
<1>10. /\ IsZero(c.access) \/ ~(Bytes[c.access] < 32)
       /\ IsZero(c.refresh) \/ ~(Bytes[c.refresh] < 32)
       /\ IsZero(c.access) \/ c.access # c.refresh
       /\ c.env = "production" => ~IsZero(c.access) /\ ~IsZero(c.refresh)
  BY <1>3, SecretsMended
<1> QED BY <1>2, <1>4, <1>5, <1>6, <1>7, <1>8, <1>9, <1>10, Clean

-----------------------------------------------------------------------------
(* Every step keeps the invariant.                                         *)

\* A deployment that has not started yet.
LEMMA InitInv == Init => IInv
<1> SUFFICES ASSUME Init PROVE IInv
  OBVIOUS
<1>1. PICK d \in Deployment : real = d.real /\ file = d.file
  BY DEF Init
<1>2. Original(parseDotEnv(file))
  BY <1>1, FileSecrets
<1>3. Original(real)
  BY <1>1, DeploymentAssumption DEF Original
<1>4. Sized(real)
  BY <1>3 DEF Original, Sized, Secrets
<1> QED BY <1>2, <1>3, <1>4 DEF Init, IInv, InputsInv, StartInv, RepairInv, Configured

\* Nothing but a restart changes what the process is started with.
LEMMA RunInv ==
  IInv /\ (LoadDotEnv \/ Load \/ Connect \/ MigrateSchema \/ NewAccessTokenIssuer \/ Listen \/ Stop)
    => IInv'
<1> SUFFICES ASSUME IInv,
                    LoadDotEnv \/ Load \/ Connect \/ MigrateSchema \/ NewAccessTokenIssuer
                      \/ Listen \/ Stop
             PROVE  IInv'
  OBVIOUS
<1>1. UNCHANGED <<real, file, repaired>>
  BY DEF LoadDotEnv, Load, Connect, MigrateSchema, NewAccessTokenIssuer, Listen, Stop
<1>2. InputsInv'
  BY <1>1 DEF IInv, InputsInv, Original, Sized
<1>3. Setting(real, file)' = Setting(real, file)
  BY <1>1 DEF Setting
<1>4. CASE LoadDotEnv
  <2>1. CASE Exit
    BY <1>1, <1>2, <1>3, <1>4, <2>1 DEF Exit, LoadDotEnv, IInv, StartInv, RepairInv, Configured
  <2>2. CASE ~Malformed(file)
    <3>1. at' = "load" /\ setting' = Setting(real, file) /\ report' = report
      BY <1>4, <2>2 DEF LoadDotEnv, Setting
    <3>2. report = {}
      BY <1>4 DEF LoadDotEnv, IInv, RepairInv
    <3> QED BY <1>1, <1>2, <1>3, <3>1, <3>2 DEF IInv, StartInv, RepairInv, Configured
  <2> QED BY <1>4, <2>1, <2>2 DEF LoadDotEnv
<1>5. CASE Load
  <2>1. setting = Setting(real, file) /\ setting' = setting /\ report' = Problems(setting)
    BY <1>5 DEF Load, IInv, StartInv
  <2>2. CASE report' = {}
    <3>1. at' = "connect" /\ cfg' = Config(setting)
      BY <1>5, <2>2 DEF Load
    <3> QED BY <1>1, <1>2, <1>3, <2>1, <2>2, <3>1 DEF IInv, StartInv, RepairInv, Configured
  <2>3. CASE report' # {}
    <3>1. at' = "exited"
      BY <1>5, <2>3 DEF Load
    <3> QED BY <1>1, <1>2, <1>3, <2>1, <3>1 DEF IInv, StartInv, RepairInv, Configured
  <2> QED BY <2>2, <2>3
<1>6. CASE Connect \/ MigrateSchema \/ NewAccessTokenIssuer \/ Listen \/ Stop
  <2>1. at \in Configured /\ UNCHANGED <<setting, cfg, report>>
    BY <1>6 DEF Connect, MigrateSchema, NewAccessTokenIssuer, Listen, Stop, Exit, Configured
  <2>2. report = {}
    BY <2>1 DEF IInv, RepairInv, Configured
  <2>3. RepairInv'
    BY <1>1, <1>3, <2>1, <2>2 DEF IInv, RepairInv
  <2>4. setting' = Setting(real, file)' /\ Problems(setting') = {} /\ cfg' = Config(setting')
    BY <1>3, <2>1 DEF IInv, StartInv
  <2>5. at' \in {"issuer", "listen", "serving"} => (cfg'.autoMigrate => schema' = "new")
    BY <1>6, <2>1 DEF Connect, MigrateSchema, NewAccessTokenIssuer, Listen, Stop, Exit, IInv, StartInv
  <2>6. at' \in {"listen", "serving"} => Bytes[cfg'.access] >= 32
    <3>1. CASE NewAccessTokenIssuer /\ at' = "listen"
      <4>1. ~(Bytes[cfg.access] < 32)
        BY <3>1 DEF NewAccessTokenIssuer, Exit
      <4>2. cfg.access \in DOMAIN Bytes
        BY <2>1, SettingSized, ConfigSized DEF IInv, InputsInv, StartInv
      <4> QED BY <2>1, <4>1, <4>2, BytesIs
    <3>2. CASE Connect \/ MigrateSchema \/ Listen \/ Stop
      BY <2>1, <3>2 DEF Connect, MigrateSchema, Listen, Stop, Exit, IInv, StartInv
    <3> QED BY <1>6, <3>1, <3>2 DEF NewAccessTokenIssuer, Exit
  <2> QED BY <1>2, <2>3, <2>4, <2>5, <2>6 DEF IInv, StartInv
<1> QED BY <1>4, <1>5, <1>6

\* The operator's repair.
LEMMA RestartInv == IInv /\ Restart => IInv'
<1> SUFFICES ASSUME IInv, Restart PROVE IInv'
  OBVIOUS
<1> DEFINE e == Setting(real, file)
           e2 == Setting(real', file)
<1>1. /\ file' = file /\ at' = "dotenv" /\ report' = {}
      /\ repaired' = repaired \union report
      /\ \A k \in Key : real'[k] = IF k \in report THEN Good[k] ELSE real[k]
  BY DEF Restart
<1>2. Setting(real, file)' = e2
  BY <1>1 DEF Setting
<1>3. Sized(real')
  <2>1. SecretKeys \subseteq Key /\ \A k \in SecretKeys : Good[k] \in DOMAIN Bytes
    BY DEF SecretKeys, Key, Good, Bytes
  <2> QED BY <1>1, <2>1 DEF IInv, InputsInv, Sized
<1>4. repaired' = {} => Original(real')
  <2>1. SecretKeys \subseteq Key
    BY DEF SecretKeys, Key
  <2> QED BY <1>1, <2>1 DEF IInv, InputsInv, Original
<1>5. InputsInv'
  BY <1>1, <1>3, <1>4 DEF IInv, InputsInv, Original, Sized
<1>6. repaired' # {} /\ "APP_ENV" \notin repaired' => Problems(e2) = {}
  <2> SUFFICES ASSUME repaired' # {}, "APP_ENV" \notin repaired' PROVE Problems(e2) = {}
    OBVIOUS
  <2>1. CASE report = {}
    <3>1. e2 = e
      BY <1>1, <2>1 DEF Setting
    <3> QED BY <1>1, <2>1, <3>1 DEF IInv, RepairInv
  <2>2. CASE report # {}
    <3>1. report = Problems(e) /\ repaired = {} /\ "APP_ENV" \notin Problems(e)
      BY <1>1, <2>2 DEF IInv, RepairInv
    <3>2. Mended(e, e2)
      <4> SUFFICES ASSUME NEW k \in Key PROVE e2[k] = IF k \in Problems(e) THEN Good[k] ELSE e[k]
        BY DEF Mended
      <4>1. Good[k] # Unset
        BY DeploymentAssumption
      <4> QED BY <1>1, <3>1, <4>1 DEF Setting
    <3>3. Original(e)
      <4>1. SecretKeys \subseteq Key
        BY DEF SecretKeys, Key
      <4> QED BY <3>1, <4>1 DEF IInv, InputsInv, Original, Setting
    <3> QED BY <3>1, <3>2, <3>3, RepairIsEnough
  <2> QED BY <2>1, <2>2
<1>7. RepairInv'
  BY <1>1, <1>2, <1>6 DEF RepairInv
<1>8. StartInv'
  BY <1>1 DEF StartInv, Configured
<1> QED BY <1>5, <1>7, <1>8 DEF IInv

\* Nothing happens to the invariant when nothing happens.
LEMMA StutterInv == IInv /\ UNCHANGED vars => IInv'
BY DEF vars, IInv, InputsInv, StartInv, RepairInv, Original, Sized, Setting, Configured

-----------------------------------------------------------------------------
(* The theorems.                                                           *)

\* What is known of the inputs, of the start so far and of the last report holds
\* in every reachable state.
THEOREM Invariance == Spec => []IInv
<1>1. Init => IInv
  BY InitInv
<1>2. IInv /\ [Next]_vars => IInv'
  BY RunInv, RestartInv, StutterInv DEF Next
<1> QED BY <1>1, <1>2, PTL DEF Spec

\* No deployment whatever serves with a configuration that breaks a rule.
THEOREM RunsSoundlyHolds == Spec => []RunsSoundly
<1> QED BY Invariance, ServesSoundly, PTL

\* No deployment whatever has to be repaired twice, APP_ENV excepted.
THEOREM OneRepairSufficesHolds == Spec => []OneRepairSuffices
<1>1. IInv => OneRepairSuffices
  BY DEF IInv, RepairInv, OneRepairSuffices
<1> QED BY <1>1, Invariance, PTL
=============================================================================
