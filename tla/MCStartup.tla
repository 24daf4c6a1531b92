----------------------------- MODULE MCStartup -----------------------------
(***************************************************************************)
(* Deployments that differ from a working one in a variable or two, or in  *)
(* one that .env sets.                                                     *)
(***************************************************************************)
EXTENDS Startup

\* The words each variable may have.
Words ==
  [APP_ENV |-> {"development", "staging", "production", "prod"},
   CORS_ALLOWED_ORIGINS |-> {"app", "star", "both", "commas"},
   DATABASE_URL |-> {"postgres", "mysql"},
   DATABASE_MAX_CONNS |-> {"zero", "five", "twenty", "thousands", "many"},
   DATABASE_MIN_CONNS |-> {"zero", "five", "twenty", "thousands", "many"},
   DATABASE_AUTO_MIGRATE |-> {"true", "false", "maybe"},
   JWT_ACCESS_SECRET |-> {"weak", "secret", "another"},
   JWT_REFRESH_SECRET |-> {"weak", "secret", "another"},
   JWT_ACCESS_TTL |-> {"nothing", "minutes5", "days60", "soon"},
   JWT_REFRESH_TTL |-> {"nothing", "minutes5", "days60", "soon"},
   WHATSAPP |-> {"set"}]

\* A production, and a developer's machine that sets as little as it can.
Production ==
  [k \in Key |->
     CASE k = "APP_ENV" -> "production" [] k = "DATABASE_URL" -> "postgres"
       [] k = "CORS_ALLOWED_ORIGINS" -> "app" [] k = "JWT_ACCESS_SECRET" -> "secret"
       [] k = "JWT_REFRESH_SECRET" -> "another" [] k = "WHATSAPP" -> "set"
       [] OTHER -> Unset]

Local == [k \in Key |-> IF k = "DATABASE_URL" THEN "postgres" ELSE Unset]

\* These and those that differ from them in one variable.
Edited(envs) ==
  envs \union UNION {{[e EXCEPT ![k] = v] : e \in envs, v \in Words[k] \union {"", Unset}} : k \in Key}

Files ==
  {<<<<"junk">>>>, <<<<"APP_ENV", "development">>, <<"APP_ENV", "production">>>>}
    \union UNION {{<<<<k, v>>>> : v \in Words[k] \union {""}} : k \in Key}

MCDeployment ==
  [real : Edited(Edited({Production, Local})), file : {<<>>}] \union [real : Edited({Production, Local}), file : Files]
=============================================================================
