-------------------------------- MODULE Config --------------------------------
(***************************************************************************)
(* config.Load of internal/platform/config/config.go: the environment of a *)
(* process is parsed once, at boot, and every problem is reported.  A raw  *)
(* environment gives each variable a value: a word, a number (durations in *)
(* seconds), Unset for an absent or empty one, Garbage for one that does   *)
(* not parse or has the wrong shape.  A secret is known by its length.     *)
(***************************************************************************)
EXTENDS Integers

CONSTANTS Unset, Garbage

Durations == {"HTTP_READ_TIMEOUT", "HTTP_WRITE_TIMEOUT", "HTTP_SHUTDOWN_TIMEOUT",
              "REDIS_HOLD_TTL", "AUTH_ACCESS_TOKEN_TTL", "AUTH_REFRESH_TOKEN_TTL"}

\* What intInRange allows.
Ranges == [REDIS_DB |-> 0..15, MAX_ACTIVE_HOLDS |-> 1..100, POSTGRES_PORT |-> 1..65535]

\* The vocabularies of the switch statements, of boolVar and of logLevel.
Words == [ENV |-> {"development", "production", "test"},
          POSTGRES_SSLMODE |-> {"disable", "require", "verify-ca", "verify-full"},
          PAYMENT_PROVIDER |-> {"fake", "stripe"},
          LOG_LEVEL |-> {"debug", "info", "warn", "error"},
          OTEL_ENABLED |-> {"true", "false"},
          OTEL_EXPORTER_OTLP_ENDPOINT |-> {"url"}]

\* Free text that has to be there; the shape of two is checked as well.
Required == {"HTTP_ADDR", "REDIS_ADDR", "RABBITMQ_URL",
             "POSTGRES_HOST", "POSTGRES_USER", "POSTGRES_PASSWORD", "POSTGRES_DB"}
Shaped   == {"HTTP_ADDR", "RABBITMQ_URL"}

Secrets == {"AUTH_JWT_SECRET", "PAYMENT_FAKE_WEBHOOK_SECRET",
            "PAYMENT_STRIPE_SECRET_KEY", "PAYMENT_STRIPE_WEBHOOK_SECRET"}

EnvVars == Durations \union Required \union Secrets
           \union DOMAIN Ranges \union DOMAIN Words

Default ==
    [ENV |-> "development", POSTGRES_SSLMODE |-> "disable", PAYMENT_PROVIDER |-> "fake",
     LOG_LEVEL |-> "info", OTEL_ENABLED |-> "true", OTEL_EXPORTER_OTLP_ENDPOINT |-> "url",
     HTTP_READ_TIMEOUT |-> 5, HTTP_WRITE_TIMEOUT |-> 10, HTTP_SHUTDOWN_TIMEOUT |-> 15,
     REDIS_HOLD_TTL |-> 300, AUTH_ACCESS_TOKEN_TTL |-> 900,
     AUTH_REFRESH_TOKEN_TTL |-> 2592000,
     REDIS_DB |-> 0, MAX_ACTIVE_HOLDS |-> 4, POSTGRES_PORT |-> 5432]

\* withDefault, and the first lines of duration, intInRange and boolVar.
ValueOf(env, v) ==
    IF env[v] = Unset /\ v \in DOMAIN Default THEN Default[v] ELSE env[v]

\* Mutant: zero passes for a duration.
DurationOrZero(x) == x # Garbage /\ x >= 0

DurationOK(x) == x # Garbage /\ x > 0

\* The secrets this environment needs, with their least lengths.
SecretOK(env, v) ==
    CASE v = "AUTH_JWT_SECRET" ->
            env[v] # Unset /\ (ValueOf(env, "ENV") = "production" => env[v] >= 32)
      [] v = "PAYMENT_FAKE_WEBHOOK_SECRET" ->
            ValueOf(env, "PAYMENT_PROVIDER") = "fake" => env[v] # Unset
      [] OTHER ->
            ValueOf(env, "PAYMENT_PROVIDER") = "stripe" => env[v] # Unset

Acceptable(env, v) ==
    LET x == ValueOf(env, v)
    IN  CASE v \in Durations -> DurationOK(x)
          [] v \in DOMAIN Ranges -> x # Garbage /\ x \in Ranges[v]
          [] v = "OTEL_EXPORTER_OTLP_ENDPOINT" ->
                ValueOf(env, "OTEL_ENABLED") = "false" \/ x # Garbage
          [] v \in DOMAIN Words \ {"OTEL_EXPORTER_OTLP_ENDPOINT"} -> x \in Words[v]
          [] v \in Shaped -> x \notin {Unset, Garbage}
          [] v \in Required \ Shaped -> x # Unset
          [] OTHER -> SecretOK(env, v)

\* The joined error: every variable that is wrong, not the first one only.
Problems(env) == {v \in EnvVars : ~Acceptable(env, v)}

Load(env) == [v \in EnvVars |-> ValueOf(env, v)]

=============================================================================
