------------------------------ MODULE MCProcess ------------------------------
(* Two servers and a migration job, in good and bad environments.             *)
EXTENDS Process, TLC

Dev == [v \in EnvVars |->
          IF v \in Required THEN "text" ELSE
          IF v = "AUTH_JWT_SECRET" THEN 31 ELSE
          IF v = "PAYMENT_FAKE_WEBHOOK_SECRET" THEN 32 ELSE Unset]

Production ==
    [Dev EXCEPT !["ENV"] = "production", !["AUTH_JWT_SECRET"] = 32,
                !["POSTGRES_SSLMODE"] = "verify-full", !["MAX_ACTIVE_HOLDS"] = 100,
                !["REDIS_HOLD_TTL"] = 1, !["LOG_LEVEL"] = "warn"]

Stripe ==
    [Dev EXCEPT !["PAYMENT_PROVIDER"] = "stripe", !["PAYMENT_FAKE_WEBHOOK_SECRET"] = Unset,
                !["PAYMENT_STRIPE_SECRET_KEY"] = 32, !["PAYMENT_STRIPE_WEBHOOK_SECRET"] = 32,
                !["OTEL_ENABLED"] = "false", !["OTEL_EXPORTER_OTLP_ENDPOINT"] = Garbage]

\* A good environment with one variable spoilt, by the name of the variable.
Spoilt ==
    [v \in EnvVars \ {"PAYMENT_STRIPE_SECRET_KEY", "PAYMENT_STRIPE_WEBHOOK_SECRET"} |->
        CASE v \in Durations \union {"POSTGRES_PORT"} -> [Production EXCEPT ![v] = 0]
          [] v \in {"REDIS_DB", "MAX_ACTIVE_HOLDS"} -> [Dev EXCEPT ![v] = 101]
          [] v \in Shaped \union DOMAIN Words -> [Dev EXCEPT ![v] = Garbage]
          [] OTHER -> [Dev EXCEPT ![v] = Unset]]

MCEnvironments ==
    "dev" :> Dev @@ "prod" :> Production @@ "stripe" :> Stripe @@ Spoilt
    @@ "short secret" :> [Production EXCEPT !["AUTH_JWT_SECRET"] = 31]
    @@ "no hold limit" :> [Dev EXCEPT !["MAX_ACTIVE_HOLDS"] = 0]
    @@ "not a duration" :> [Dev EXCEPT !["REDIS_HOLD_TTL"] = Garbage]
    @@ "stripe without key" :> [Stripe EXCEPT !["PAYMENT_STRIPE_SECRET_KEY"] = Unset]
    @@ "stripe without webhook" :>
          [Stripe EXCEPT !["PAYMENT_STRIPE_WEBHOOK_SECRET"] = Unset]

=============================================================================
