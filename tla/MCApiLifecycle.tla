--------------------------- MODULE MCApiLifecycle ---------------------------
(* Instances of ApiLifecycle for TLC. *)
EXTENDS ApiLifecycle, TLC

Unset == [ENVIRONMENT |-> "", ENABLE_TRACING |-> "", REDIS_ADDR |-> "", REDIS_ADDR_PARAM_KEY |-> "",
          KAFKA_BROKERS |-> "", PORT |-> "", redisProvisioned |-> TRUE]

\* Deployed; deployed without OTLP and with the address in the environment;
\* deployed before Redis was provisioned; local with and without brokers.
MCEnvironments ==
    {Unset,
     [Unset EXCEPT !.ENABLE_TRACING = "false", !.REDIS_ADDR = "redis:6379", !.PORT = "9090"],
     [Unset EXCEPT !.ENABLE_TRACING = "?", !.redisProvisioned = FALSE],
     [Unset EXCEPT !.ENVIRONMENT = "local", !.KAFKA_BROKERS = "b1,b2"],
     [Unset EXCEPT !.ENVIRONMENT = "local", !.KAFKA_BROKERS = ","]}

MCRoutes == {"provision", "signin", "metrics", "swagger"}

Symmetry == Permutations(Requests)
=============================================================================
