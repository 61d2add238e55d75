------------------------- MODULE MCServerLifecycle -------------------------
(***************************************************************************)
(* ServerLifecycle with a plain configuration, one with everything that    *)
(* may fail to start, and some that differ from the plain one in a field.  *)
(***************************************************************************)
EXTENDS ServerLifecycle, TLC

Plain ==
  [f \in PositiveFields \cup BreakerFields |-> 1] @@
  [f \in {"tls.enabled", "tls.mtls.enabled", "tracing.enabled", "gateway.enabled",
          "metrics.enabled", "storage.circuit_breaker.enabled", "storage.cache.enabled"} |-> FALSE] @@
  [f \in {"tls.cert_file", "tls.key_file", "tls.mtls.client_ca_file", "tracing.service_name",
          "tracing.endpoint", "storage.url", "auth.jwt_public_key"} |-> Absent] @@
  [f \in {"storage.max_idle_conns", "storage.retry_attempts", "storage.cache.ttl"} |-> 0] @@
  ("server.host" :> "host") @@ ("client.address" :> "host") @@
  ("server.port" :> 1) @@ ("health.port" :> 2) @@ ("metrics.port" :> 3) @@ ("gateway.port" :> 4) @@
  ("auth.jwt_secret" :> "secret") @@ ("auth.api_keys" :> {Blank}) @@
  ("logging.level" :> "info") @@ ("logging.format" :> "json") @@ ("storage.backend" :> "memory")

With(c, changes) == [f \in DOMAIN c |-> IF f \in DOMAIN changes THEN changes[f] ELSE c[f]]

Full ==
  With(Plain,
    [f \in {"tls.enabled", "tracing.enabled", "metrics.enabled", "gateway.enabled",
            "storage.circuit_breaker.enabled"} |-> TRUE] @@
    [f \in {"tls.cert_file", "tls.key_file", "tracing.service_name", "storage.url"} |-> "text"] @@
    ("tracing.endpoint" :> "url") @@ ("storage.backend" :> "postgres"))

PublicKey(pem, kind) == [pem |-> pem, kind |-> kind, strong |-> FALSE, key |-> "public"]

\* With the environment as it is; all but Plain, Full and the first are refused.
Unset == [f \in {} |-> 0]
MCStarts ==
  {[file |-> f, env |-> Unset] : f \in
    {With(Full, "server.port" :> 4), Plain, Bad,
     With(Full, "gateway.port" :> 2), With(Full, "gateway.port" :> 3), With(Full, "metrics.port" :> 2),
     With(Plain, "auth.jwt_secret" :> "short"), With(Plain, "auth.api_keys" :> {"short"}),
     With(Plain, "auth.jwt_public_key" :> PublicKey(FALSE, "RSA")),
     With(Plain, "auth.jwt_public_key" :> PublicKey(TRUE, "RSA")),
     With(Plain, "tls.mtls.enabled" :> TRUE), With(Plain, "tls.enabled" :> TRUE),
     With(Full, "storage.url" :> Blank), With(Plain, "server.timeout" :> 0),
     With(Full, "storage.circuit_breaker.failure_threshold" :> 0)}}
  \cup {[file |-> Full, env |-> "logging.level" :> "warn"]}
  \cup {[file |-> Plain, env |-> e] : e \in
    {"server.port" :> Bad,
     ("auth.api_keys" :> {"key", "short", Blank}) @@ ("logging.level" :> "warn")}}

MCEdits ==
  {Bad, With(Plain, "logging.level" :> "debug"), With(Plain, "logging.level" :> "loud"),
   With(Plain, ("logging.level" :> "trace") @@ ("server.timeout" :> 0))}

MCMaxCalls == [grpc |-> 1, health |-> 0, metrics |-> 0, gateway |-> 1]
=============================================================================
