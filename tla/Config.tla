------------------------------- MODULE Config -------------------------------
(***************************************************************************)
(* Loading the configuration (pkg/config/config.go): the file, what the    *)
(* environment overrides in it, and Validate.                              *)
(*                                                                         *)
(* A configuration is a function from the paths of its fields.  Of a text  *)
(* it matters whether it is Absent, Blank (white space only), "short" for  *)
(* what it is, or of the form that is asked for.  An environment is a      *)
(* function from the fields it overrides to raw values; Bad is one that    *)
(* does not parse as an integer, boolean or duration.                      *)
(***************************************************************************)
EXTENDS Integers

CONSTANTS Absent, Blank, Bad

\* Integers and durations that must be positive, whatever else is set.
PositiveFields ==
  {"server.max_conns", "server.timeout", "server.max_recv_message_mb",
   "server.max_send_message_mb", "server.max_users", "server.max_stream_messages",
   "server.max_string_bytes", "server.stream_interval", "server.rate_limit_per_second",
   "server.rate_limit_burst", "server.per_client_rate_limit_per_second",
   "server.per_client_rate_limit_burst", "storage.max_open_conns",
   "storage.conn_max_lifetime", "storage.ping_timeout", "storage.retry_backoff",
   "storage.retry_max_backoff"}

BreakerFields ==
  {"storage.circuit_breaker.failure_threshold", "storage.circuit_breaker.success_threshold",
   "storage.circuit_breaker.open_timeout", "storage.circuit_breaker.max_half_open_requests"}

Given(text) == text \notin {Absent, Blank}
validPort(port) == port >= 1 /\ port <= 65535
isLogLevel(level) == level \in {"trace", "debug", "info", "warn", "error", "fatal", "panic"}

ValidTLS(c) ==
  /\ c["tls.enabled"] => Given(c["tls.cert_file"]) /\ Given(c["tls.key_file"])
  /\ c["tls.mtls.enabled"] => c["tls.enabled"] /\ Given(c["tls.mtls.client_ca_file"])

\* A blank secret or API key may be long enough to pass.
ValidAuth(c) ==
  LET pub == c["auth.jwt_public_key"] IN
  /\ Given(c["auth.jwt_secret"]) \/ c["auth.api_keys"] # {} \/ pub # Absent
  /\ c["auth.jwt_secret"] # "short"
  /\ pub # Absent => pub.pem
  /\ "short" \notin c["auth.api_keys"]

ValidTracing(c) ==
  c["tracing.enabled"] => c["tracing.service_name"] # Absent /\ c["tracing.endpoint"] = "url"

\* server.port is compared with no other.
ValidPorts(c) ==
  /\ validPort(c["server.port"]) /\ validPort(c["health.port"])
  /\ c["metrics.enabled"] => validPort(c["metrics.port"]) /\ c["metrics.port"] # c["health.port"]
  /\ c["gateway.enabled"] =>
       /\ validPort(c["gateway.port"]) /\ c["gateway.port"] # c["health.port"]
       /\ c["metrics.enabled"] => c["gateway.port"] # c["metrics.port"]

ValidStorage(c) ==
  /\ c["storage.backend"] \in {"memory", "postgres"}
  /\ c["storage.max_idle_conns"] >= 0 /\ c["storage.max_idle_conns"] <= c["storage.max_open_conns"]
  /\ c["storage.retry_attempts"] >= 0
  /\ c["storage.circuit_breaker.enabled"] => \A f \in BreakerFields : c[f] >= 1
  /\ c["storage.cache.enabled"] => c["storage.cache.ttl"] >= 1
  /\ c["storage.backend"] = "postgres" => Given(c["storage.url"])

Validate(c) ==
  /\ Given(c["server.host"]) /\ c["client.address"] # Absent
  /\ \A f \in PositiveFields : c[f] >= 1
  /\ ValidTLS(c) /\ ValidAuth(c) /\ ValidTracing(c) /\ ValidPorts(c) /\ ValidStorage(c)
  /\ isLogLevel(c["logging.level"]) /\ c["logging.format"] \in {"json", "console"}

\* An environment variable holds a list of keys or scopes.
splitNonEmpty(parts) == parts \ {Absent, Blank}

\* Of all the values that do not parse the first is reported, and none is used.
applyEnvironment(c, env) ==
  IF \E f \in DOMAIN env : env[f] = Bad THEN Bad
  ELSE [f \in DOMAIN c |->
          IF f \notin DOMAIN env THEN c[f]
          ELSE IF f \in {"auth.api_keys", "auth.api_key_scopes"} THEN splitNonEmpty(env[f])
          ELSE env[f]]

LoadUnvalidated(file, env) == IF file = Bad THEN Bad ELSE applyEnvironment(file, env)

\* The configuration, or Bad.  A file is Bad if it cannot be read or parsed.
Load(file, env) ==
  LET c == IF file = Bad THEN Bad ELSE applyEnvironment(file, env)
  IN  IF c = Bad THEN Bad ELSE IF Validate(c) THEN c ELSE Bad
=============================================================================
