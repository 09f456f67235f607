---------------------------- MODULE Configuration ----------------------------
(***************************************************************************)
(* internal/config/config.go: settings are read from .env and overridden by   *)
(* the environment, given their defaults, trimmed, and validated before       *)
(* anything is opened.  A value is known by what can become of it: not set,   *)
(* empty, only spaces, good, good between spaces, or anything else.            *)
(***************************************************************************)

Values == {"unset", "empty", "blank", "good", "padded", "bad"}

\* "database" is the host, name and user; "senders" are the two of Resend.
Settings ==
    {"environment", "http_port", "database", "database_port", "password", "ssl_mode",
     "redis_url", "base_url", "client_base_url", "trusted_origins", "trusted_proxies",
     "otp_hmac_secret", "google_client_id", "google_client_secret", "api_key", "senders"}

Defaulted == {"environment", "http_port", "database_port", "ssl_mode"}
Trimmed ==
    {"database", "ssl_mode", "trusted_origins", "trusted_proxies", "otp_hmac_secret",
     "google_client_id", "google_client_secret"}

TrimSpace(v) == CASE v = "padded" -> "good" [] v = "blank" -> "empty" [] OTHER -> v

\* What Load makes of the two layers, before it validates them.
Load(file, env) ==
    [s \in Settings |->
        LET v == IF env[s] # "unset" THEN env[s] ELSE file[s] IN
        CASE v = "unset" -> IF s \in Defaulted THEN "good" ELSE "empty"
          [] v # "unset" -> IF s \in Trimmed THEN TrimSpace(v) ELSE v]

\* Ports must be integers in range without spaces around them.  A Redis URL may
\* be of any scheme here, a proxy and an origin may be anything, and a password of
\* spaces is one.  The two URLs are judged without the spaces that Load has kept.
Validate(cfg) ==
    /\ \A s \in Defaulted \cup {"otp_hmac_secret"} : cfg[s] = "good"
    /\ \A s \in {"base_url", "client_base_url", "senders"} : TrimSpace(cfg[s]) = "good"
    /\ \A s \in {"database", "password"} : cfg[s] # "empty"
    /\ cfg["redis_url"] \in {"good", "bad"}
    /\ TrimSpace(cfg["api_key"]) # "empty"
    /\ cfg["google_client_id"] = "empty" <=> cfg["google_client_secret"] = "empty"

\* What the later steps of startup find out: the pool is pinged, Redis' URL
\* parsed, and the router told of its proxies.
Refuted(step, cfg) ==
    \/ step = "database" /\ cfg["database"] = "bad"
    \/ step = "redis" /\ cfg["redis_url"] = "bad"
    \/ step = "wiring" /\ cfg["trusted_proxies"] = "bad"
=============================================================================
