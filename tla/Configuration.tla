--------------------------- MODULE Configuration ---------------------------
(* The rules on a process's settings: the audit that refuses to import them  *)
(* (core/config_audit.py) and the system checks of manage.py                 *)
(* (core/checks.py).  A setting is abstracted to what the rules tell apart.  *)
EXTENDS Naturals, Sequences, FiniteSets, Functions, TLC

CONSTANTS
    Weak,        \* the secrets weak_reason() finds fault with
    FernetKeys,  \* the strings that are Fernet keys
    Empty,       \* the empty string
    Unset        \* a variable that is not set; no period, no expiry

NonProduction == {"development", "local", "test", "ci"}

(* is_production_like(): only the listed names are not production.           *)
ProductionLike(c) == c.appEnv \notin NonProduction

(* FIELD_ENCRYPTION_KEYS without blanks: what audit and check both start from. *)
Keyring(c) == SelectSeq(c.keys, LAMBDA k : k # Empty)

-----------------------------------------------------------------------------
(* config/settings.py: what the settings module makes of an environment e     *)

IdentitySettings(e) == [appEnv |-> e.appEnv, shippedName |-> e.name = Empty,
                        secretKey |-> e.secretKey, debug |-> e.debug, hosts |-> e.hosts]

(* Without DATABASE_URL and CACHE_URL: a file, and the process's memory.     *)
StoreSettings(e) == [database |-> IF e.database = Unset THEN "sqlite" ELSE e.database,
                     cache    |-> IF e.cache = Unset THEN "locmem" ELSE e.cache]

CelerySettings(e) == [broker |-> IF e.broker = Unset THEN "memory" ELSE e.broker,
                      results |-> e.results, serializers |-> {"json"}, acksLate |-> FALSE,
                      timeLimit |-> 1800, visibility |-> e.visibility, eager |-> FALSE]

CorsSettings(e) == [credentials |-> TRUE, anyOrigin |-> FALSE, origins |-> e.origins]

(* The Django admin follows DEBUG, the Secure flag the kind of environment.  *)
DeploymentSettings(e) ==
    [proxies |-> e.proxies, admin |-> IF e.admin = Unset THEN e.debug ELSE e.admin,
     email |-> e.email, emailHost |-> e.emailHost, frontend |-> e.frontend]
TokenSettings(e) ==
    [jwtKey |-> e.jwtKey, fallbacks |-> e.fallbacks, keys |-> e.keys,
     secureCookies |-> IF e.secureCookies = Unset THEN ProductionLike(e) ELSE e.secureCookies]

Backends == {[path |-> "rbac", contributes |-> TRUE], [path |-> "credentials", contributes |-> FALSE]}
ApiSettings == [defaultPermissions |-> <<"DefaultDeny">>, throttled |-> TRUE]

LogSettings(e) ==
    [logFormat |-> IF e.logFormat # Empty THEN e.logFormat
                   ELSE IF ProductionLike(e) THEN "json" ELSE "console"]

(* One record of the fields of all of them, no two of which share a field.   *)
Joined(records) ==
    [x \in UNION {DOMAIN r : r \in records} |-> (CHOOSE r \in records : x \in DOMAIN r)[x]]

(* SECURE_HSTS_SECONDS and SECURE_PROXY_SSL_HEADER are Django's defaults.    *)
Settings(e) ==
    Joined({IdentitySettings(e), StoreSettings(e), CelerySettings(e), CorsSettings(e),
            DeploymentSettings(e), TokenSettings(e), ApiSettings, LogSettings(e),
            [backends |-> Backends, hsts |-> 0, proxyHeader |-> FALSE]})

-----------------------------------------------------------------------------
(* config_audit: one operator per rule, true when it finds a problem          *)

AppEnv(c)  == c.appEnv = Empty
Debug(c)   == c.debug
Secrets(c) == c.secretKey \in Weak \/ c.jwtKey \in Weak \/ Range(c.fallbacks) \cap Weak # {}

(* Two secrets of different jobs, or one job twice, with one value.          *)
SharedSecrets(c) ==
    LET named   == <<c.secretKey, c.jwtKey>> \o c.keys \o c.fallbacks
        present == SelectSeq(named, LAMBDA v : v # Empty)
    IN  Cardinality(Range(present)) < Len(present)

AllowedHosts(c) == c.hosts = {} \/ "*" \in c.hosts

BadOrigin(o) == o \in {"wildcard", "http", "loopback"}
Origins(c)   == /\ c.credentials
                /\ c.anyOrigin \/ \E o \in c.origins : BadOrigin(o)

Cookies(c)     == ~c.secureCookies
Email(c)       == c.email = "log" \/ (c.email = "smtp" /\ ~c.emailHost)
Cache(c)       == c.cache \in {"locmem", "dummy", "none"}
Database(c)    == c.database \in {"sqlite", "none"}
FrontendUrl(c) == c.frontend # "https" \* "http", or a loopback host, or none
Throttling(c)  == ~c.throttled

\* Mutant: a key that is no Fernet key goes unseen.
MutEncryptionKeys(c) ==
    \/ Keyring(c) = <<>> /\ ProductionLike(c)
    \/ {c.secretKey, c.jwtKey} \cap Range(Keyring(c)) # {}
EncryptionKeys(c) ==
    \/ Keyring(c) = <<>> /\ ProductionLike(c)
    \/ \E k \in Range(Keyring(c)) : k \notin FernetKeys
    \/ {c.secretKey, c.jwtKey} \cap Range(Keyring(c)) # {}

LogFormat(c) == c.logFormat # "json"

(* These find warnings: they never refuse.                                   *)
Hsts(c)      == c.hsts = 0
Proxy(c)     == c.proxyHeader /\ c.proxies = 0
Identity(c)  == c.shippedName
Admin(c)     == c.admin
Fallbacks(c) == c.fallbacks # <<>>
KeylessDevelopment(c) == Keyring(c) = <<>> /\ ~ProductionLike(c)

(* audit(): a rule that cannot read its setting is itself a problem, as an   *)
(* origin that is no URL is to the rule on origins.                          *)
Unreadable(c) == c.credentials /\ "unparsable" \in c.origins
Problem(c) ==
    \/ Unreadable(c)
    \/ AppEnv(c) \/ Debug(c) \/ Secrets(c) \/ SharedSecrets(c) \/ AllowedHosts(c)
    \/ Origins(c) \/ Cookies(c) \/ Email(c) \/ Cache(c) \/ Database(c) \/ FrontendUrl(c)
    \/ Throttling(c) \/ EncryptionKeys(c) \/ LogFormat(c)
Warning(c) ==
    Hsts(c) \/ Proxy(c) \/ Identity(c) \/ Admin(c) \/ Fallbacks(c) \/ KeylessDevelopment(c)

(* enforce(), the last line of the settings module.                          *)
Refused(c) == ProductionLike(c) /\ Problem(c)

(* What the process logs while it starts, and what `python -m                *)
(* core.config_audit` answers without starting it.                           *)
Logs(c)     == ~Refused(c) /\ (Warning(c) \/ Problem(c))
ExitCode(c) == IF Refused(c) THEN 1 ELSE 0

-----------------------------------------------------------------------------
(* checks: the errors of manage.py's system checks                           *)

SharedCacheError(c) == ~c.debug /\ c.cache \in {"locmem", "dummy"}

(* Only RBACBackend may grant permissions.                                   *)
GrantPathError(c) ==
    \/ "rbac" \notin {b.path : b \in c.backends}
    \/ \E b \in c.backends : b.path # "rbac" /\ b.contributes

DefaultDenyError(c) == c.defaultPermissions # <<"DefaultDeny">>

(* Every API route is one of ours and says who may use it, and the routes    *)
(* open to anyone are exactly those of the ledger.                           *)
RouteError(route, ledger) ==
    \/ ~route.ours /\ route.name \notin ledger
    \/ route.ours /\ route.public # (route.name \in ledger)
    \/ route.ours /\ ~route.public /\ ~route.gated
RoutesError(routes, ledger) ==
    \/ \E r \in routes : RouteError(r, ledger)
    \/ ledger \ {r.name : r \in routes} # {}

KeysError(c, purposes) ==
    \/ Keyring(c) = <<>> /\ ProductionLike(c)
    \/ /\ Keyring(c) # <<>>
       /\ \/ \E k \in Range(Keyring(c)) : k \notin FernetKeys
          \/ c.secretKey \in Range(Keyring(c))
          \/ c.jwtKey \in Range(Keyring(c))
          \/ ~(purposes \subseteq {"mfa_totp"})

(* A job's function imports and takes a context, a cron's runs expire before *)
(* the next, and a lock outlives no more than MAX_LOCK_TTL_SECONDS.          *)
JobsError(jobs, margin, maxTtl) ==
    \/ \E j \in jobs : ~j.importable
    \/ \E j \in jobs : j.cron /\ j.expires # Unset /\ j.expires >= j.every
    \/ \E j \in jobs : j.singleFlight /\ j.hard + margin > maxTtl

(* The handler of every outbox topic imports and can be called.              *)
TopicsError(topics) == \E t \in topics : ~t.importable

(* The celery settings that fail silently when wrong.                        *)
CeleryError(c, tasks) ==
    \/ \E t \in tasks : ~t.ignoresResult /\ c.results \in {"none", "memory"}
    \/ \E t \in tasks : t.acksLate /\ ~t.idempotent
    \/ c.acksLate
    \/ c.visibility <= c.timeLimit \/ \E t \in tasks : c.visibility <= t.hard
    \/ c.serializers # {"json"}
    \/ c.eager /\ c.appEnv # "test"
    \/ ProductionLike(c) /\ c.broker \in {"none", "memory"}
=============================================================================
