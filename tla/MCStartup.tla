----------------------------- MODULE MCStartup -----------------------------
(* What is done to start a release and to keep it running, each behaviour     *)
(* about one part of it: a process boots, plugins come and go, the schedules  *)
(* are synced, keys are rotated, the health report watches the jobs, or a     *)
(* request reads a setting.                                                   *)
EXTENDS StartupProperties, Periods
CONSTANTS Dir, Label, Nothing,
          Plans, Late,
          Syncs, Names, Releases, Kept, Dropped, Unscheduled, NoRow, MaxRows,
          Specs, StallThreshold, SeenWindow, From, Until, MaxUpsets,
          Webs, MaxKeys, MaxSecrets, Batch, Lost, Held, Numeric, MaxWrites
VARIABLES focus,  \* the part of the system this behaviour is about
          plan, plugin, pages, link, generated, making,
          tasks, rowOf, made, byHand, alone, sync,
          clock, up, enabled, next, queued, running, started, ended, upsets, down, calm,
          ring, loaded, keys, rows, secrets, owned, command, verified,
          setting, scoped, writes, draft, snapshot, reading, quiet, ceiling

Labels == {<<"a">>, <<"a", "_", "b">>, <<"b", "_", "a">>, <<"users">>}

\* The directory of a label is the first, a submodule may be in any.
Plug == INSTANCE Plugins
          WITH ReservedRoutes <- {<<"users">>}, Reserved <- {<<"b", "_", "a">>}, MaxLength <- 3,
               DirOf <- [l \in Label |-> CHOOSE d \in Dir : TRUE]
plugvars == <<plugin, pages, link, generated, making>>
syncvars == <<tasks, rowOf, made, byHand, alone, sync>>
jobvars == <<clock, up, enabled, next, queued, running, started, ended, upsets, down, calm>>
keyvars == <<ring, loaded, keys, rows, secrets, owned, command, verified>>
valuevars == <<setting, scoped, writes, draft, snapshot, reading, quiet, ceiling>>
bootvars == <<startup, plan>>
mcvars == <<bootvars, focus, plugvars, syncvars, jobvars, keyvars, valuevars>>

\* Two releases: the second changes one job and unschedules the other.
TwoReleases == {(Kept :> "old") @@ (Dropped :> "old"),
                (Kept :> "new") @@ (Dropped :> Unscheduled)}
Sched == INSTANCE Schedules WITH owner <- rowOf

\* An interval job on a queue of its own, and a job that runs once a day
Daily == [slots |-> {One(1)}, doms |-> Star, dows |-> Star]
Scheduled == [drain |-> [queue |-> "outbox", expires |-> 0, offset |-> 1,
                         schedule |-> [cron |-> FALSE, every |-> 2]],
              cleanup |-> [queue |-> "default", expires |-> 0,
                           schedule |-> [cron |-> TRUE, fires |-> Daily]]]
JobClocks == [j \in DOMAIN Specs |-> ClockOf(Specs[j], From, Until)]
Mon == INSTANCE JobHealthProperties WITH Clocks <- JobClocks

Ring == INSTANCE Encryption WITH MaxRows <- MaxSecrets, made <- secrets

\* One setting of every type, with what rows of it may hold: a value within
\* its bounds, one that an earlier release allowed, one of another type.
Setting(type, default, nullable, scopes) ==
    [type |-> type, default |-> default, nullable |-> nullable, scopes |-> scopes]
Switch  == Setting([name |-> "bool"], [bool |-> FALSE], FALSE, {"platform"})
Count   == Setting([name |-> "int", min |-> 1, max |-> 2], [int |-> 1], FALSE,
                   {"user", "tenant", "platform"})
Price   == Setting([name |-> "decimal", min |-> 1, max |-> 2], [int |-> 1], TRUE, {"user", "platform"})
Title   == Setting([name |-> "string", length |-> 1], [str |-> "1"], FALSE, {"user"})
Theme   == Setting([name |-> "choice", choices |-> {"a", "b"}], [str |-> "a"], FALSE, {"user", "platform"})
Columns == Setting([name |-> "str_list", choices |-> {"a", "b"}], [list |-> <<>>], FALSE, {"platform"})
SomeHeld ==
        (Switch  :> {[bool |-> TRUE], [str |-> "false"]})
     @@ (Count   :> {[int |-> 2], [int |-> 9]})
     @@ (Price   :> {[str |-> "2"], [none |-> TRUE]})
     @@ (Title   :> {[str |-> "b"], [str |-> "long"]})
     @@ (Theme   :> {[str |-> "b"], [bool |-> TRUE]})
     @@ (Columns :> {[list |-> <<"a", "b">>], [list |-> <<"a", "a">>]})
Numbers == ("1" :> 1) @@ ("2" :> 2) @@ ("9" :> 9)
Value == INSTANCE Resolution
           WITH Definitions <- DOMAIN Held, JsonValues <- Held,
                def <- setting, rows <- scoped, read <- reading, calm <- quiet

-----------------------------------------------------------------------------
(* Declarations *)
D(catalog, owner, key) == [catalog |-> catalog, owner |-> owner, key |-> key, shaped |-> TRUE]

Code(m, f)       == [module |-> m, feature |-> f]
Group(o, k, cs)  == D("permissions", o, k) @@ [module |-> o, codes |-> cs]
Item(k, p)       == [key |-> k, permission |-> p, public |-> FALSE]
Section(o, k, s) == D("navigation", o, k) @@ [module |-> o, items |-> s]
View(n, public)  == [name |-> n, ours |-> TRUE, public |-> public, gated |-> ~public]
Urls(o, k, u, r) ==
    D("api_routes", o, k) @@ [urlconf |-> u, refs |-> r, ordering |-> {k},
                              views |-> {View(k, FALSE)} \cup
                                        (IF k = "core" THEN {View("login", TRUE)} ELSE {}),
                              schemas |-> {[name |-> n, leads |-> {"Row", "Cell"} \ {n}] :
                                              n \in r \cup {"Row"}}]
Job(o, k, soft, hard) ==
    D("jobs", o, k) @@ [destructive |-> FALSE, enabled |-> TRUE, soft |-> soft, hard |-> hard,
                        cron |-> FALSE, every |-> None, expires |-> None, importable |-> TRUE,
                        singleFlight |-> TRUE]
Outlives(o, k, cron) ==
    [Job(o, k, 1, 2) EXCEPT !.cron = cron, !.every = 60, !.expires = 60]
Sweep(o, k, hard) ==
    D("reconcilers", o, k) @@ [gaveUp |-> k \o ".gave_up", soft |-> 1, hard |-> hard, cron |-> FALSE,
                               every |-> None, states |-> {"sending"}]
Field(k, n, segs, default) ==
    [key |-> k, namespace |-> n, module |-> "core", segments |-> segs, default |-> default,
     min |-> 1, max |-> 3]
Policy(o, k, fs) == D("settings", o, k) @@ [fields |-> fs, frozen |-> TRUE]
Toned(c, o, tone) == D(c, o, c) @@ [module |-> o, tone |-> tone]
Checked(c)        == D(c, "core", c) @@ [callable |-> TRUE, critical |-> FALSE]
Open(o, length)   == D("public_routes", o, "login") @@ [module |-> o, reasonLength |-> length]
Encrypted(n)      == D("encrypted_fields", "core", n) @@ [purpose |-> "unknown", ciphertext |-> n = "f"]
Guard(k, mode)   == D("guards", "core", k) @@ [mode |-> mode, reasoned |-> FALSE]
Topic(k, s)      == D("outbox_topics", "core", k) @@ [semantics |-> s, lease |-> 60, importable |-> k # "t2"]

Core == <<Group("core", "audit", <<Code("core", "view")>>),
          Section("core", "system", <<Item("audit", Code("core", "view")), Item("home", None)>>),
          Urls("core", "core", "core.urls", {"Page"}), Toned("statuses", "core", "ok"),
          Sweep("core", "core.sweep", 2), Open("core", 40)>>
Plugin == <<Group("notes", "notes", <<Code("notes", "view")>>),
            Section("notes", "notes", <<Item("list", Code("notes", "view"))>>),
            Urls("notes", "notes", "notes.urls", {"Note"}),
            D("statuses", "notes", "notes.open") @@ [module |-> "notes", tone |-> "warn"],
            Job("notes", "notes.clean", 1, 2)>>
Odd == {Group("core", "audit", <<>>), Group("core", "two", <<Code("core", "view")>>),
        Group("core", "far", <<Code("notes", "view")>>),
        Section("core", "bad", <<Item("x", Code("core", "typo"))>>),
        Section("core", "twice", <<Item("x", None), Item("x", None)>>),
        Urls("core", "users", "a.urls", {}), Urls("core", "other", "core.urls", {}),
        Job("core", "core.sweep", 1, 2), Job("core", "late", 2, 2), Job("core", "long", 3, 4000),
        Outlives("core", "interval", FALSE), Outlives("core", "cron", TRUE),
        Sweep("core", "core.slow", 1), Sweep("core", "core.sweep", 2),
        D("finding_kinds", "core", "core.sweep.gave_up")
           @@ [severity |-> "info", resolutions |-> {"dismissed"}],
        Policy("core", "lock", <<Field("core.a.b", "core", 3, 1), Field("core.a.c", "core", 3, 2)>>),
        Policy("core", "twice", <<Field("core.a.b", "core", 3, 1), Field("core.a.b", "core", 3, 1)>>),
        Policy("core", "foreign", <<Field("users.a.b", "users", 3, 1)>>),
        Policy("core", "short", <<Field("core.a", "core", 2, 1)>>),
        Policy("core", "range", <<Field("core.a.d", "core", 3, 0)>>),
        Guard("g", "enforce"), Guard("g", "off"), Topic("t", "at_most_once"), Topic("u", "silent"), Topic("t2", "at_most_once"),
        D("lookups", "core", "l") @@ [seed |-> <<"x", "x">>],
        D("lookups", "core", "m") @@ [seed |-> <<"x", "y">>],
        Encrypted("f"), Encrypted("plain"), Toned("statuses", "core", "pink"),
        Toned("audit_actions", "core", "danger"), Checked("health"), Checked("doctors"),
        Checked("dataplane"), Open("core", 3),
        D("flags", "core", "core.f") @@ [expires |-> None],
        D("flags", "core", "core.g") @@ [expires |-> "2030"]}
SomePlans == {Core, Core \o Plugin} \cup {Core \o <<a>> : a \in Odd} \cup {<<a, b>> : a, b \in Odd}

LateOnes == {Sweep("core", "core.late", 2), Topic("late", "at_most_once")}

\* What the apps declare at boot (Plans) or later, with a catalog for each.
Declarations == Late \cup UNION {{p[i] : i \in DOMAIN p} : p \in Plans}
PluginLabels == {d.owner : d \in Declarations} \ {"core"}
ASSUME StartupAssumption ==
    /\ Plans \subseteq Seq(Declarations) /\ \A d \in Declarations : d.catalog \in Catalogs
    /\ InTheirLanes(Declarations, PluginLabels) /\ SchemasWhole(Declarations)
    /\ Label \subseteq Seq(STRING)
    /\ Sched!RowsAssumption
    /\ Value!ValuesAssumption
    /\ Mon!JobsAssumption

-----------------------------------------------------------------------------
(* Environments: a sound one, and what can be wrong with it.                 *)
Good == [appEnv |-> "production", name |-> "x", secretKey |-> "s1", debug |-> FALSE,
         hosts |-> {"host"}, database |-> "postgres", cache |-> "redis", broker |-> "redis",
         results |-> "none", visibility |-> 3600, origins |-> {"https"}, proxies |-> 1,
         admin |-> Unset, email |-> "smtp", emailHost |-> TRUE, frontend |-> "https",
         jwtKey |-> "s2", fallbacks |-> <<>>, keys |-> <<"k1">>, secureCookies |-> Unset,
         logFormat |-> Empty]
Rings == {<<>>, <<"k1">>, <<Empty, "k1">>, <<"k1", "bad">>, <<"k2", "k1">>, <<"s1">>}
Environments ==
    {[Good EXCEPT !.appEnv = a, !.keys = r, !.secretKey = s, !.jwtKey = j, !.fallbacks = f,
                  !.cache = c, !.debug = d] :
        a \in {"production", "test", Empty}, r \in Rings, s \in {"s1", "k1", "weak"},
        j \in {"s2", "k2", "s1"}, f \in {<<>>, <<"k2">>}, c \in {Unset, "redis"}, d \in BOOLEAN}
    \cup {[Good EXCEPT !.hosts = {"*"}], [Good EXCEPT !.origins = {"http"}],
          [Good EXCEPT !.origins = {"unparsable"}], [Good EXCEPT !.secureCookies = FALSE],
          [Good EXCEPT !.email = "log"], [Good EXCEPT !.emailHost = FALSE],
          [Good EXCEPT !.database = Unset], [Good EXCEPT !.frontend = "http"],
          [Good EXCEPT !.logFormat = "console"], [Good EXCEPT !.broker = Unset]}

Manifests == {[label |-> l, shaped |-> TRUE, package |-> p, frontend |-> TRUE] :
                 l \in Label, p \in {"found", "absent", "broken"}}

MCInit ==
    /\ Init /\ Plug!Init
    /\ focus \in {"settings", "catalogs", "plugins", "schedules", "health", "keys", "values"}
    /\ IF focus = "values" THEN Value!Init
       ELSE /\ setting = None /\ scoped = None /\ writes = None /\ draft = None
            /\ snapshot = None /\ reading = None /\ quiet = None /\ ceiling = None
    /\ Sched!Init /\ Mon!Init /\ Ring!Init
    /\ boot = "settings" /\ committed = <<>>
    /\ manage \in BOOLEAN
    /\ env \in (IF focus = "settings" THEN Environments ELSE {Good})
    /\ plan \in (IF focus = "catalogs" THEN Plans ELSE {<<>>})
    /\ todo = plan
    /\ plugins = {plan[i].owner : i \in DOMAIN plan} \ {"core"}
    /\ focus # "plugins" => pages = {}
    /\ focus \notin {"settings", "catalogs"} => ~manage
    /\ focus # "keys" => rows[1] = 1

Concerned == {plan[i].catalog : i \in DOMAIN plan}
             \cup (IF \E i \in DOMAIN plan : plan[i].catalog = "reconcilers"
                   THEN {"jobs", "finding_kinds"} ELSE {})
MCBoot ==
    \/ ImportSettings \/ Ready \/ Entering \/ EnteringFails \/ IsReady \/ RunChecks
    \/ \E c \in Concerned : Cardinality(sealed) < 2 /\ ReadEarly(c)
    \/ \E d \in Late : RegisterLate(d)
    \/ Export

BootInit ==
    /\ Init /\ boot = "settings" /\ committed = <<>>
    /\ plan \in Plans \cup {<<>>} /\ todo = plan
    /\ plugins = {plan[i].owner : i \in DOMAIN plan} \ {"core"}
BootSpec == BootInit /\ [][MCBoot /\ UNCHANGED plan]_bootvars
PlugSpec == Plug!Init /\ [][Plug!Next(Manifests)]_plugvars

MCNext ==
    \/ focus \in {"settings", "catalogs"} /\ MCBoot
       /\ UNCHANGED <<focus, plan, plugvars, syncvars, jobvars, keyvars, valuevars>>
    \/ focus = "plugins" /\ Plug!Next(Manifests)
       /\ UNCHANGED <<bootvars, focus, syncvars, jobvars, keyvars, valuevars>>
    \/ focus = "schedules" /\ Sched!Next
       /\ UNCHANGED <<bootvars, focus, plugvars, jobvars, keyvars, valuevars>>
    \/ focus = "health" /\ Mon!Next
       /\ UNCHANGED <<bootvars, focus, plugvars, syncvars, keyvars, valuevars>>
    \/ focus = "keys" /\ Ring!Next
       /\ UNCHANGED <<bootvars, focus, plugvars, syncvars, jobvars, valuevars>>
    \/ focus = "values" /\ Value!Next
       /\ UNCHANGED <<bootvars, focus, plugvars, syncvars, jobvars, keyvars>>
MCSpec == MCInit /\ [][MCNext]_mcvars

\* Syncs and web processes are interchangeable.
Symmetry == Permutations(Syncs) \cup Permutations(Webs)

\* See StartupProperties, Plugins, Schedules, JobHealthProperties,
\* Encryption and Resolution.
BootServesWhole == ServesWhole(plan)
TablesApart == Plug!TablesApart
SyncKeepsItsWord == Sched!SyncKeepsItsWord
MonitorIsRight == Mon!MonitorIsRight
SecretsStayReadable == Ring!SecretsStayReadable
SettingsMeanWhatTheySay == focus = "values" => Value!SettingsMeanWhatTheySay
=============================================================================
