------------------------------ MODULE Startup ------------------------------
(* One process from the import of its settings to its first requests: the    *)
(* settings are audited, every installed app registers what it declares, in  *)
(* the order of INSTALLED_APPS, and manage.py runs the system checks, which  *)
(* a web server or a worker does not.  Another thread may read a catalog at  *)
(* any time.  Then the contracts the frontend imports are exported.          *)
EXTENDS Registry, Configuration

CONSTANTS
    Localization \* render_localization(), which reads no catalog

VARIABLES
    env,      \* the environment variables
    manage,   \* a manage.py command, not a server or a worker
    plugins,  \* the labels of the plugins installed
    boot,     \* "settings", "ready", "checks", "serving" or "failed"
    todo,     \* the declarations still to register
    committed \* the contracts on disk
process == <<env, manage, plugins, boot, todo, committed>>
startup == <<catalogs, process>>

Fail == boot' = "failed" /\ UNCHANGED <<env, manage, plugins, todo, committed>>
Step(next, rest) ==
    boot' = next /\ todo' = rest /\ UNCHANGED <<env, manage, plugins, committed>>

ImportSettings ==
    /\ boot = "settings"
    /\ IF Refused(Settings(env)) THEN Fail ELSE Step("ready", todo)
    /\ UNCHANGED catalogs

(* AppConfig.ready(): one declaration after another; the first that is       *)
(* refused ends the process.                                                 *)
Ready ==
    /\ boot = "ready" /\ entering = Nobody /\ todo # <<>>
    /\ LET d == Head(todo) IN
          \/ (Register(d) \/ StartReconciler(d)) /\ Step("ready", Tail(todo))
          \/ Refuse(d) /\ Fail

Entering == (EnterJob \/ EnterKind \/ EnterSpec) /\ UNCHANGED process
EnteringFails ==
    /\ EnteringRefused
    /\ IF boot = "ready" THEN Fail ELSE UNCHANGED process

IsReady ==
    /\ boot = "ready" /\ entering = Nobody /\ todo = <<>>
    /\ Step(IF manage THEN "checks" ELSE "serving", <<>>)
    /\ UNCHANGED catalogs

(* check_registry_seals() reads every catalog; the other checks read theirs. *)
Purposes == {f.purpose : f \in recorded["encrypted_fields"]}
(* core/jobs/celery.py makes a task of a job: it keeps no result, and is     *)
(* acknowledged late exactly when the job is idempotent.                     *)
Tasks == {[ignoresResult |-> TRUE, acksLate |-> FALSE, idempotent |-> FALSE, hard |-> j.hard] :
             j \in recorded["jobs"]}
Views  == UNION {r.views : r \in recorded["api_routes"]}
Ledger == Keys("public_routes")
CheckErrors ==
    \/ Undeclared # {}
    \/ SharedCacheError(Settings(env)) \/ KeysError(Settings(env), Purposes)
    \/ GrantPathError(Settings(env)) \/ DefaultDenyError(Settings(env))
    \/ RoutesError(Views, Ledger)
    \/ TopicsError(recorded["outbox_topics"]) \/ JobsError(recorded["jobs"], 30, 3600)
    \/ CeleryError(Settings(env), Tasks)
RunChecks ==
    /\ boot = "checks"
    /\ sealed' = IF Undeclared = {} THEN Catalogs ELSE Catalogs \ {"navigation"}
    /\ UNCHANGED <<recorded, entering>>
    /\ IF CheckErrors THEN Fail ELSE Step("serving", <<>>)

(* Another thread, or a module imported late.                                *)
ReadEarly(c) == boot \in {"ready", "serving"} /\ Read(c) /\ UNCHANGED process
RegisterLate(d) ==
    /\ boot = "serving"
    /\ Register(d) \/ StartReconciler(d) \/ Refuse(d)
    /\ UNCHANGED process

-----------------------------------------------------------------------------
(* core/contracts.py *)

(* The schema's components: each app's serializers, and what each refers to. *)
Schemas     == UNION {r.schemas : r \in recorded["api_routes"]}
Refs(paths) == {s \in Schemas : \E p \in paths : s.name \in p.refs}
Leads(kept) == {s \in Schemas : \E t \in kept : s.name \in t.leads}

\* Mutant: the components of what was left out stay.
MutReached(paths) == Schemas

(* prune_schema(): the fewest components with which nothing that is left, of *)
(* the paths or of the components, refers to one that was dropped.           *)
Reached(paths) ==
    {s \in Schemas : \A kept \in SUBSET Schemas :
                        Refs(paths) \subseteq kept /\ Leads(kept) \subseteq kept => s \in kept}

Mounted(scope) == {r \in recorded["api_routes"] : r.key \notin scope}
Document(scope) ==
    [paths |-> {r.key : r \in Mounted(scope)}, components |-> Reached(Mounted(scope))]

PermissionsFile(scope) == {code \in Codes : code.module \notin scope}
StatusesFile(scope)    == {s.key : s \in {s \in recorded["statuses"] : s.module \notin scope}}
OrderingFile(scope)    == {<<r.key, r.ordering>> : r \in {r \in Mounted(scope) : r.ordering # {}}}
PublicFile(scope)      == {r.key : r \in {r \in recorded["public_routes"] : r.module \notin scope}}
Manifest(scope)        == {s.key : s \in {s \in recorded["navigation"] : s.module \notin scope}}

(* render_all(): what installed plugins contribute is left out.              *)
Rendered(scope) ==
    [openapi |-> Document(scope), permissions |-> PermissionsFile(scope),
     statuses |-> StatusesFile(scope), ordering |-> OrderingFile(scope),
     publicRoutes |-> PublicFile(scope), localization |-> Localization,
     navManifest |-> Manifest(scope)]

Stale(rendered) == {f \in DOMAIN rendered : f \notin DOMAIN committed \/ committed[f] # rendered[f]}

(* write_all(): the stale files only.  Rendering reads the catalogs.         *)
Export ==
    /\ boot = "serving" /\ manage
    /\ LET rendered == Rendered(plugins)
       IN  /\ Stale(rendered) # {}
           /\ committed' = [f \in DOMAIN rendered \cup DOMAIN committed |->
                               IF f \in Stale(rendered) THEN rendered[f] ELSE committed[f]]
    /\ UNCHANGED <<catalogs, env, manage, plugins, boot, todo>>
=============================================================================
