------------------------- MODULE StartupProperties -------------------------
EXTENDS Startup

(* Boot that serves lost nothing: every declaration of the installed apps is *)
(* in its catalog, however early another thread read one; a reconciler never *)
(* serves without the job that runs it and the kind it gives up with; and a  *)
(* menu that was read names only permissions some app declares.              *)
ServesWhole(plan) ==
    /\ boot = "serving" => \A i \in DOMAIN plan : plan[i] \in recorded[plan[i].catalog]
    /\ \A r \in recorded["reconcilers"] :
          JobOf(r) \in recorded["jobs"] /\ KindOf(r) \in recorded["finding_kinds"]
    /\ "navigation" \in sealed => Undeclared = {}

(* A server or a worker never runs the system checks: in a production-like   *)
(* environment the audit alone keeps out what the checks of encryption keys  *)
(* and of the shared cache would refuse ("the boot-refusal twins").          *)
TwinsAgree ==
    boot \notin {"settings", "failed"} /\ ProductionLike(env) =>
        ~SharedCacheError(Settings(env)) /\ ~KeysError(Settings(env), {})

(* The exported contracts are the boilerplate's own: byte for byte what a    *)
(* process without any plugin exports.                                       *)
Own == [c \in Catalogs |-> {d \in recorded[c] : d.owner \notin plugins}]
Boilerplate == INSTANCE Startup WITH recorded <- Own

(* What the contracts go by, of a declaration, is its owner's: "everything   *)
(* the plugin's own modules registered stays in its lane"                    *)
(* (registration_problems()), and the boilerplate's apps stay out of them.   *)
InLane(d, tag, labels) == IF d.owner \in labels THEN tag = d.owner ELSE tag \notin labels
InTheirLanes(declarations, labels) ==
    \A d \in declarations :
        /\ d.catalog \in {"permissions", "statuses", "public_routes", "navigation"} =>
              InLane(d, d.module, labels)
        /\ d.catalog = "api_routes" => InLane(d, d.key, labels)

(* Components have one name each, and the schema of an app's paths has all   *)
(* that they refer to, whoever else refers to it.                            *)
SchemasWhole(declarations) ==
    LET routes == {d \in declarations : d.catalog = "api_routes"} IN
    \A r, other \in routes : \A s \in other.schemas :
        s.name \in r.refs \cup UNION {t.leads : t \in r.schemas} => s \in r.schemas

ContractsIgnorePlugins == committed # <<>> => committed = Boilerplate!Rendered({})
=============================================================================
