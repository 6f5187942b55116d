------------------------------ MODULE Registry ------------------------------
(* What the apps of one process contribute at boot (core/registry.py).       *)
(*                                                                           *)
(* Every catalog takes declarations until it is first read, and is frozen    *)
(* from then on.  A declaration is a record; the checks of its single fields *)
(* (a pattern, a type, a non-empty text) are the one field `shaped`, and the *)
(* checks that relate fields, declarations or catalogs are written out.      *)
(* Catalogs have a lock each: registering and reading interleave at will,    *)
(* and a reconciler holds its own lock while it enters two other catalogs.   *)
EXTENDS Naturals, Sequences, FiniteSets, Functions

CONSTANTS
    ReservedPrefixes,  \* RESERVED_PREFIXES
    None               \* an item gated by no permission, a job without a period

VARIABLES
    recorded, \* [Catalogs -> the declarations accepted]
    sealed,   \* the catalogs that have been read
    entering  \* the reconciler being registered and how far it is, or Nobody
catalogs == <<recorded, sealed, entering>>

Keyed == {"health", "dataplane", "encrypted_fields", "audit_actions", "statuses", "api_routes",
          "public_routes", "flags", "lookups", "guards", "jobs", "doctors", "finding_kinds",
          "outbox_topics", "reconcilers"}
Catalogs == Keyed \cup {"permissions", "navigation", "settings"}
Nobody == [spec |-> None, step |-> "none"]

Init ==
    /\ recorded = [c \in Catalogs |-> {}]
    /\ sealed = {}
    /\ entering = Nobody

-----------------------------------------------------------------------------
(* What a catalog accepts *)

NoneTwice(s) == Cardinality(Range(s)) = Len(s)
Keys(c)      == {d.key : d \in recorded[c]}
Codes        == UNION {Range(g.codes) : g \in recorded["permissions"]}
SettingKeys  == UNION {{f.key : f \in Range(d.fields)} : d \in recorded["settings"]}

(* One key, one declaration; its own fields are well formed.                 *)
Fresh(d) == d.shaped /\ d.key \notin Keys(d.catalog)

(* A group's codes are in its module, and no code has two groups.            *)
PermissionGroupOk(g) ==
    /\ Fresh(g)
    /\ \A code \in Range(g.codes) : code.module = g.module
    /\ NoneTwice(g.codes)
    /\ Range(g.codes) \cap Codes = {}

NavSectionOk(s) ==
    /\ Fresh(s)
    /\ NoneTwice([i \in DOMAIN s.items |-> s.items[i].key])
    /\ \A item \in Range(s.items) : item.public => item.permission = None

HealthCheckOk(h)    == Fresh(h) /\ h.critical \in BOOLEAN
DataPlaneCheckOk(d) == Fresh(d) /\ d.callable
EncryptedFieldOk(f) == Fresh(f) /\ f.ciphertext \* the field is named *_ciphertext
AuditActionOk(a)    ==
    Fresh(a) /\ a.tone \in {"neutral", "info", "success", "warning", "danger", "security"}
StatusOk(s)         == Fresh(s) /\ s.tone \in {"ok", "warn", "err", "info", "neutral"}

ApiRouteOk(r) ==
    /\ Fresh(r)
    /\ r.key \notin ReservedPrefixes
    /\ \A other \in recorded["api_routes"] : other.urlconf # r.urlconf

PublicRouteOk(r) == Fresh(r) /\ r.reasonLength >= 20
FlagOk(f)        == Fresh(f) /\ f.expires # None
GuardOk(g)       == /\ Fresh(g)
                    /\ g.mode \in {"off", "log_only", "enforce"}
                    /\ g.mode = "enforce" => g.reasoned
LookupOk(l)      == Fresh(l) /\ NoneTwice(l.seed)

(* SettingDef.problems(): the namespaces a module may declare in, and a      *)
(* default that its own bounds accept.                                       *)
SettingOk(f) ==
    /\ f.namespace \in {f.module, "platform", "security"}
    /\ f.segments = 2 => f.namespace \in {"platform", "security"}
    /\ f.min <= f.default /\ f.default <= f.max

(* register_group(): every field has a default and its declaration.          *)
PolicyOk(d) == d.frozen /\ d.fields # <<>>

(* _add(): all the definitions of a group, or none.                          *)
SettingsOk(d) ==
    /\ Fresh(d) /\ PolicyOk(d)
    /\ \A f \in Range(d.fields) : SettingOk(f) /\ f.key \notin SettingKeys
    /\ NoneTwice([i \in DOMAIN d.fields |-> d.fields[i].key])

(* A cron's period is known to a system check only (JobsError).              *)
JobOk(j) ==
    /\ Fresh(j)
    /\ ~(j.destructive /\ j.enabled)
    /\ 0 < j.soft /\ j.soft < j.hard
    /\ ~j.cron /\ j.every # None /\ j.expires # None => j.expires < j.every

FindingKindOk(k) ==
    Fresh(k) /\ k.severity \in {"info", "warning", "critical"} /\ k.resolutions # {}
OutboxTopicOk(t) ==
    Fresh(t) /\ t.semantics \in {"at_least_once", "at_most_once"} /\ t.lease > 0
ReconcilerOk(r)  == Fresh(r) /\ r.states # {}
DoctorOk(d)      == Fresh(d) /\ d.callable

(* What register() of d's catalog finds nothing wrong with.                  *)
Acceptable(d) ==
    CASE d.catalog = "permissions"      -> PermissionGroupOk(d)
      [] d.catalog = "navigation"       -> NavSectionOk(d)
      [] d.catalog = "health"           -> HealthCheckOk(d)
      [] d.catalog = "dataplane"        -> DataPlaneCheckOk(d)
      [] d.catalog = "encrypted_fields" -> EncryptedFieldOk(d)
      [] d.catalog = "audit_actions"    -> AuditActionOk(d)
      [] d.catalog = "statuses"         -> StatusOk(d)
      [] d.catalog = "api_routes"       -> ApiRouteOk(d)
      [] d.catalog = "public_routes"    -> PublicRouteOk(d)
      [] d.catalog = "settings"         -> SettingsOk(d)
      [] d.catalog = "flags"            -> FlagOk(d)
      [] d.catalog = "lookups"          -> LookupOk(d)
      [] d.catalog = "guards"           -> GuardOk(d)
      [] d.catalog = "jobs"             -> JobOk(d)
      [] d.catalog = "doctors"          -> DoctorOk(d)
      [] d.catalog = "finding_kinds"    -> FindingKindOk(d)
      [] d.catalog = "outbox_topics"    -> OutboxTopicOk(d)
      [] d.catalog = "reconcilers"      -> ReconcilerOk(d)
Accepted(d) == d.catalog \notin sealed /\ Acceptable(d)

(* A reconciler holds the lock of its catalog while it registers its job and *)
(* its give-up kind: nobody registers another one or reads the catalog.      *)
Free(c) == c = "reconcilers" => entering = Nobody

Record(d) == recorded' = [recorded EXCEPT ![d.catalog] = @ \cup {d}]

-----------------------------------------------------------------------------
(* Operations *)

Register(d) ==
    /\ d.catalog # "reconcilers"
    /\ Accepted(d) /\ Record(d)
    /\ UNCHANGED <<sealed, entering>>

(* A refused declaration leaves its catalog as it was.                       *)
Refuse(d) == Free(d.catalog) /\ ~Accepted(d) /\ UNCHANGED catalogs

(* ReconcilerRegistry.register(): the job, the kind, and the spec last.      *)
JobOf(d)  == [catalog |-> "jobs", owner |-> d.owner, key |-> d.key, shaped |-> TRUE,
              destructive |-> FALSE, enabled |-> TRUE, soft |-> d.soft, hard |-> d.hard,
              cron |-> d.cron, every |-> d.every, expires |-> None, importable |-> TRUE,
              singleFlight |-> TRUE]
KindOf(d) == [catalog |-> "finding_kinds", owner |-> d.owner, key |-> d.gaveUp, shaped |-> TRUE,
              severity |-> "warning", resolutions |-> {"fixed_by_hand", "dismissed"}]

StartReconciler(d) ==
    /\ d.catalog = "reconcilers" /\ Free("reconcilers") /\ Accepted(d)
    /\ entering' = [spec |-> d, step |-> "job"]
    /\ UNCHANGED <<recorded, sealed>>

EnterJob ==
    /\ entering.step = "job" /\ Accepted(JobOf(entering.spec))
    /\ Record(JobOf(entering.spec))
    /\ entering' = [entering EXCEPT !.step = "kind"]
    /\ UNCHANGED sealed

EnterKind ==
    /\ entering.step = "kind" /\ Accepted(KindOf(entering.spec))
    /\ Record(KindOf(entering.spec))
    /\ entering' = [entering EXCEPT !.step = "spec"]
    /\ UNCHANGED sealed

EnterSpec ==
    /\ entering.step = "spec"
    /\ Record(entering.spec)
    /\ entering' = Nobody
    /\ UNCHANGED sealed

(* The other catalog refuses: what was entered before stays.                 *)
EnteringRefused ==
    /\ \/ entering.step = "job"  /\ ~Accepted(JobOf(entering.spec))
       \/ entering.step = "kind" /\ ~Accepted(KindOf(entering.spec))
    /\ entering' = Nobody
    /\ UNCHANGED <<recorded, sealed>>

(* The items that name a permission no group declares.                       *)
Undeclared ==
    {item \in UNION {Range(s.items) : s \in recorded["navigation"]} :
        item.permission # None /\ item.permission \notin Codes}

\* Mutant: sealing asks nothing.
MutSealNavigation == sealed' = sealed \cup {"permissions", "navigation"}

(* NavigationRegistry.seal(): permissions are sealed by the question, even   *)
(* when the answer is no and navigation stays open.                          *)
SealNavigation ==
    sealed' = sealed \cup {"permissions"}
                     \cup (IF Undeclared = {} THEN {"navigation"} ELSE {})

(* Any method that reads a catalog seals it first.                           *)
Read(c) ==
    /\ Free(c)
    /\ IF c = "navigation" /\ c \notin sealed THEN SealNavigation ELSE sealed' = sealed \cup {c}
    /\ UNCHANGED <<recorded, entering>>
=============================================================================
