------------------------------- MODULE Access -------------------------------
(***************************************************************************)
(* Roles, grants, assignments and account activation: rbac/services.py,    *)
(* rbac/seeding.py and the guards of users/services/users.py.              *)
(*                                                                         *)
(* A request loads the user and the role it is about (the view), and only  *)
(* then opens the transaction of the service.  Guards look at the loaded   *)
(* copies or ask the database; what they saw may be old when the           *)
(* transaction commits.  A request is therefore Load, one action for the   *)
(* body of its service, and Commit.                                        *)
(***************************************************************************)
EXTENDS Naturals, FiniteSets

CONSTANTS User,      \* accounts
          Root,      \* the account bootstrap_admin created, a superuser
          Role,      \* roles operators make
          Admin,     \* the system role "administrator"
          Code,      \* permission codes
          Proc       \* web requests in flight at once

AccountsAssumption == Root \in User
RolesAssumption == Admin \notin Role

Roles == Role \cup {Admin}

VARIABLES role,      \* rbac_role: exists, is_elevated, mfa_required
          held,      \* rbac_user_role
          user,      \* users_user: is_active, is_superuser, mfa_enforced
          grants,    \* rbac_role_permission
          permission,\* rbac_permission: "absent", "live" or "deprecated"
          migrating, \* where the post_migrate hook stands
          req,       \* the request each process serves
          \* what the properties compare
          overlap,   \* processes under whose request another one committed
          disturbed, \* users whose roles were last changed by such a request
          edited,    \* roles whose grants were last saved by such a request
          raced,     \* such a request deactivated an account
          asked      \* the grants the last save of a role asked for

rows == <<role, held, user, grants, permission>>
history == <<disturbed, edited, raced, asked>>
vars == <<rows, migrating, req, overlap, history>>

Idle == [op |-> "idle"]
Gone == [live |-> FALSE, elevated |-> FALSE, mfa |-> FALSE]
Nobody == [u \in {} |-> FALSE]            \* the enforcement of no account is written
RoleRow == [live : BOOLEAN, elevated : BOOLEAN, mfa : BOOLEAN]
UserRow == [active : BOOLEAN, super : BOOLEAN, enforced : BOOLEAN]
Phases == {"loaded", "open"}
Ops == {"assign", "revoke", "update", "delete", "grant", "create", "deactivate", "activate"}

\* A request: its operation and actor, the copies it loaded, the fields and the
\* codes it was sent, and what its open transaction will write.
Request == [op : Ops, phase : Phases, by : User, u : User, r : Roles,
            user : UserRow, role : RoleRow, fields : RoleRow, codes : SUBSET Code,
            enforce : UNION {[S -> BOOLEAN] : S \in SUBSET User},
            add : SUBSET Code, drop : SUBSET Code]

Init ==
  /\ \E made \in SUBSET Role :
       role = [r \in Roles |-> [live |-> r \in made \cup {Admin}, elevated |-> r = Admin, mfa |-> FALSE]]
  /\ held = {<<Root, Admin>>}
  /\ \E others \in SUBSET User :
       user = [u \in User |-> [active |-> TRUE, super |-> u \in {Root} \cup others, enforced |-> FALSE]]
  /\ permission = [c \in Code |-> "live"]
  /\ grants = [r \in Roles |-> IF r = Admin THEN Code ELSE {}]
  /\ migrating = "no"
  /\ req = [p \in Proc |-> Idle]
  /\ overlap = {} /\ disturbed = {} /\ edited = {} /\ raced = FALSE
  /\ asked = [r \in Roles |-> {}]

-----------------------------------------------------------------------------
InFlight == {p \in Proc : req[p] # Idle}
Open == {p \in InFlight : req[p].phase = "open"}

\* Two requests that change the same roles, grants or superusers.
RoleChange == {"assign", "revoke", "update"}
GrantChange == {"grant", "create", "delete"}
Activation == {"deactivate", "activate"}
Touches(q) == IF q.op = "update" THEN User ELSE {q.u}
Meets(q, o) ==
  \/ q.op \in RoleChange /\ o.op \in RoleChange /\ Touches(q) \cap Touches(o) # {}
  \/ q.op \in GrantChange /\ o.op \in GrantChange /\ q.r = o.r /\ o.phase = "open"
  \/ q.op \in Activation /\ o.op \in Activation

Commits(p) ==
  /\ req' = [req EXCEPT ![p] = Idle]
  /\ overlap' = (overlap \ {p}) \cup {o \in InFlight \ {p} : Meets(req[p], req[o])}
LiveCodes == {c \in Code : permission[c] = "live"}

\* The actor is authenticated, and the view loads the rows its service is called with.
Load(p, op, by, u, r, fields, codes) ==
  /\ req[p] = Idle
  /\ user[by].active
  /\ role[r].live = (op # "create")
  /\ req' = [req EXCEPT ![p] = [op |-> op, phase |-> "loaded", by |-> by, u |-> u, r |-> r,
                                user |-> user[u], role |-> role[r], fields |-> fields, codes |-> codes,
                                enforce |-> Nobody, add |-> {}, drop |-> {}]]
  /\ UNCHANGED <<rows, migrating, overlap, history>>

\* A service refuses: the transaction is rolled back.
Refuse(p) ==
  /\ req' = [req EXCEPT ![p] = Idle]
  /\ overlap' = overlap \ {p}
  /\ UNCHANGED <<rows, migrating, history>>

\* _require_superuser_for_elevated(), on the copy the request loaded.
ElevatedNeedsSuperuser(q) == q.role.elevated /\ ~user[q.by].super

\* The transaction has written, holds its locks, and will commit q.
Opens(p, q) ==
  /\ req' = [req EXCEPT ![p] = [q EXCEPT !.phase = "open"]]
  /\ UNCHANGED <<rows, migrating, overlap, history>>

\* Another open transaction holds the row this one is about to write.
Waits(p, ops) == \E o \in Open \ {p} : req[o].op \in ops /\ req[o].r = req[p].r
WaitsForPair(p) ==
  \E o \in Open \ {p} : /\ req[o].op \in {"assign", "revoke"}
                        /\ req[o].r = req[p].r /\ req[o].u = req[p].u

\* recompute_mfa_enforcement(): what holding the pairs h under the roles t
\* demands of u, written only where the loaded copy differs.
Demands(u, h, t) == \E r \in Roles : <<u, r>> \in h /\ t[r].mfa
MutRecomputed(u, loaded, h, t) ==           \* asks before the pair is written
  [x \in {y \in {u} : loaded # Demands(u, held, t)} |-> Demands(u, held, t)]
Recomputed(u, loaded, h, t) ==
  [x \in {y \in {u} : loaded # Demands(u, h, t)} |-> Demands(u, h, t)]

Service(p, op) == req[p] # Idle /\ req[p].op = op /\ req[p].phase = "loaded"

AssignRole(p) ==
  /\ Service(p, "assign")
  /\ ~WaitsForPair(p)
  /\ LET q == req[p] IN
     IF ElevatedNeedsSuperuser(q) \/ <<q.u, q.r>> \in held
       THEN Refuse(p)                            \* refused, or get_or_create() found it
       ELSE Opens(p, [q EXCEPT !.enforce =
              Recomputed(q.u, q.user.enforced, held \cup {<<q.u, q.r>>}, role)])

\* _would_leave_no_administrator(): asked of the database, without a lock.
WouldLeaveNoAdministrator(u) ==
  /\ \A x \in User : ~(user[x].super /\ user[x].active)
  /\ \A x \in User \ {u} : ~(user[x].active /\ <<x, Admin>> \in held)

RevokeRole(p) ==
  /\ Service(p, "revoke")
  /\ ~WaitsForPair(p)
  /\ LET q == req[p] IN
     IF \/ ElevatedNeedsSuperuser(q)
        \/ q.r = Admin /\ WouldLeaveNoAdministrator(q.u)
        \/ <<q.u, q.r>> \notin held
       THEN Refuse(p)
       ELSE Opens(p, [q EXCEPT !.enforce =
              Recomputed(q.u, q.user.enforced, held \ {<<q.u, q.r>>}, role)])

\* update_role(): the whole loaded row is saved with the fields sent (a row deleted
\* meanwhile is inserted again); holders are recomputed, each from a fresh row, when
\* mfa_required differs from the copy.
UpdateRole(p) ==
  /\ Service(p, "update")
  /\ ~Waits(p, {"update", "delete"})
  /\ LET q == req[p]
         t == [role EXCEPT ![q.r] = q.fields]
         holders == {u \in User : <<u, q.r>> \in held}
         wrong == {u \in holders : user[u].enforced # Demands(u, held, t)}
     IN IF (q.role.elevated \/ q.fields.elevated) /\ ~user[q.by].super
          THEN Refuse(p)
          ELSE Opens(p, [q EXCEPT !.enforce =
                 IF q.fields.mfa # q.role.mfa
                   THEN [u \in wrong |-> Demands(u, held, t)] ELSE Nobody])

DeleteRole(p) ==
  /\ Service(p, "delete")
  /\ ~Waits(p, {"update", "delete"})
  /\ LET q == req[p] IN
     IF \/ q.r = Admin
        \/ ElevatedNeedsSuperuser(q)
        \/ \E u \in User : <<u, q.r>> \in held
       THEN Refuse(p)
       ELSE Opens(p, [q EXCEPT !.drop = grants[q.r]])

\* _replace_grants(): the difference between what is asked and what is there.
Replaces(q, codes) == [q EXCEPT !.add = codes \ grants[q.r], !.drop = grants[q.r] \ codes]

SetGrants(p) ==
  /\ Service(p, "grant")
  /\ LET q == req[p] IN
     IF \/ q.r = Admin
        \/ ElevatedNeedsSuperuser(q)
        \/ ~(q.codes \subseteq LiveCodes)
       THEN Refuse(p)
       ELSE Opens(p, Replaces(q, q.codes))

\* create_role(): name and slug are unique, so one of two creations fails.
CreateRole(p) ==
  /\ Service(p, "create")
  /\ ~Waits(p, {"create"})
  /\ LET q == req[p] IN
     IF \/ role[q.r].live
        \/ q.fields.elevated /\ ~user[q.by].super
        \/ ~(q.codes \subseteq LiveCodes)
       THEN Refuse(p)
       ELSE Opens(p, Replaces(q, q.codes))

\* deactivate(): the last superuser stays.  The copy says whether the question
\* arises, the database whether another one is active.
MutLastSuperuser(q) ==                      \* counts the account itself
  /\ q.user.super /\ q.user.active
  /\ \A x \in User : ~(user[x].super /\ user[x].active)
LastSuperuser(q) ==
  /\ q.user.super /\ q.user.active
  /\ \A x \in User \ {q.u} : ~(user[x].super /\ user[x].active)

Deactivate(p) ==
  /\ Service(p, "deactivate")
  /\ IF req[p].by = req[p].u \/ LastSuperuser(req[p]) THEN Refuse(p) ELSE Opens(p, req[p])

Activate(p) == Service(p, "activate") /\ Opens(p, req[p])

-----------------------------------------------------------------------------
(* Commits.  The database refuses what would break a constraint: the pair,  *)
(* the grant and the role name are unique, a role in use cannot go away.    *)
(* A role made anew is another row: no request loaded it before.            *)

Enforce(q) ==
  user' = [u \in User |-> IF u \in DOMAIN q.enforce
                          THEN [user[u] EXCEPT !.enforced = q.enforce[u]] ELSE user[u]]

CommitRoles(p) ==
  /\ p \in Open /\ req[p].op \in RoleChange
  /\ LET q == req[p] IN
     /\ q.op = "assign" => role[q.r].live /\ <<q.u, q.r>> \notin held
     /\ held' = CASE q.op = "assign" -> held \cup {<<q.u, q.r>>}
                  [] q.op = "revoke" -> held \ {<<q.u, q.r>>}
                  [] OTHER -> held
     /\ role' = IF q.op = "update" THEN [role EXCEPT ![q.r] = q.fields] ELSE role
     /\ Enforce(q)
     /\ disturbed' = IF p \in overlap THEN disturbed \cup Touches(q)
                     ELSE disturbed \ (IF q.op = "update" THEN {} ELSE {q.u})
  /\ Commits(p)
  /\ UNCHANGED <<grants, permission, migrating, edited, raced, asked>>

CommitGrants(p) ==
  /\ p \in Open /\ req[p].op \in GrantChange
  /\ LET q == req[p] IN
     /\ q.op = "create" <=> ~role[q.r].live
     /\ q.op = "create" => \A o \in InFlight \ {p} : req[o].r = q.r => req[o].op = "create"
     /\ q.add \cap grants[q.r] = {}
     /\ q.op = "delete" => /\ grants[q.r] \subseteq q.drop
                           /\ \A u \in User : <<u, q.r>> \notin held
     /\ role' = CASE q.op = "grant" -> role
                  [] q.op = "create" -> [role EXCEPT ![q.r] = q.fields]
                  [] q.op = "delete" -> [role EXCEPT ![q.r] = Gone]
     /\ grants' = [grants EXCEPT ![q.r] = (@ \ q.drop) \cup q.add]
     /\ asked' = [asked EXCEPT ![q.r] = IF q.op = "delete" THEN {} ELSE q.codes]
     /\ edited' = IF p \in overlap THEN edited \cup {q.r} ELSE edited \ {q.r}
  /\ Commits(p)
  /\ UNCHANGED <<held, user, permission, migrating, disturbed, raced>>

\* Sessions of a deactivated account are revoked in the same transaction: Sessions.
CommitActivation(p) ==
  /\ p \in Open /\ req[p].op \in Activation
  /\ user' = [user EXCEPT ![req[p].u].active = req[p].op = "activate"]
  /\ raced' = (raced \/ p \in overlap)
  /\ Commits(p)
  /\ UNCHANGED <<role, held, grants, permission, migrating, disturbed, edited, asked>>

\* A constraint, a deadlock or a lost connection rolls the transaction back.
Abort(p) == p \in Open /\ Refuse(p)

-----------------------------------------------------------------------------
(* After every migrate: the catalog, the system roles, administrator.       *)

MutSyncCatalog(catalog) ==                  \* deletes, and the grants cascade
  /\ migrating = "no"
  /\ permission' = [c \in Code |-> IF c \in catalog THEN "live" ELSE "absent"]
  /\ grants' = [r \in Roles |-> grants[r] \cap catalog]
  /\ migrating' = "synced"
  /\ UNCHANGED <<role, held, user, req, overlap, history>>
SyncCatalog(catalog) ==
  /\ migrating = "no"
  /\ permission' = [c \in Code |-> IF c \in catalog THEN "live"
                                   ELSE IF permission[c] = "absent" THEN "absent" ELSE "deprecated"]
  /\ migrating' = "synced"
  /\ UNCHANGED <<role, held, user, grants, req, overlap, history>>

\* update_or_create() waits for a request that saves the row.
EnsureSystemRoles ==
  /\ migrating = "synced"
  /\ \A o \in Open : ~(req[o].op = "update" /\ req[o].r = Admin)
  /\ role' = [role EXCEPT ![Admin].elevated = TRUE]
  /\ migrating' = "roles"
  /\ UNCHANGED <<held, user, grants, permission, req, overlap, history>>

RecomputeAdministrator ==
  /\ migrating = "roles"
  /\ grants' = [grants EXCEPT ![Admin] = LiveCodes]
  /\ migrating' = "no"
  /\ UNCHANGED <<role, held, user, permission, req, overlap, history>>

-----------------------------------------------------------------------------
\* What a request carries: the fields of a role, the codes of its grants.
Arrive(p) ==
  \E op \in Ops, by \in User, u \in User, r \in Roles, fields \in RoleRow, codes \in SUBSET Code :
    /\ IF op \in {"update", "create"} THEN fields.live ELSE fields = Gone
    /\ op \notin {"grant", "create"} => codes = {}
    /\ Load(p, op, by, u, r, fields, codes)

Next ==
  \/ \E p \in Proc : \/ Arrive(p)
                     \/ AssignRole(p) \/ RevokeRole(p) \/ UpdateRole(p) \/ DeleteRole(p)
                     \/ SetGrants(p) \/ CreateRole(p) \/ Deactivate(p) \/ Activate(p)
                     \/ CommitRoles(p) \/ CommitGrants(p) \/ CommitActivation(p) \/ Abort(p)
  \/ \E catalog \in SUBSET Code : SyncCatalog(catalog)
  \/ EnsureSystemRoles \/ RecomputeAdministrator

Spec == Init /\ [][Next]_vars
-----------------------------------------------------------------------------
\* What rbac/services.py and users/services/users.py promise.

\* Rows, requests and histories have their types.
TypeOK ==
  /\ role \in [Roles -> RoleRow]
  /\ held \subseteq User \X Roles
  /\ user \in [User -> UserRow]
  /\ grants \in [Roles -> SUBSET Code]
  /\ permission \in [Code -> {"absent", "live", "deprecated"}]
  /\ migrating \in {"no", "synced", "roles"}
  /\ req \in [Proc -> {Idle} \cup Request]
  /\ overlap \subseteq Proc /\ disturbed \subseteq User /\ edited \subseteq Roles /\ raced \in BOOLEAN
  /\ asked \in [Roles -> SUBSET Code]

\* MFA is enforced exactly for who holds a role that requires it, for every user
\* whose last change of roles saw no other commit between its load and its own: an
\* overlap can leave the flag wrong, and the next change alone repairs it (recompute_mfa_enforcement, services.py:211).
EnforcementIsDerived ==
  \A u \in User \ disturbed : user[u].enforced = Demands(u, held, role)

\* A role grants what its last save asked for, whatever left the catalog and came
\* back in between, unless another save committed inside that one; administrator holds
\* every live code (_replace_grants, services.py:152; sync_catalog, seeding.py:65).
GrantsAreAsAsked ==
  /\ \A r \in Role \ edited : grants[r] = asked[r]
  /\ migrating = "no" => grants[Admin] = LiveCodes

\* Some superuser stays active unless an activation or deactivation overlapped another
\* (deactivate, users.py:79).
ASuperuserRemains == raced \/ \E u \in User : user[u].super /\ user[u].active
=============================================================================
