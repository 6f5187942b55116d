---------------------------- MODULE AccessProofs ----------------------------
(* Proofs about roles, grants and account activation: Access, as MCAccess    *)
(* instantiates it, for any requests (Access!Spec).                          *)
EXTENDS MCAccess, TLAPS

-----------------------------------------------------------------------------
(* The inductive invariant.                                                  *)

\* Who holds a role keeps it from being deleted, and administrator is never deleted.
HoldersHaveRoles ==
  /\ role[Admin].live
  /\ \A u \in User, r \in Rbac!Roles : <<u, r>> \in held => role[r].live

\* Nobody is said to have been overlapped but a request in flight.
OverlapsAreInFlight == \A p \in overlap : req[p] # Rbac!Idle

\* What every request is sent and has decided, overlapped or not.
WellFormed(q) ==
  /\ q.op \in {"update", "create"} => q.fields.live
  /\ q.op \in {"assign", "revoke"} => \A x \in DOMAIN q.enforce : x = q.u
  /\ q.op \in Rbac!GrantChange /\ q.phase = "open" => q.r # Admin
  /\ q.op = "delete" => q.add = {}
  /\ q.user.super = user[q.u].super

\* A copy that no commit has overtaken says what the rows say.
CopyIsFresh(q) ==
  /\ q.op \in {"assign", "revoke"} => q.user.enforced = user[q.u].enforced
  /\ q.op = "update" => \A x \in User : <<x, q.r>> \in held => role[q.r].mfa = q.role.mfa
  /\ q.op \in Rbac!Activation => q.user.active = user[q.u].active

\* MFA of x once request q has committed.
Final(q, x) == IF x \in DOMAIN q.enforce THEN q.enforce[x] ELSE user[x].enforced

\* An open transaction that no commit has overtaken will write what is right.
WritesFit(q) ==
  /\ q.op = "assign" /\ role[q.r].live =>
       (Final(q, q.u) <=> Rbac!Demands(q.u, held \cup {<<q.u, q.r>>}, role))
  /\ q.op = "revoke" =>
       (Final(q, q.u) <=> Rbac!Demands(q.u, held \ {<<q.u, q.r>>}, role))
  /\ q.op = "update" =>
       \A x \in User \ disturbed :
         Final(q, x) <=> Rbac!Demands(x, held, [role EXCEPT ![q.r] = q.fields])
  /\ q.op \in {"grant", "create"} => q.add = q.codes \ grants[q.r] /\ q.drop = grants[q.r] \ q.codes
  /\ q.op = "delete" => q.drop = grants[q.r]
  /\ q.op = "deactivate" /\ q.user.super /\ q.user.active =>
       \E x \in User \ {q.u} : user[x].super /\ user[x].active

RequestOK(p) ==
  req[p] # Rbac!Idle =>
    /\ WellFormed(req[p])
    /\ p \notin overlap => CopyIsFresh(req[p])
    /\ p \notin overlap /\ req[p].phase = "open" => WritesFit(req[p])

AccessInv ==
  /\ Rbac!TypeOK
  /\ HoldersHaveRoles
  /\ OverlapsAreInFlight
  /\ \A p \in Proc : RequestOK(p)
  /\ Rbac!EnforcementIsDerived
  /\ Rbac!GrantsAreAsAsked
  /\ Rbac!ASuperuserRemains

-----------------------------------------------------------------------------
(* Types.                                                                    *)

Enforcements == UNION {[S -> BOOLEAN] : S \in SUBSET User}

\* What a request in flight is made of.
LEMMA RequestTypes ==
  ASSUME Rbac!TypeOK, NEW p \in Proc, req[p] # Rbac!Idle
  PROVE  /\ req[p] \in Rbac!Request
         /\ req[p].op \in Rbac!Ops /\ req[p].phase \in {"loaded", "open"}
         /\ req[p].by \in User /\ req[p].u \in User /\ req[p].r \in Rbac!Roles
         /\ req[p].user \in Rbac!UserRow /\ req[p].role \in Rbac!RoleRow /\ req[p].fields \in Rbac!RoleRow
         /\ req[p].codes \in SUBSET Code /\ req[p].add \in SUBSET Code /\ req[p].drop \in SUBSET Code
         /\ req[p].enforce \in Enforcements
BY DEF Rbac!TypeOK, Rbac!Request, Rbac!Phases, Enforcements

\* The initial states: Root alone holds a role, and nobody's MFA is enforced.
LEMMA AccessStart == Rbac!Init => AccessInv
<1> SUFFICES ASSUME Rbac!Init PROVE AccessInv
  OBVIOUS
<1> USE AccessAssumption DEF Rbac!Init, Rbac!AccountsAssumption, Rbac!RolesAssumption
<1>1. PICK made \in SUBSET Role :
        role = [r \in Rbac!Roles |-> [live |-> r \in made \cup {Admin}, elevated |-> r = Admin, mfa |-> FALSE]]
  OBVIOUS
<1>2. PICK others \in SUBSET User :
        user = [u \in User |-> [active |-> TRUE, super |-> u \in {Root} \cup others, enforced |-> FALSE]]
  OBVIOUS
<1>3. role \in [Rbac!Roles -> Rbac!RoleRow] /\ user \in [User -> Rbac!UserRow]
  BY <1>1, <1>2 DEF Rbac!RoleRow, Rbac!UserRow
<1>4. held \subseteq User \X Rbac!Roles /\ grants \in [Rbac!Roles -> SUBSET Code]
  BY DEF Rbac!Roles
<1>5. /\ permission \in [Code -> {"absent", "live", "deprecated"}]
      /\ req \in [Proc -> {Rbac!Idle} \cup Rbac!Request]
      /\ asked \in [Rbac!Roles -> SUBSET Code]
      /\ \A p \in Proc : req[p] = Rbac!Idle
  OBVIOUS
<1>6. overlap = {} /\ disturbed = {} /\ edited = {} /\ migrating = "no"
  OBVIOUS
<1>7. raced \in BOOLEAN
  OBVIOUS
<1>8. Rbac!TypeOK
  BY <1>3, <1>4, <1>5, <1>6, <1>7 DEF Rbac!TypeOK
<1>9. HoldersHaveRoles
  BY <1>1 DEF HoldersHaveRoles, Rbac!Roles
<1>10. OverlapsAreInFlight /\ \A p \in Proc : RequestOK(p)
  BY <1>5, <1>6 DEF OverlapsAreInFlight, RequestOK
<1>11. Rbac!EnforcementIsDerived
  <2>1. \A u \in User : user[u].enforced = FALSE
    BY <1>2
  <2>2. \A r \in Rbac!Roles : role[r].mfa = FALSE
    BY <1>1
  <2>3. ASSUME NEW u \in User PROVE user[u].enforced = Rbac!Demands(u, held, role)
    <3>1. ~Rbac!Demands(u, held, role)
      BY <2>2 DEF Rbac!Demands
    <3>2. Rbac!Demands(u, held, role) = FALSE
      <4>1. Rbac!Demands(u, held, role) \in BOOLEAN
        BY DEF Rbac!Demands
      <4> QED BY <3>1, <4>1
    <3> QED BY <2>1, <3>2
  <2> QED BY <2>3 DEF Rbac!EnforcementIsDerived
<1>12. Rbac!GrantsAreAsAsked
  BY DEF Rbac!GrantsAreAsAsked, Rbac!Roles, Rbac!LiveCodes
<1>13. Rbac!ASuperuserRemains
  BY <1>2 DEF Rbac!ASuperuserRemains
<1> QED BY <1>8, <1>9, <1>10, <1>11, <1>12, <1>13 DEF AccessInv

\* What MFA the roles of x demand depends on the roles x holds, and on their flag.
LEMMA DemandsDependOnRolesHeld ==
  ASSUME NEW x, NEW h, NEW h2, NEW t, NEW t2,
         \A r \in Rbac!Roles : (<<x, r>> \in h <=> <<x, r>> \in h2),
         \A r \in Rbac!Roles : <<x, r>> \in h => t[r].mfa = t2[r].mfa
  PROVE  Rbac!Demands(x, h, t) <=> Rbac!Demands(x, h2, t2)
BY DEF Rbac!Demands

\* recompute_mfa_enforcement() writes where the loaded copy is wrong, and nowhere else.
LEMMA RecomputedIsRight ==
  ASSUME NEW u \in User, NEW loaded \in BOOLEAN, NEW h, NEW t,
         NEW e, e = Rbac!Recomputed(u, loaded, h, t)
  PROVE  /\ e \in Enforcements
         /\ \A x \in DOMAIN e : x = u
         /\ (IF u \in DOMAIN e THEN e[u] ELSE loaded) <=> Rbac!Demands(u, h, t)
<1> DEFINE D == Rbac!Demands(u, h, t)
           S == {y \in {u} : loaded # D}
<1>1. e = [x \in S |-> D] /\ S \subseteq {u}
  BY DEF Rbac!Recomputed
<1>2. D \in BOOLEAN
  BY DEF Rbac!Demands
<1>3. u \in S <=> loaded # D
  OBVIOUS
<1> HIDE DEF D, S
<1>4. e \in [S -> BOOLEAN] /\ S \in SUBSET User
  BY <1>1, <1>2
<1>5. e \in Enforcements
  BY <1>4 DEF Enforcements
<1>6. (IF u \in DOMAIN e THEN e[u] ELSE loaded) <=> D
  BY <1>1, <1>2, <1>3
<1>7. \A x \in DOMAIN e : x = u
  BY <1>1
<1> QED BY <1>5, <1>6, <1>7 DEF D

-----------------------------------------------------------------------------
(* Requests go on: they arrive, are refused, or open their transaction.      *)

Still == /\ UNCHANGED <<role, held, user, grants, permission>> /\ UNCHANGED migrating
         /\ UNCHANGED <<disturbed, edited, raced, asked>>

\* The request of p becomes o, which is as the invariant wants it; no row changes.
Proceeds(p) ==
  /\ \E o \in Rbac!Request :
       /\ req' = [req EXCEPT ![p] = o]
       /\ WellFormed(o)
       /\ p \notin overlap => CopyIsFresh(o)
       /\ p \notin overlap /\ o.phase = "open" => WritesFit(o)
  /\ Still /\ UNCHANGED overlap

\* A request that arrives has copies of what is there.
LEMMA ArrivalsProceed ==
  ASSUME AccessInv, NEW p \in Proc, Rbac!Arrive(p)
  PROVE  Proceeds(p)
<1>1. PICK kind \in Rbac!Ops, by \in User, u \in User, r \in Rbac!Roles, fields \in Rbac!RoleRow,
           codes \in SUBSET Code :
        /\ kind \in {"update", "create"} => fields.live
        /\ Rbac!Load(p, kind, by, u, r, fields, codes)
  BY DEF Rbac!Arrive
<1> DEFINE o == [op |-> kind, phase |-> "loaded", by |-> by, u |-> u, r |-> r,
                 user |-> user[u], role |-> role[r], fields |-> fields, codes |-> codes,
                 enforce |-> Rbac!Nobody, add |-> {}, drop |-> {}]
<1>2. req' = [req EXCEPT ![p] = o] /\ Still /\ UNCHANGED overlap
  BY <1>1 DEF Rbac!Load, Still, Rbac!rows, Rbac!history
<1>3. user[u] \in Rbac!UserRow /\ role[r] \in Rbac!RoleRow
  BY DEF AccessInv, Rbac!TypeOK
<1>4. Rbac!Nobody \in Enforcements /\ \A x \in DOMAIN Rbac!Nobody : FALSE
  <2>1. {} \in SUBSET User /\ Rbac!Nobody \in [{} -> BOOLEAN]
    BY DEF Rbac!Nobody
  <2> QED BY <2>1 DEF Rbac!Nobody, Enforcements
<1>5. o \in Rbac!Request
  BY <1>3, <1>4 DEF Rbac!Request, Rbac!Phases, Enforcements
<1>6. WellFormed(o)
  BY <1>1, <1>4 DEF WellFormed
<1>7. CopyIsFresh(o)
  BY DEF CopyIsFresh
<1>8. o.phase = "loaded"
  OBVIOUS
<1> HIDE DEF o
<1> QED BY <1>2, <1>5, <1>6, <1>7, <1>8 DEF Proceeds

\* What a service knows of the request it serves.
LEMMA Served ==
  ASSUME AccessInv, NEW p \in Proc, NEW kind, Rbac!Service(p, kind)
  PROVE  /\ req[p] \in Rbac!Request /\ req[p].op = kind
         /\ req[p].u \in User /\ req[p].r \in Rbac!Roles
         /\ req[p].user \in Rbac!UserRow /\ req[p].codes \in SUBSET Code
         /\ WellFormed(req[p])
         /\ p \notin overlap => CopyIsFresh(req[p])
<1>1. req[p] # Rbac!Idle /\ req[p].op = kind
  BY DEF Rbac!Service
<1>2. Rbac!TypeOK /\ RequestOK(p)
  BY DEF AccessInv
<1> QED BY <1>1, <1>2, RequestTypes DEF RequestOK

\* assign_role() and revoke_role() write the flag the roles the user will hold demand.
LEMMA PairsProceed ==
  ASSUME AccessInv, NEW p \in Proc, Rbac!AssignRole(p) \/ Rbac!RevokeRole(p)
  PROVE  Proceeds(p) \/ Rbac!Refuse(p)
<1> SUFFICES ASSUME ~Rbac!Refuse(p) PROVE Proceeds(p)
  OBVIOUS
<1> DEFINE q == req[p]
           h == IF q.op = "assign" THEN held \cup {<<q.u, q.r>>} ELSE held \ {<<q.u, q.r>>}
           e == Rbac!Recomputed(q.u, q.user.enforced, h, role)
           o == [[q EXCEPT !.enforce = e] EXCEPT !.phase = "open"]
<1>1. \/ Rbac!Service(p, "assign") /\ q.op = "assign"
      \/ Rbac!Service(p, "revoke") /\ q.op = "revoke"
  BY DEF Rbac!AssignRole, Rbac!RevokeRole, Rbac!Service
<1>2. /\ q \in Rbac!Request /\ q.op \in {"assign", "revoke"} /\ q.u \in User /\ q.user \in Rbac!UserRow
      /\ WellFormed(q)
      /\ p \notin overlap => CopyIsFresh(q)
  BY <1>1, Served
<1>4. req' = [req EXCEPT ![p] = o] /\ Still /\ UNCHANGED overlap
  <2>1. CASE q.op = "assign"
    <3>1. Rbac!Opens(p, [q EXCEPT !.enforce =
            Rbac!Recomputed(q.u, q.user.enforced, held \cup {<<q.u, q.r>>}, role)])
      BY <2>1 DEF Rbac!AssignRole, Rbac!RevokeRole, Rbac!Service
    <3> QED BY <2>1, <3>1 DEF Rbac!Opens, Still, Rbac!rows, Rbac!history
  <2>2. CASE q.op = "revoke"
    <3>1. Rbac!Opens(p, [q EXCEPT !.enforce =
            Rbac!Recomputed(q.u, q.user.enforced, held \ {<<q.u, q.r>>}, role)])
      BY <2>2 DEF Rbac!AssignRole, Rbac!RevokeRole, Rbac!Service
    <3> QED BY <2>2, <3>1 DEF Rbac!Opens, Still, Rbac!rows, Rbac!history
  <2> QED BY <1>2, <2>1, <2>2
<1>5. q.user.enforced \in BOOLEAN
  BY <1>2 DEF Rbac!UserRow
<1> HIDE DEF h
<1>6. /\ e \in Enforcements
      /\ \A x \in DOMAIN e : x = q.u
      /\ (IF q.u \in DOMAIN e THEN e[q.u] ELSE q.user.enforced) <=> Rbac!Demands(q.u, h, role)
  <2> HIDE DEF q
  <2> QED BY <1>2, <1>5, RecomputedIsRight
<1> HIDE DEF e
<1>7. /\ o \in Rbac!Request /\ o.phase = "open" /\ o.enforce = e
      /\ o.op = q.op /\ o.u = q.u /\ o.r = q.r /\ o.user = q.user /\ o.role = q.role
      /\ o.fields = q.fields /\ o.codes = q.codes /\ o.add = q.add /\ o.drop = q.drop
  BY <1>2, <1>6 DEF Rbac!Request, Rbac!Phases, Enforcements
<1> HIDE DEF q, o
<1>8. WellFormed(o)
  BY <1>2, <1>6, <1>7 DEF WellFormed, Rbac!GrantChange
<1>9. p \notin overlap => CopyIsFresh(o)
  BY <1>2, <1>7 DEF CopyIsFresh
<1>10. ASSUME p \notin overlap PROVE WritesFit(o)
  <2>1. q.user.enforced = user[q.u].enforced
    BY <1>2, <1>10 DEF CopyIsFresh
  <2>2. Final(o, o.u) <=> Rbac!Demands(o.u, h, role)
    BY <1>6, <1>7, <2>1 DEF Final
  <2>3. /\ o.op = "assign" => h = held \cup {<<o.u, o.r>>}
        /\ o.op = "revoke" => h = held \ {<<o.u, o.r>>}
    BY <1>2, <1>7 DEF h, q
  <2> QED BY <1>2, <1>7, <2>2, <2>3 DEF WritesFit
<1> QED BY <1>4, <1>7, <1>8, <1>9, <1>10 DEF Proceeds

\* set_role_grants() and create_role() write the difference to what is there.
LEMMA GrantsProceed ==
  ASSUME AccessInv, NEW p \in Proc, Rbac!SetGrants(p) \/ Rbac!CreateRole(p)
  PROVE  Proceeds(p) \/ Rbac!Refuse(p)
<1> SUFFICES ASSUME ~Rbac!Refuse(p) PROVE Proceeds(p)
  OBVIOUS
<1> DEFINE q == req[p]
           a == q.codes \ grants[q.r]
           d == grants[q.r] \ q.codes
           o == [[q EXCEPT !.add = a, !.drop = d] EXCEPT !.phase = "open"]
<1>1. \/ Rbac!Service(p, "grant") /\ q.op = "grant"
      \/ Rbac!Service(p, "create") /\ q.op = "create"
  BY DEF Rbac!SetGrants, Rbac!CreateRole, Rbac!Service
<1>2. /\ q \in Rbac!Request /\ q.op \in {"grant", "create"} /\ q.r \in Rbac!Roles
      /\ q.codes \in SUBSET Code
      /\ WellFormed(q)
      /\ p \notin overlap => CopyIsFresh(q)
  BY <1>1, Served
<1>3. Rbac!Opens(p, Rbac!Replaces(q, q.codes))
  BY DEF Rbac!SetGrants, Rbac!CreateRole
<1>4. req' = [req EXCEPT ![p] = o] /\ Still /\ UNCHANGED overlap
  BY <1>3 DEF Rbac!Opens, Rbac!Replaces, Still, Rbac!rows, Rbac!history
<1>5. q.r # Admin
  <2>1. CASE Rbac!SetGrants(p)
    BY <2>1 DEF Rbac!SetGrants
  <2>2. CASE Rbac!CreateRole(p)
    <3>1. ~role[q.r].live
      BY <2>2 DEF Rbac!CreateRole
    <3> QED BY <3>1 DEF AccessInv, HoldersHaveRoles
  <2> QED BY <2>1, <2>2
<1>6. a \in SUBSET Code /\ d \in SUBSET Code
  BY <1>2 DEF AccessInv, Rbac!TypeOK
<1> HIDE DEF a, d
<1>7. /\ o \in Rbac!Request /\ o.phase = "open" /\ o.add = a /\ o.drop = d
      /\ o.op = q.op /\ o.u = q.u /\ o.r = q.r /\ o.user = q.user /\ o.role = q.role
      /\ o.fields = q.fields /\ o.codes = q.codes /\ o.enforce = q.enforce
  BY <1>2, <1>6 DEF Rbac!Request, Rbac!Phases, Enforcements
<1> HIDE DEF q, o
<1>8. WellFormed(o)
  BY <1>2, <1>5, <1>7 DEF WellFormed
<1>9. p \notin overlap => CopyIsFresh(o)
  BY <1>2, <1>7 DEF CopyIsFresh
<1>10. WritesFit(o)
  BY <1>2, <1>7 DEF WritesFit, a, d
<1> QED BY <1>4, <1>7, <1>8, <1>9, <1>10 DEF Proceeds

\* delete_role() takes the grants with it.
LEMMA DeletionProceeds ==
  ASSUME AccessInv, NEW p \in Proc, Rbac!DeleteRole(p)
  PROVE  Proceeds(p) \/ Rbac!Refuse(p)
<1> SUFFICES ASSUME ~Rbac!Refuse(p) PROVE Proceeds(p)
  OBVIOUS
<1> DEFINE q == req[p]
           d == grants[q.r]
           o == [[q EXCEPT !.drop = d] EXCEPT !.phase = "open"]
<1>1. Rbac!Service(p, "delete") /\ q.op = "delete" /\ q.r # Admin
  BY DEF Rbac!DeleteRole, Rbac!Service
<1>2. /\ q \in Rbac!Request /\ q.r \in Rbac!Roles
      /\ WellFormed(q)
      /\ p \notin overlap => CopyIsFresh(q)
  BY <1>1, Served
<1>3. Rbac!Opens(p, [q EXCEPT !.drop = grants[q.r]])
  BY DEF Rbac!DeleteRole
<1>4. req' = [req EXCEPT ![p] = o] /\ Still /\ UNCHANGED overlap
  BY <1>3 DEF Rbac!Opens, Still, Rbac!rows, Rbac!history
<1>6. d \in SUBSET Code
  BY <1>2 DEF AccessInv, Rbac!TypeOK
<1> HIDE DEF d
<1>7. /\ o \in Rbac!Request /\ o.phase = "open" /\ o.drop = d /\ o.add = q.add
      /\ o.op = q.op /\ o.u = q.u /\ o.r = q.r /\ o.user = q.user /\ o.role = q.role
      /\ o.fields = q.fields /\ o.codes = q.codes /\ o.enforce = q.enforce
  BY <1>2, <1>6 DEF Rbac!Request, Rbac!Phases, Enforcements
<1> HIDE DEF q, o
<1>8. WellFormed(o)
  BY <1>1, <1>2, <1>7 DEF WellFormed
<1>9. p \notin overlap => CopyIsFresh(o)
  BY <1>2, <1>7 DEF CopyIsFresh
<1>10. WritesFit(o)
  BY <1>1, <1>2, <1>7 DEF WritesFit, d
<1> QED BY <1>4, <1>7, <1>8, <1>9, <1>10 DEF Proceeds

\* Saving a role changes nothing for who does not hold it, nor when its flag stays.
LEMMA SavedRoleDemands ==
  ASSUME Rbac!TypeOK, NEW r \in Rbac!Roles, NEW f, NEW x,
         <<x, r>> \in held => f.mfa = role[r].mfa
  PROVE  Rbac!Demands(x, held, [role EXCEPT ![r] = f]) <=> Rbac!Demands(x, held, role)
<1> DEFINE t == [role EXCEPT ![r] = f]
<1>1. t[r] = f /\ \A s \in Rbac!Roles : s # r => t[s] = role[s]
  BY DEF Rbac!TypeOK
<1> HIDE DEF t
<1>2. \A s \in Rbac!Roles : <<x, s>> \in held => role[s].mfa = t[s].mfa
  BY <1>1
<1>3. Rbac!Demands(x, held, role) <=> Rbac!Demands(x, held, t)
  BY <1>2, DemandsDependOnRolesHeld
<1> QED BY <1>3 DEF t

\* update_role() corrects the holders of the role when its flag changes.
LEMMA UpdateProceeds ==
  ASSUME AccessInv, NEW p \in Proc, Rbac!UpdateRole(p)
  PROVE  Proceeds(p) \/ Rbac!Refuse(p)
<1> SUFFICES ASSUME ~Rbac!Refuse(p) PROVE Proceeds(p)
  OBVIOUS
<1> DEFINE q == req[p]
           t == [role EXCEPT ![q.r] = q.fields]
           wrong == {u \in {v \in User : <<v, q.r>> \in held} : user[u].enforced # Rbac!Demands(u, held, t)}
           w == [u \in wrong |-> Rbac!Demands(u, held, t)]
           e == IF q.fields.mfa # q.role.mfa THEN w ELSE Rbac!Nobody
           o == [[q EXCEPT !.enforce = e] EXCEPT !.phase = "open"]
<1>1. Rbac!Service(p, "update") /\ q.op = "update"
  BY DEF Rbac!UpdateRole, Rbac!Service
<1>2. /\ q \in Rbac!Request /\ q.r \in Rbac!Roles
      /\ WellFormed(q)
      /\ p \notin overlap => CopyIsFresh(q)
  BY <1>1, Served
<1>3. Rbac!TypeOK /\ Rbac!EnforcementIsDerived
  BY DEF AccessInv
<1>4. req' = [req EXCEPT ![p] = o] /\ Still /\ UNCHANGED overlap
  <2>1. Rbac!Opens(p, [q EXCEPT !.enforce = e])
    BY DEF Rbac!UpdateRole
  <2> HIDE DEF e
  <2> QED BY <2>1 DEF Rbac!Opens, Still, Rbac!rows, Rbac!history
<1>5. \A x : Rbac!Demands(x, held, t) \in BOOLEAN
  BY DEF Rbac!Demands
<1>6. wrong \in SUBSET User /\ w \in [wrong -> BOOLEAN]
  <2> HIDE DEF t
  <2> QED BY <1>5
<1>7. {} \in SUBSET User /\ Rbac!Nobody \in [{} -> BOOLEAN] /\ DOMAIN Rbac!Nobody = {}
  BY DEF Rbac!Nobody
<1>8. e \in Enforcements
  <2> HIDE DEF wrong, w
  <2> QED BY <1>6, <1>7 DEF Enforcements
<1>9. \A x \in User : <<x, q.r>> \notin held => (Rbac!Demands(x, held, t) <=> Rbac!Demands(x, held, role))
  <2> HIDE DEF q
  <2> QED BY <1>2, <1>3, SavedRoleDemands
<1>10. ASSUME p \notin overlap, NEW x \in User \ disturbed
       PROVE  (IF x \in DOMAIN e THEN e[x] ELSE user[x].enforced) <=> Rbac!Demands(x, held, t)
  <2>1. user[x].enforced <=> Rbac!Demands(x, held, role)
    BY <1>3 DEF Rbac!EnforcementIsDerived
  <2>2. user[x].enforced \in BOOLEAN
    BY <1>3 DEF Rbac!TypeOK, Rbac!UserRow
  <2>3. CASE q.fields.mfa # q.role.mfa
    <3>1. e = w /\ DOMAIN w = wrong /\ \A u \in wrong : w[u] = Rbac!Demands(u, held, t)
      BY <2>3
    <3>2. x \in wrong <=> <<x, q.r>> \in held /\ user[x].enforced # Rbac!Demands(x, held, t)
      OBVIOUS
    <3>3. CASE x \in wrong
      <4> HIDE DEF wrong, w, e, t
      <4> QED BY <3>1, <3>3
    <3>4. CASE x \notin wrong
      <4> HIDE DEF wrong, w, e, t
      <4>1. (IF x \in DOMAIN e THEN e[x] ELSE user[x].enforced) = user[x].enforced
        BY <3>1, <3>4
      <4>2. CASE <<x, q.r>> \in held
        BY <3>2, <3>4, <4>1, <4>2
      <4>3. CASE <<x, q.r>> \notin held
        BY <1>9, <2>1, <4>1, <4>3
      <4> QED BY <4>2, <4>3
    <3> QED BY <3>3, <3>4
  <2>4. CASE q.fields.mfa = q.role.mfa
    <3>1. e = Rbac!Nobody
      BY <2>4
    <3>2. <<x, q.r>> \in held => q.fields.mfa = role[q.r].mfa
      BY <1>1, <1>2, <1>10, <2>4 DEF CopyIsFresh
    <3> HIDE DEF e
    <3>3. Rbac!Demands(x, held, t) <=> Rbac!Demands(x, held, role)
      <4> HIDE DEF q
      <4> QED BY <1>2, <1>3, <3>2, SavedRoleDemands
    <3> HIDE DEF t
    <3> QED BY <1>7, <2>1, <3>1, <3>3
  <2> QED BY <2>3, <2>4
<1> HIDE DEF wrong, w, e
<1>11. /\ o \in Rbac!Request /\ o.phase = "open" /\ o.enforce = e
       /\ o.op = q.op /\ o.u = q.u /\ o.r = q.r /\ o.user = q.user /\ o.role = q.role
       /\ o.fields = q.fields /\ o.codes = q.codes /\ o.add = q.add /\ o.drop = q.drop
  BY <1>2, <1>8 DEF Rbac!Request, Rbac!Phases, Enforcements
<1> HIDE DEF q, o
<1>12. WellFormed(o)
  BY <1>1, <1>2, <1>11 DEF WellFormed, Rbac!GrantChange
<1>13. p \notin overlap => CopyIsFresh(o)
  BY <1>1, <1>2, <1>11 DEF CopyIsFresh
<1>14. ASSUME p \notin overlap PROVE WritesFit(o)
  <2>1. \A x \in User \ disturbed : Final(o, x) <=> Rbac!Demands(x, held, [role EXCEPT ![o.r] = o.fields])
    BY <1>10, <1>11, <1>14 DEF Final
  <2> QED BY <1>1, <1>11, <2>1 DEF WritesFit
<1> QED BY <1>4, <1>11, <1>12, <1>13, <1>14 DEF Proceeds

\* deactivate() found another superuser, unless a commit came after what it loaded.
LEMMA ActivationsProceed ==
  ASSUME AccessInv, NEW p \in Proc, Rbac!Deactivate(p) \/ Rbac!Activate(p)
  PROVE  Proceeds(p) \/ Rbac!Refuse(p)
<1> SUFFICES ASSUME ~Rbac!Refuse(p) PROVE Proceeds(p)
  OBVIOUS
<1> DEFINE q == req[p]
           o == [q EXCEPT !.phase = "open"]
<1>1. \/ Rbac!Service(p, "deactivate") /\ q.op = "deactivate" /\ ~Rbac!LastSuperuser(q)
      \/ Rbac!Service(p, "activate") /\ q.op = "activate"
  BY DEF Rbac!Deactivate, Rbac!Activate, Rbac!Service
<1>2. /\ q \in Rbac!Request /\ q.op \in {"deactivate", "activate"}
      /\ WellFormed(q)
      /\ p \notin overlap => CopyIsFresh(q)
  BY <1>1, Served
<1>3. Rbac!Opens(p, q)
  BY DEF Rbac!Deactivate, Rbac!Activate
<1>4. req' = [req EXCEPT ![p] = o] /\ Still /\ UNCHANGED overlap
  BY <1>3 DEF Rbac!Opens, Still, Rbac!rows, Rbac!history
<1>5. q.op = "deactivate" /\ q.user.super /\ q.user.active =>
        \E x \in User \ {q.u} : user[x].super /\ user[x].active
  BY <1>1 DEF Rbac!LastSuperuser
<1>6. /\ o \in Rbac!Request /\ o.phase = "open" /\ o.enforce = q.enforce
      /\ o.op = q.op /\ o.u = q.u /\ o.r = q.r /\ o.user = q.user /\ o.role = q.role
      /\ o.fields = q.fields /\ o.codes = q.codes /\ o.add = q.add /\ o.drop = q.drop
  BY <1>2 DEF Rbac!Request, Rbac!Phases
<1> HIDE DEF q, o
<1>7. WellFormed(o)
  BY <1>2, <1>6 DEF WellFormed, Rbac!GrantChange
<1>8. p \notin overlap => CopyIsFresh(o)
  BY <1>2, <1>6 DEF CopyIsFresh
<1>9. WritesFit(o)
  BY <1>2, <1>5, <1>6 DEF WritesFit
<1> QED BY <1>4, <1>6, <1>7, <1>8, <1>9 DEF Proceeds

\* A request that goes on, or is refused, disturbs no row and no other request.
LEMMA RequestsKeep ==
  ASSUME AccessInv, NEW p \in Proc, Proceeds(p) \/ Rbac!Refuse(p)
  PROVE  AccessInv'
<1>1. Still
  BY DEF Proceeds, Rbac!Refuse, Still, Rbac!rows, Rbac!history
<1> USE <1>1 DEF Still
<1>2. PICK o \in {Rbac!Idle} \cup Rbac!Request :
        /\ req' = [req EXCEPT ![p] = o]
        /\ overlap' \subseteq overlap
        /\ \A x \in Proc \ {p} : x \in overlap => x \in overlap'
        /\ \/ overlap' = overlap \ {p} /\ o = Rbac!Idle
           \/ /\ overlap' = overlap /\ o \in Rbac!Request
              /\ WellFormed(o)
              /\ p \notin overlap => CopyIsFresh(o)
              /\ p \notin overlap /\ o.phase = "open" => WritesFit(o)
  BY DEF Proceeds, Rbac!Refuse
<1>3. Rbac!TypeOK /\ OverlapsAreInFlight /\ \A x \in Proc : RequestOK(x)
  BY DEF AccessInv
<1>4. req \in [Proc -> {Rbac!Idle} \cup Rbac!Request] /\ overlap \subseteq Proc
  BY <1>3 DEF Rbac!TypeOK
<1>5. req' \in [Proc -> {Rbac!Idle} \cup Rbac!Request] /\ overlap' \subseteq Proc
  BY <1>2, <1>4
<1>6. Rbac!TypeOK'
  BY <1>3, <1>5 DEF Rbac!TypeOK
<1>7. HoldersHaveRoles'
  BY DEF AccessInv, HoldersHaveRoles
<1>8. req'[p] = o /\ \A x \in Proc \ {p} : req'[x] = req[x]
  BY <1>2, <1>4
<1>9. \A q \in Rbac!Request : q.op \in Rbac!Ops
  BY DEF Rbac!Request
<1>10. OverlapsAreInFlight'
  <2>1. o \in Rbac!Request => o # Rbac!Idle
    BY <1>9 DEF Rbac!Ops, Rbac!Idle
  <2> QED BY <1>2, <1>3, <1>4, <1>8, <2>1 DEF OverlapsAreInFlight
<1>11. ASSUME NEW x \in Proc PROVE RequestOK(x)'
  <2>1. \A q : WellFormed(q) => WellFormed(q)'
    BY DEF WellFormed
  <2>2. \A q : CopyIsFresh(q) => CopyIsFresh(q)'
    BY DEF CopyIsFresh
  <2>3. \A q, y : Final(q, y)' = Final(q, y)
    BY DEF Final
  <2>4. \A q : WritesFit(q) => WritesFit(q)'
    BY DEF WritesFit, Final, Rbac!Demands
  <2>5. CASE x = p
    BY <1>2, <1>8, <2>1, <2>2, <2>4, <2>5 DEF RequestOK
  <2>6. CASE x # p
    BY <1>2, <1>3, <1>8, <2>1, <2>2, <2>4, <2>6 DEF RequestOK
  <2> QED BY <2>5, <2>6
<1>12. Rbac!EnforcementIsDerived'
  BY DEF AccessInv, Rbac!EnforcementIsDerived, Rbac!Demands
<1>13. Rbac!GrantsAreAsAsked'
  BY DEF AccessInv, Rbac!GrantsAreAsAsked, Rbac!LiveCodes
<1>14. Rbac!ASuperuserRemains'
  BY DEF AccessInv, Rbac!ASuperuserRemains
<1> QED BY <1>6, <1>7, <1>10, <1>11, <1>12, <1>13, <1>14 DEF AccessInv

-----------------------------------------------------------------------------
(* Commits: the request is over, and overtakes those it meets.               *)

\* Whoever is not overtaken by a commit does not meet it, and was not overtaken before.
LEMMA CommitsOvertake ==
  ASSUME AccessInv, NEW p \in Proc, Rbac!Commits(p)
  PROVE  /\ req' \in [Proc -> {Rbac!Idle} \cup Rbac!Request] /\ overlap' \subseteq Proc
         /\ OverlapsAreInFlight'
         /\ \A x \in Proc : req'[x] # Rbac!Idle =>
              /\ x # p /\ req'[x] = req[x]
              /\ x \notin overlap' => x \notin overlap /\ ~Rbac!Meets(req[p], req[x])
<1>1. req \in [Proc -> {Rbac!Idle} \cup Rbac!Request] /\ overlap \subseteq Proc /\ OverlapsAreInFlight
  BY DEF AccessInv, Rbac!TypeOK
<1>2. /\ req' = [req EXCEPT ![p] = Rbac!Idle]
      /\ overlap' = (overlap \ {p}) \cup {o \in Rbac!InFlight \ {p} : Rbac!Meets(req[p], req[o])}
  BY DEF Rbac!Commits
<1>3. req'[p] = Rbac!Idle /\ \A x \in Proc \ {p} : req'[x] = req[x]
  BY <1>1, <1>2
<1>4. req' \in [Proc -> {Rbac!Idle} \cup Rbac!Request] /\ overlap' \subseteq Proc
  BY <1>1, <1>2 DEF Rbac!InFlight
<1>5. \A x \in overlap' : x # p /\ req[x] # Rbac!Idle
  BY <1>1, <1>2 DEF Rbac!InFlight, OverlapsAreInFlight
<1>6. OverlapsAreInFlight'
  BY <1>3, <1>4, <1>5 DEF OverlapsAreInFlight
<1>7. ASSUME NEW x \in Proc, req'[x] # Rbac!Idle
      PROVE  /\ x # p /\ req'[x] = req[x]
             /\ x \notin overlap' => x \notin overlap /\ ~Rbac!Meets(req[p], req[x])
  BY <1>2, <1>3, <1>7 DEF Rbac!InFlight
<1> QED BY <1>4, <1>6, <1>7

\* What a request that commits is.
LEMMA Committing ==
  ASSUME AccessInv, NEW p \in Proc, p \in Rbac!Open
  PROVE  /\ req[p] \in Rbac!Request /\ req[p].phase = "open"
         /\ req[p].op \in Rbac!Ops /\ req[p].u \in User /\ req[p].r \in Rbac!Roles
         /\ req[p].user \in Rbac!UserRow /\ req[p].fields \in Rbac!RoleRow
         /\ req[p].codes \in SUBSET Code /\ req[p].add \in SUBSET Code /\ req[p].drop \in SUBSET Code
         /\ req[p].enforce \in Enforcements
         /\ WellFormed(req[p])
         /\ p \notin overlap => CopyIsFresh(req[p]) /\ WritesFit(req[p])
<1>1. req[p] # Rbac!Idle /\ req[p].phase = "open"
  BY DEF Rbac!Open, Rbac!InFlight
<1>2. Rbac!TypeOK /\ RequestOK(p)
  BY DEF AccessInv
<1> QED BY <1>1, <1>2, RequestTypes DEF RequestOK

\* Two changes of roles that do not meet are of two users.
LEMMA RoleChangesMeet ==
  ASSUME NEW q \in Rbac!Request, NEW o \in Rbac!Request, ~Rbac!Meets(q, o),
         q.op \in Rbac!RoleChange, o.op \in Rbac!RoleChange
  PROVE  q.op # "update" /\ o.op # "update" /\ q.u # o.u
<1>1. q.u \in User /\ o.u \in User
  BY DEF Rbac!Request
<1>2. Rbac!Touches(q) \cap Rbac!Touches(o) = {}
  BY DEF Rbac!Meets
<1> QED BY <1>1, <1>2 DEF Rbac!Touches

\* What a commit of assign_role(), revoke_role() or update_role() writes.
LEMMA RolesWritten ==
  ASSUME AccessInv, NEW p \in Proc, Rbac!CommitRoles(p)
  PROVE  /\ p \in Rbac!Open /\ req[p].op \in Rbac!RoleChange
         /\ req[p].op = "assign" => role[req[p].r].live /\ held' = held \cup {<<req[p].u, req[p].r>>}
         /\ req[p].op = "revoke" => held' = held \ {<<req[p].u, req[p].r>>}
         /\ req[p].op = "update" => held' = held /\ role' = [role EXCEPT ![req[p].r] = req[p].fields]
         /\ req[p].op # "update" => role' = role
         /\ user' \in [User -> Rbac!UserRow]
         /\ \A x \in User : /\ user'[x].enforced = Final(req[p], x)
                            /\ user'[x].super = user[x].super /\ user'[x].active = user[x].active
         /\ p \in overlap => disturbed' = disturbed \cup Rbac!Touches(req[p])
         /\ p \notin overlap => disturbed' = disturbed \ (IF req[p].op = "update" THEN {} ELSE {req[p].u})
         /\ Rbac!Commits(p)
         /\ UNCHANGED <<grants, permission, migrating, edited, raced, asked>>
<1> DEFINE q == req[p]
<1>1. p \in Rbac!Open /\ q.op \in Rbac!RoleChange
  BY DEF Rbac!CommitRoles
<1>2. q.enforce \in Enforcements /\ user \in [User -> Rbac!UserRow]
  BY <1>1, Committing DEF AccessInv, Rbac!TypeOK
<1>3. user' = [u \in User |-> IF u \in DOMAIN q.enforce
                              THEN [user[u] EXCEPT !.enforced = q.enforce[u]] ELSE user[u]]
  BY DEF Rbac!CommitRoles, Rbac!Enforce
<1>4. \A x \in DOMAIN q.enforce : q.enforce[x] \in BOOLEAN
  BY <1>2 DEF Enforcements
<1>5. ASSUME NEW x \in User
      PROVE  /\ user'[x].enforced = Final(q, x) /\ user'[x] \in Rbac!UserRow
             /\ user'[x].super = user[x].super /\ user'[x].active = user[x].active
  <2>1. user[x] \in Rbac!UserRow
    BY <1>2
  <2> HIDE DEF q
  <2> QED BY <1>3, <1>4, <2>1 DEF Final, Rbac!UserRow
<1>6. user' \in [User -> Rbac!UserRow]
  BY <1>3, <1>5
<1> QED BY <1>1, <1>5, <1>6 DEF Rbac!CommitRoles

\* Its effect on the rows: the flags of who it concerns are right, the others' untouched.
LEMMA CommitRolesRows ==
  ASSUME AccessInv, NEW p \in Proc, Rbac!CommitRoles(p)
  PROVE  /\ HoldersHaveRoles' /\ Rbac!EnforcementIsDerived'
         /\ Rbac!GrantsAreAsAsked' /\ Rbac!ASuperuserRemains'
<1> DEFINE q == req[p]
<1>1. /\ p \in Rbac!Open /\ q.op \in Rbac!RoleChange
      /\ q.op = "assign" => role[q.r].live /\ held' = held \cup {<<q.u, q.r>>}
      /\ q.op = "revoke" => held' = held \ {<<q.u, q.r>>}
      /\ q.op = "update" => held' = held /\ role' = [role EXCEPT ![q.r] = q.fields]
      /\ q.op # "update" => role' = role
      /\ \A x \in User : /\ user'[x].enforced = Final(q, x)
                         /\ user'[x].super = user[x].super /\ user'[x].active = user[x].active
      /\ p \in overlap => disturbed' = disturbed \cup Rbac!Touches(q)
      /\ p \notin overlap => disturbed' = disturbed \ (IF q.op = "update" THEN {} ELSE {q.u})
      /\ UNCHANGED <<grants, permission, migrating, edited, raced, asked>>
  BY RolesWritten
<1>2. /\ q \in Rbac!Request /\ q.u \in User /\ q.r \in Rbac!Roles
      /\ q.fields \in Rbac!RoleRow /\ WellFormed(q)
      /\ p \notin overlap => WritesFit(q)
  BY <1>1, Committing
<1> HIDE DEF q
<1>3. /\ Rbac!TypeOK /\ HoldersHaveRoles /\ Rbac!EnforcementIsDerived
      /\ Rbac!GrantsAreAsAsked /\ Rbac!ASuperuserRemains
  BY DEF AccessInv
<1>4. role \in [Rbac!Roles -> Rbac!RoleRow] /\ q.op \in {"assign", "revoke", "update"}
  BY <1>1, <1>3 DEF Rbac!TypeOK, Rbac!RoleChange
<1>5. HoldersHaveRoles'
  <2>1. q.op = "update" => q.fields.live
    BY <1>2 DEF WellFormed
  <2>2. \A r \in Rbac!Roles : role[r].live => role'[r].live
    BY <1>1, <1>2, <1>4, <2>1
  <2>3. \A u, r : <<u, r>> \in held' => <<u, r>> \in held \/ (r = q.r /\ role[q.r].live)
    BY <1>1, <1>4
  <2>4. Admin \in Rbac!Roles
    BY DEF Rbac!Roles
  <2> QED BY <1>2, <1>3, <2>2, <2>3, <2>4 DEF HoldersHaveRoles
<1>6. ASSUME NEW x \in User, x \notin disturbed, x # q.u, q.op # "update"
      PROVE  Final(q, x) <=> Rbac!Demands(x, held', role')
  <2>1. x \notin DOMAIN q.enforce
    BY <1>2, <1>4, <1>6 DEF WellFormed
  <2>2. user[x].enforced <=> Rbac!Demands(x, held, role)
    BY <1>3, <1>6 DEF Rbac!EnforcementIsDerived
  <2>3. \A r : <<x, r>> \in held <=> <<x, r>> \in held'
    BY <1>1, <1>4, <1>6
  <2>4. Rbac!Demands(x, held, role) <=> Rbac!Demands(x, held', role')
    <3>1. role' = role
      BY <1>1, <1>6
    <3> QED BY <2>3, <3>1, DemandsDependOnRolesHeld
  <2> QED BY <2>1, <2>2, <2>4 DEF Final
<1>7. ASSUME NEW x \in User, x \notin disturbed'
      PROVE  Final(q, x) <=> Rbac!Demands(x, held', role')
  <2>1. CASE p \in overlap
    <3>1. x \notin disturbed /\ x \notin Rbac!Touches(q)
      BY <1>1, <1>7, <2>1
    <3>2. q.op # "update" /\ x # q.u
      BY <3>1 DEF Rbac!Touches
    <3> QED BY <1>6, <3>1, <3>2
  <2>2. CASE p \notin overlap /\ q.op = "update"
    <3>1. x \in User \ disturbed
      BY <1>1, <1>7, <2>2
    <3>2. held' = held /\ role' = [role EXCEPT ![q.r] = q.fields]
      BY <1>1, <2>2
    <3> QED BY <1>2, <2>2, <3>1, <3>2 DEF WritesFit
  <2>3. CASE p \notin overlap /\ q.op # "update" /\ x # q.u
    <3>1. x \notin disturbed
      BY <1>1, <1>7, <2>3
    <3> QED BY <1>6, <2>3, <3>1
  <2>4. CASE p \notin overlap /\ q.op = "assign" /\ x = q.u
    <3>1. role' = role /\ held' = held \cup {<<q.u, q.r>>} /\ role[q.r].live
      BY <1>1, <2>4
    <3> QED BY <1>2, <2>4, <3>1 DEF WritesFit
  <2>5. CASE p \notin overlap /\ q.op = "revoke" /\ x = q.u
    <3>1. role' = role /\ held' = held \ {<<q.u, q.r>>}
      BY <1>1, <2>5
    <3> QED BY <1>2, <2>5, <3>1 DEF WritesFit
  <2> QED BY <1>4, <2>1, <2>2, <2>3, <2>4, <2>5
<1>8. Rbac!EnforcementIsDerived'
  <2>1. ASSUME NEW x \in User, x \notin disturbed'
        PROVE  user'[x].enforced = Rbac!Demands(x, held', role')
    <3>1. user'[x].enforced <=> Rbac!Demands(x, held', role')
      BY <1>1, <1>7, <2>1
    <3>2. user'[x].enforced \in BOOLEAN
      BY RolesWritten DEF Rbac!UserRow
    <3>3. Rbac!Demands(x, held', role') \in BOOLEAN
      BY DEF Rbac!Demands
    <3> QED BY <3>1, <3>2, <3>3
  <2> QED BY <2>1 DEF Rbac!EnforcementIsDerived
<1>9. Rbac!GrantsAreAsAsked'
  BY <1>1, <1>3 DEF Rbac!GrantsAreAsAsked, Rbac!LiveCodes
<1>10. Rbac!ASuperuserRemains'
  BY <1>1, <1>3 DEF Rbac!ASuperuserRemains
<1> QED BY <1>5, <1>8, <1>9, <1>10

\* The other requests: those about the same user are overtaken, the rest see no change.
LEMMA CommitRolesRequests ==
  ASSUME AccessInv, NEW p \in Proc, Rbac!CommitRoles(p), NEW x \in Proc
  PROVE  RequestOK(x)'
<1> SUFFICES ASSUME req'[x] # Rbac!Idle PROVE RequestOK(x)'
  BY DEF RequestOK
<1>0. PICK q, o : q = req[p] /\ o = req[x]
  OBVIOUS
<1>1. /\ p \in Rbac!Open /\ q.op \in Rbac!RoleChange
      /\ q.op = "assign" => held' = held \cup {<<q.u, q.r>>}
      /\ q.op = "revoke" => held' = held \ {<<q.u, q.r>>}
      /\ q.op # "update" => role' = role
      /\ \A y \in User : /\ user'[y].enforced = Final(q, y)
                         /\ user'[y].super = user[y].super /\ user'[y].active = user[y].active
      /\ Rbac!Commits(p)
      /\ UNCHANGED grants
  BY <1>0, RolesWritten
<1>2. q \in Rbac!Request /\ q.u \in User /\ WellFormed(q)
  BY <1>0, <1>1, Committing
<1>3. x # p /\ req'[x] = o /\ (x \notin overlap' => x \notin overlap /\ ~Rbac!Meets(q, o))
  BY <1>0, <1>1, CommitsOvertake
<1>4. /\ o # Rbac!Idle /\ o \in Rbac!Request /\ o.op \in Rbac!Ops /\ o.u \in User
      /\ WellFormed(o)
      /\ x \notin overlap => CopyIsFresh(o)
      /\ x \notin overlap /\ o.phase = "open" => WritesFit(o)
  <2>1. RequestOK(x) /\ Rbac!TypeOK
    BY DEF AccessInv
  <2>2. o # Rbac!Idle
    BY <1>0, <1>3
  <2> QED BY <1>0, <2>1, <2>2, RequestTypes DEF RequestOK
<1>5. WellFormed(o)'
  BY <1>1, <1>4 DEF WellFormed
<1>6. ASSUME x \notin overlap', o.op \in Rbac!RoleChange
      PROVE  /\ o.op # "update" /\ role' = role /\ user'[o.u].enforced = user[o.u].enforced
             /\ \A r : <<o.u, r>> \in held <=> <<o.u, r>> \in held'
  <2>1. q.op # "update" /\ o.op # "update" /\ q.u # o.u
    BY <1>1, <1>2, <1>3, <1>4, <1>6, RoleChangesMeet
  <2>2. o.u \notin DOMAIN q.enforce
    BY <1>1, <1>2, <2>1 DEF WellFormed, Rbac!RoleChange
  <2>3. user'[o.u].enforced = user[o.u].enforced
    BY <1>1, <1>4, <2>2 DEF Final
  <2>4. \A r : <<o.u, r>> \in held <=> <<o.u, r>> \in held'
    BY <1>1, <2>1 DEF Rbac!RoleChange
  <2> QED BY <1>1, <2>1, <2>3, <2>4
<1>7. ASSUME x \notin overlap' PROVE CopyIsFresh(o)'
  <2>1. CopyIsFresh(o)
    BY <1>3, <1>4, <1>7
  <2>2. CASE o.op \in Rbac!RoleChange
    BY <1>6, <1>7, <2>1, <2>2 DEF CopyIsFresh, Rbac!RoleChange, Rbac!Activation
  <2>3. CASE o.op \notin Rbac!RoleChange
    BY <1>1, <1>4, <2>1, <2>3 DEF CopyIsFresh, Rbac!RoleChange
  <2> QED BY <2>2, <2>3
<1>8. ASSUME x \notin overlap', o.phase = "open" PROVE WritesFit(o)'
  <2>1. WritesFit(o)
    BY <1>3, <1>4, <1>8
  <2>2. CASE o.op \in Rbac!RoleChange
    <3>1. /\ o.op \in {"assign", "revoke"} /\ role' = role
          /\ user'[o.u].enforced = user[o.u].enforced
          /\ \A r : <<o.u, r>> \in held <=> <<o.u, r>> \in held'
      BY <1>6, <1>8, <2>2 DEF Rbac!RoleChange
    <3>2. Final(o, o.u)' <=> Final(o, o.u)
      BY <3>1 DEF Final
    <3>3. Rbac!Demands(o.u, held \cup {<<o.u, o.r>>}, role) <=> Rbac!Demands(o.u, held' \cup {<<o.u, o.r>>}, role)
      <4>1. \A r : <<o.u, r>> \in held \cup {<<o.u, o.r>>} <=> <<o.u, r>> \in held' \cup {<<o.u, o.r>>}
        BY <3>1
      <4> QED BY <4>1, DemandsDependOnRolesHeld
    <3>4. Rbac!Demands(o.u, held \ {<<o.u, o.r>>}, role) <=> Rbac!Demands(o.u, held' \ {<<o.u, o.r>>}, role)
      <4>1. \A r : <<o.u, r>> \in held \ {<<o.u, o.r>>} <=> <<o.u, r>> \in held' \ {<<o.u, o.r>>}
        BY <3>1
      <4> QED BY <4>1, DemandsDependOnRolesHeld
    <3>5. CASE o.op = "assign"
      BY <2>1, <3>1, <3>2, <3>3, <3>5 DEF WritesFit
    <3>6. CASE o.op = "revoke"
      BY <2>1, <3>1, <3>2, <3>4, <3>6 DEF WritesFit
    <3> QED BY <3>1, <3>5, <3>6
  <2>3. CASE o.op \notin Rbac!RoleChange
    <3>1. o.op # "assign" /\ o.op # "revoke" /\ o.op # "update"
      BY <2>3 DEF Rbac!RoleChange
    <3>2. \A y \in User : user'[y].super = user[y].super /\ user'[y].active = user[y].active
      BY <1>1
    <3> QED BY <1>1, <2>1, <3>1, <3>2 DEF WritesFit
  <2> QED BY <2>2, <2>3
<1> QED BY <1>3, <1>5, <1>7, <1>8 DEF RequestOK

\* What a commit of set_role_grants(), create_role() or delete_role() writes: no holder of
\* a role sees its row change.
LEMMA GrantsWritten ==
  ASSUME AccessInv, NEW p \in Proc, NEW q, q = req[p], Rbac!CommitGrants(p)
  PROVE  /\ p \in Rbac!Open /\ q.op \in {"grant", "create", "delete"}
         /\ q.op = "create" => /\ ~role[q.r].live /\ role' = [role EXCEPT ![q.r] = q.fields]
                               /\ \A o \in Proc \ {p} : req[o] # Rbac!Idle /\ req[o].r = q.r => req[o].op = "create"
         /\ q.op = "delete" => role' = [role EXCEPT ![q.r] = Rbac!Gone]
         /\ q.op = "grant" => role' = role
         /\ grants' = [grants EXCEPT ![q.r] = (@ \ q.drop) \cup q.add]
         /\ asked' = [asked EXCEPT ![q.r] = IF q.op = "delete" THEN {} ELSE q.codes]
         /\ edited' = IF p \in overlap THEN edited \cup {q.r} ELSE edited \ {q.r}
         /\ \A u \in User, r \in Rbac!Roles : <<u, r>> \in held => role'[r] = role[r]
         /\ \A r \in Rbac!Roles \ {q.r} : role'[r] = role[r] /\ grants'[r] = grants[r] /\ asked'[r] = asked[r]
         /\ q.r # Admin /\ role' \in [Rbac!Roles -> Rbac!RoleRow]
         /\ Rbac!Commits(p)
         /\ UNCHANGED <<held, user, permission, migrating, disturbed, raced>>
<1>1. p \in Rbac!Open /\ q.op \in {"grant", "create", "delete"} /\ q.op \in Rbac!GrantChange
  BY DEF Rbac!CommitGrants, Rbac!GrantChange
<1>2. /\ q.r # Admin /\ q.r \in Rbac!Roles
      /\ role \in [Rbac!Roles -> Rbac!RoleRow] /\ grants \in [Rbac!Roles -> SUBSET Code]
      /\ asked \in [Rbac!Roles -> SUBSET Code]
  BY <1>1, Committing DEF WellFormed, AccessInv, Rbac!TypeOK
<1>3. /\ q.op = "create" => ~role[q.r].live /\ role' = [role EXCEPT ![q.r] = q.fields]
      /\ q.op = "delete" => /\ \A u \in User : <<u, q.r>> \notin held
                            /\ role' = [role EXCEPT ![q.r] = Rbac!Gone]
      /\ q.op = "grant" => role' = role
      /\ grants' = [grants EXCEPT ![q.r] = (@ \ q.drop) \cup q.add]
      /\ asked' = [asked EXCEPT ![q.r] = IF q.op = "delete" THEN {} ELSE q.codes]
  BY <1>1 DEF Rbac!CommitGrants
<1>4. q.op = "create" => \A u \in User : <<u, q.r>> \notin held
  BY <1>2, <1>3 DEF AccessInv, HoldersHaveRoles
<1>5. \A r \in Rbac!Roles \ {q.r} : role'[r] = role[r] /\ grants'[r] = grants[r] /\ asked'[r] = asked[r]
  BY <1>1, <1>2, <1>3
<1>6. \A u \in User, r \in Rbac!Roles : <<u, r>> \in held => role'[r] = role[r]
  BY <1>1, <1>3, <1>4, <1>5
<1>7. q.op = "create" => \A o \in Proc \ {p} : req[o] # Rbac!Idle /\ req[o].r = q.r => req[o].op = "create"
  BY DEF Rbac!CommitGrants, Rbac!InFlight
<1>8. role' \in [Rbac!Roles -> Rbac!RoleRow]
  <2>1. q.fields \in Rbac!RoleRow
    BY <1>1, Committing
  <2>2. Rbac!Gone \in Rbac!RoleRow
    BY DEF Rbac!Gone, Rbac!RoleRow
  <2> QED BY <1>1, <1>2, <1>3, <2>1, <2>2
<1> QED BY <1>1, <1>2, <1>3, <1>5, <1>6, <1>7, <1>8 DEF Rbac!CommitGrants

\* Its effect on the rows: a save nothing overtook leaves the grants it asked for.
LEMMA CommitGrantsRows ==
  ASSUME AccessInv, NEW p \in Proc, Rbac!CommitGrants(p)
  PROVE  /\ HoldersHaveRoles' /\ Rbac!EnforcementIsDerived'
         /\ Rbac!GrantsAreAsAsked' /\ Rbac!ASuperuserRemains'
<1>1. PICK q : q = req[p]
  OBVIOUS
<1>2. /\ p \in Rbac!Open /\ q.op \in {"grant", "create", "delete"}
      /\ grants' = [grants EXCEPT ![q.r] = (@ \ q.drop) \cup q.add]
      /\ asked' = [asked EXCEPT ![q.r] = IF q.op = "delete" THEN {} ELSE q.codes]
      /\ edited' = IF p \in overlap THEN edited \cup {q.r} ELSE edited \ {q.r}
      /\ \A u \in User, r \in Rbac!Roles : <<u, r>> \in held => role'[r] = role[r]
      /\ \A r \in Rbac!Roles \ {q.r} : role'[r] = role[r] /\ grants'[r] = grants[r] /\ asked'[r] = asked[r]
      /\ q.r # Admin
      /\ UNCHANGED <<held, user, permission, migrating, disturbed, raced>>
  BY <1>1, GrantsWritten
<1>3. /\ q.r \in Rbac!Roles /\ q.codes \in SUBSET Code /\ WellFormed(q)
      /\ p \notin overlap => WritesFit(q)
  BY <1>1, <1>2, Committing
<1>4. /\ Rbac!TypeOK /\ HoldersHaveRoles /\ Rbac!EnforcementIsDerived
      /\ Rbac!GrantsAreAsAsked /\ Rbac!ASuperuserRemains
  BY DEF AccessInv
<1>5. HoldersHaveRoles'
  <2>1. Admin \in Rbac!Roles
    BY DEF Rbac!Roles
  <2> QED BY <1>2, <1>4, <2>1 DEF HoldersHaveRoles
<1>6. Rbac!EnforcementIsDerived'
  <2>1. ASSUME NEW x \in User, x \notin disturbed'
        PROVE  user'[x].enforced = Rbac!Demands(x, held', role')
    <3>1. Rbac!Demands(x, held, role) <=> Rbac!Demands(x, held', role')
      <4>1. \A r \in Rbac!Roles : <<x, r>> \in held => role[r].mfa = role'[r].mfa
        BY <1>2
      <4> QED BY <1>2, <4>1, DemandsDependOnRolesHeld
    <3>2. user'[x].enforced <=> Rbac!Demands(x, held, role)
      BY <1>2, <1>4, <2>1 DEF Rbac!EnforcementIsDerived
    <3>3. user'[x].enforced \in BOOLEAN
      BY <1>2, <1>4 DEF Rbac!TypeOK, Rbac!UserRow
    <3>4. Rbac!Demands(x, held', role') \in BOOLEAN
      BY DEF Rbac!Demands
    <3> QED BY <3>1, <3>2, <3>3, <3>4
  <2> QED BY <2>1 DEF Rbac!EnforcementIsDerived
<1>7. Rbac!GrantsAreAsAsked'
  <2>1. ASSUME NEW r \in Role, r \notin edited' PROVE grants'[r] = asked'[r]
    <3>1. r \in Rbac!Roles
      BY DEF Rbac!Roles
    <3>2. CASE r # q.r
      <4>1. r \notin edited
        BY <1>2, <2>1, <3>2
      <4> QED BY <1>2, <1>4, <3>1, <3>2, <4>1 DEF Rbac!GrantsAreAsAsked
    <3>3. CASE r = q.r
      <4>1. p \notin overlap
        BY <1>2, <2>1, <3>3
      <4>2. grants[q.r] \in SUBSET Code /\ grants'[q.r] = (grants[q.r] \ q.drop) \cup q.add
        BY <1>2, <1>3, <1>4 DEF Rbac!TypeOK
      <4>3. asked'[q.r] = IF q.op = "delete" THEN {} ELSE q.codes
        BY <1>2, <1>3, <1>4 DEF Rbac!TypeOK
      <4>4. CASE q.op = "delete"
        <5>1. q.add = {} /\ q.drop = grants[q.r]
          BY <1>3, <4>1, <4>4 DEF WellFormed, WritesFit
        <5> QED BY <3>3, <4>2, <4>3, <4>4, <5>1
      <4>5. CASE q.op \in {"grant", "create"}
        <5>1. q.add = q.codes \ grants[q.r] /\ q.drop = grants[q.r] \ q.codes
          BY <1>3, <4>1, <4>5 DEF WritesFit
        <5> QED BY <3>3, <4>2, <4>3, <4>5, <5>1
      <4> QED BY <1>2, <4>4, <4>5
    <3> QED BY <3>2, <3>3
  <2>2. migrating' = "no" => grants'[Admin] = Rbac!LiveCodes'
    <3>1. Admin \in Rbac!Roles \ {q.r}
      BY <1>2 DEF Rbac!Roles
    <3> QED BY <1>2, <1>4, <3>1 DEF Rbac!GrantsAreAsAsked, Rbac!LiveCodes
  <2> QED BY <2>1, <2>2 DEF Rbac!GrantsAreAsAsked
<1>8. Rbac!ASuperuserRemains'
  BY <1>2, <1>4 DEF Rbac!ASuperuserRemains
<1> QED BY <1>5, <1>6, <1>7, <1>8

\* The other requests: those about the same role's grants are overtaken or come to nothing.
LEMMA CommitGrantsRequests ==
  ASSUME AccessInv, NEW p \in Proc, Rbac!CommitGrants(p), NEW x \in Proc
  PROVE  RequestOK(x)'
<1> SUFFICES ASSUME req'[x] # Rbac!Idle PROVE RequestOK(x)'
  BY DEF RequestOK
<1>0. PICK q, o : q = req[p] /\ o = req[x]
  OBVIOUS
<1>1. /\ p \in Rbac!Open /\ q.op \in {"grant", "create", "delete"}
      /\ q.op = "create" => \A y \in Proc \ {p} : req[y] # Rbac!Idle /\ req[y].r = q.r => req[y].op = "create"
      /\ q.op = "delete" => role' = [role EXCEPT ![q.r] = Rbac!Gone]
      /\ q.op = "grant" => role' = role
      /\ \A u \in User, r \in Rbac!Roles : <<u, r>> \in held => role'[r] = role[r]
      /\ \A r \in Rbac!Roles \ {q.r} : role'[r] = role[r] /\ grants'[r] = grants[r]
      /\ Rbac!Commits(p)
      /\ UNCHANGED <<held, user, disturbed>>
  BY <1>0, GrantsWritten
<1>2. q \in Rbac!Request /\ q.r \in Rbac!Roles /\ role \in [Rbac!Roles -> Rbac!RoleRow]
  BY <1>0, <1>1, Committing DEF AccessInv, Rbac!TypeOK
<1>3. x # p /\ req'[x] = o /\ (x \notin overlap' => x \notin overlap /\ ~Rbac!Meets(q, o))
  BY <1>0, <1>1, CommitsOvertake
<1>4. /\ o # Rbac!Idle /\ o \in Rbac!Request /\ o.op \in Rbac!Ops /\ o.u \in User /\ o.r \in Rbac!Roles
      /\ o.fields \in Rbac!RoleRow /\ WellFormed(o)
      /\ x \notin overlap => CopyIsFresh(o)
      /\ x \notin overlap /\ o.phase = "open" => WritesFit(o)
  <2>1. RequestOK(x) /\ Rbac!TypeOK
    BY DEF AccessInv
  <2>2. o # Rbac!Idle
    BY <1>0, <1>3
  <2> QED BY <1>0, <2>1, <2>2, RequestTypes DEF RequestOK
<1>5. WellFormed(o)'
  BY <1>1, <1>4 DEF WellFormed
<1>6. ASSUME x \notin overlap' PROVE CopyIsFresh(o)'
  <2>1. CopyIsFresh(o)
    BY <1>3, <1>4, <1>6
  <2> QED BY <1>1, <1>4, <2>1 DEF CopyIsFresh
<1>7. ASSUME x \notin overlap', o.phase = "open" PROVE WritesFit(o)'
  <2>1. WritesFit(o)
    BY <1>3, <1>4, <1>7
  <2>2. \A y : Final(o, y)' = Final(o, y)
    BY <1>1 DEF Final
  <2>3. CASE o.op = "assign"
    <3>1. SUFFICES ASSUME role'[o.r].live
                   PROVE  Final(o, o.u) <=> Rbac!Demands(o.u, held \cup {<<o.u, o.r>>}, role')
      BY <1>1, <2>2, <2>3 DEF WritesFit
    <3>2. role'[o.r] = role[o.r]
      <4>1. CASE o.r # q.r
        BY <1>1, <1>4, <4>1
      <4>2. CASE o.r = q.r
        <5>1. q.op # "create"
          BY <1>0, <1>1, <1>3, <1>4, <2>3, <4>2
        <5>2. q.op # "delete"
          BY <1>1, <1>2, <3>1, <4>2 DEF Rbac!Gone
        <5> QED BY <1>1, <5>1, <5>2
      <4> QED BY <4>1, <4>2
    <3>3. \A r \in Rbac!Roles : <<o.u, r>> \in held \cup {<<o.u, o.r>>} => role[r].mfa = role'[r].mfa
      BY <1>1, <1>4, <3>2
    <3>4. Rbac!Demands(o.u, held \cup {<<o.u, o.r>>}, role) <=> Rbac!Demands(o.u, held \cup {<<o.u, o.r>>}, role')
      BY <3>3, DemandsDependOnRolesHeld
    <3> QED BY <2>1, <2>3, <3>1, <3>2, <3>4 DEF WritesFit
  <2>4. CASE o.op = "revoke"
    <3>1. \A r \in Rbac!Roles : <<o.u, r>> \in held \ {<<o.u, o.r>>} => role[r].mfa = role'[r].mfa
      BY <1>1, <1>4
    <3>2. Rbac!Demands(o.u, held \ {<<o.u, o.r>>}, role) <=> Rbac!Demands(o.u, held \ {<<o.u, o.r>>}, role')
      BY <3>1, DemandsDependOnRolesHeld
    <3> QED BY <1>1, <2>1, <2>2, <2>4, <3>2 DEF WritesFit
  <2>5. CASE o.op = "update"
    <3>1. PICK t, t2 : t = [role EXCEPT ![o.r] = o.fields] /\ t2 = [role EXCEPT ![o.r] = o.fields]'
      OBVIOUS
    <3>2. ASSUME NEW y \in User
          PROVE  Rbac!Demands(y, held, t) <=> Rbac!Demands(y, held, t2)
      <4>1. role' \in [Rbac!Roles -> Rbac!RoleRow]
        BY <1>0, GrantsWritten
      <4>2. \A r \in Rbac!Roles : <<y, r>> \in held => t[r].mfa = t2[r].mfa
        BY <1>1, <1>2, <1>4, <3>1, <4>1
      <4> QED BY <4>2, DemandsDependOnRolesHeld
    <3> QED BY <1>1, <2>1, <2>2, <2>5, <3>1, <3>2 DEF WritesFit
  <2>6. CASE o.op \in Rbac!GrantChange
    <3>1. o.r # q.r
      BY <1>1, <1>3, <1>7, <2>6 DEF Rbac!Meets, Rbac!GrantChange
    <3>2. grants'[o.r] = grants[o.r]
      BY <1>1, <1>4, <3>1
    <3> QED BY <2>1, <2>6, <3>2 DEF WritesFit, Rbac!GrantChange
  <2>7. CASE o.op \in Rbac!Activation
    BY <1>1, <2>1, <2>7 DEF WritesFit, Rbac!Activation
  <2> QED BY <1>4, <2>3, <2>4, <2>5, <2>6, <2>7 DEF Rbac!Ops, Rbac!GrantChange, Rbac!Activation
<1> QED BY <1>3, <1>5, <1>6, <1>7 DEF RequestOK

\* What a commit of deactivate() or activate() writes.
LEMMA ActivationWritten ==
  ASSUME AccessInv, NEW p \in Proc, NEW q, q = req[p], Rbac!CommitActivation(p)
  PROVE  /\ p \in Rbac!Open /\ q.op \in Rbac!Activation
         /\ user' \in [User -> Rbac!UserRow]
         /\ \A x \in User : /\ user'[x].super = user[x].super /\ user'[x].enforced = user[x].enforced
                            /\ x # q.u => user'[x].active = user[x].active
                            /\ q.op = "activate" /\ user[x].active => user'[x].active
         /\ raced' = (raced \/ p \in overlap)
         /\ Rbac!Commits(p)
         /\ UNCHANGED <<role, held, grants, permission, migrating, disturbed, edited, asked>>
<1>1. p \in Rbac!Open /\ q.op \in Rbac!Activation
  BY DEF Rbac!CommitActivation
<1>2. user \in [User -> Rbac!UserRow] /\ q.u \in User
  BY <1>1, Committing DEF AccessInv, Rbac!TypeOK
<1>3. user' = [user EXCEPT ![q.u].active = (q.op = "activate")]
  BY DEF Rbac!CommitActivation
<1>4. ASSUME NEW x \in User
      PROVE  /\ user'[x] \in Rbac!UserRow
             /\ user'[x].super = user[x].super /\ user'[x].enforced = user[x].enforced
             /\ x # q.u => user'[x].active = user[x].active
             /\ q.op = "activate" /\ user[x].active => user'[x].active
  BY <1>2, <1>3 DEF Rbac!UserRow
<1>5. user' \in [User -> Rbac!UserRow]
  BY <1>2, <1>3, <1>4
<1> QED BY <1>1, <1>4, <1>5 DEF Rbac!CommitActivation

\* The last active superuser stays, unless another activation overtook this one.
LEMMA CommitActivationRows ==
  ASSUME AccessInv, NEW p \in Proc, Rbac!CommitActivation(p)
  PROVE  /\ HoldersHaveRoles' /\ Rbac!EnforcementIsDerived'
         /\ Rbac!GrantsAreAsAsked' /\ Rbac!ASuperuserRemains'
<1>1. PICK q : q = req[p]
  OBVIOUS
<1>2. /\ p \in Rbac!Open /\ q.op \in Rbac!Activation
      /\ \A x \in User : /\ user'[x].super = user[x].super /\ user'[x].enforced = user[x].enforced
                         /\ x # q.u => user'[x].active = user[x].active
                         /\ q.op = "activate" /\ user[x].active => user'[x].active
      /\ raced' = (raced \/ p \in overlap)
      /\ UNCHANGED <<role, held, grants, permission, migrating, disturbed, edited, asked>>
  BY <1>1, ActivationWritten
<1>3. /\ q.u \in User /\ WellFormed(q)
      /\ p \notin overlap => CopyIsFresh(q) /\ WritesFit(q)
  BY <1>1, <1>2, Committing
<1>4. HoldersHaveRoles'
  BY <1>2 DEF AccessInv, HoldersHaveRoles
<1>5. Rbac!EnforcementIsDerived'
  BY <1>2 DEF AccessInv, Rbac!EnforcementIsDerived, Rbac!Demands
<1>6. Rbac!GrantsAreAsAsked'
  BY <1>2 DEF AccessInv, Rbac!GrantsAreAsAsked, Rbac!LiveCodes
<1>7. Rbac!ASuperuserRemains'
  <2> SUFFICES ASSUME ~raced, p \notin overlap
               PROVE  \E x \in User : user'[x].super /\ user'[x].active
    BY <1>2 DEF Rbac!ASuperuserRemains
  <2>1. PICK y \in User : user[y].super /\ user[y].active
    BY DEF AccessInv, Rbac!ASuperuserRemains
  <2>2. CASE q.op = "activate" \/ y # q.u
    BY <1>2, <2>1, <2>2
  <2>3. CASE q.op = "deactivate" /\ y = q.u
    <3>1. q.user.super /\ q.user.active
      BY <1>2, <1>3, <2>1, <2>3 DEF WellFormed, CopyIsFresh
    <3>2. PICK x \in User \ {q.u} : user[x].super /\ user[x].active
      BY <1>3, <2>3, <3>1 DEF WritesFit
    <3> QED BY <1>2, <3>2
  <2> QED BY <1>2, <2>2, <2>3 DEF Rbac!Activation
<1> QED BY <1>4, <1>5, <1>6, <1>7

\* The other requests: an activation is overtaken, nothing else looks at the flag.
LEMMA CommitActivationRequests ==
  ASSUME AccessInv, NEW p \in Proc, Rbac!CommitActivation(p), NEW x \in Proc
  PROVE  RequestOK(x)'
<1> SUFFICES ASSUME req'[x] # Rbac!Idle PROVE RequestOK(x)'
  BY DEF RequestOK
<1>0. PICK q, o : q = req[p] /\ o = req[x]
  OBVIOUS
<1>1. /\ p \in Rbac!Open /\ q.op \in Rbac!Activation
      /\ \A y \in User : user'[y].super = user[y].super /\ user'[y].enforced = user[y].enforced
      /\ Rbac!Commits(p)
      /\ UNCHANGED <<role, held, grants, disturbed>>
  BY <1>0, ActivationWritten
<1>3. x # p /\ req'[x] = o /\ (x \notin overlap' => x \notin overlap /\ ~Rbac!Meets(q, o))
  BY <1>0, <1>1, CommitsOvertake
<1>4. /\ o # Rbac!Idle /\ o.u \in User
      /\ WellFormed(o)
      /\ x \notin overlap => CopyIsFresh(o)
      /\ x \notin overlap /\ o.phase = "open" => WritesFit(o)
  <2>1. RequestOK(x) /\ Rbac!TypeOK
    BY DEF AccessInv
  <2>2. o # Rbac!Idle
    BY <1>0, <1>3
  <2> QED BY <1>0, <2>1, <2>2, RequestTypes DEF RequestOK
<1>5. WellFormed(o)'
  BY <1>1, <1>4 DEF WellFormed
<1>6. x \notin overlap' => o.op \notin Rbac!Activation
  BY <1>1, <1>3 DEF Rbac!Meets
<1>7. ASSUME x \notin overlap' PROVE CopyIsFresh(o)'
  BY <1>1, <1>3, <1>4, <1>6, <1>7 DEF CopyIsFresh
<1>8. ASSUME x \notin overlap', o.phase = "open" PROVE WritesFit(o)'
  <2>1. WritesFit(o) /\ o.op # "deactivate"
    BY <1>3, <1>4, <1>6, <1>8 DEF Rbac!Activation
  <2>2. \A y \in User : Final(o, y)' = Final(o, y)
    BY <1>1 DEF Final
  <2> QED BY <1>1, <1>4, <2>1, <2>2 DEF WritesFit, Rbac!Demands
<1> QED BY <1>3, <1>5, <1>7, <1>8 DEF RequestOK

\* The three kinds of commits keep the invariant.
LEMMA CommitsKeep ==
  ASSUME AccessInv, NEW p \in Proc,
         Rbac!CommitRoles(p) \/ Rbac!CommitGrants(p) \/ Rbac!CommitActivation(p)
  PROVE  AccessInv'
<1>1. p \in Rbac!Open /\ Rbac!Commits(p)
  BY DEF Rbac!CommitRoles, Rbac!CommitGrants, Rbac!CommitActivation
<1>2. /\ req' \in [Proc -> {Rbac!Idle} \cup Rbac!Request] /\ overlap' \subseteq Proc
      /\ OverlapsAreInFlight'
  BY <1>1, CommitsOvertake
<1>3. /\ Rbac!TypeOK /\ req[p].u \in User /\ req[p].r \in Rbac!Roles /\ req[p].fields \in Rbac!RoleRow
      /\ req[p].codes \in SUBSET Code /\ req[p].add \in SUBSET Code
  BY <1>1, Committing DEF AccessInv
<1>4. CASE Rbac!CommitRoles(p)
  <2>1. role' \in [Rbac!Roles -> Rbac!RoleRow] /\ held' \subseteq User \X Rbac!Roles
    <3>1. req[p].op \in {"assign", "revoke", "update"}
      BY <1>4, RolesWritten DEF Rbac!RoleChange
    <3> QED BY <1>3, <1>4, <3>1, RolesWritten DEF Rbac!TypeOK
  <2>2. user' \in [User -> Rbac!UserRow] /\ UNCHANGED <<grants, permission, migrating, edited, raced, asked>>
    BY <1>4, RolesWritten
  <2>3. disturbed' \subseteq User
    <3>1. Rbac!Touches(req[p]) \subseteq User
      BY <1>3 DEF Rbac!Touches
    <3> QED BY <1>3, <1>4, <3>1, RolesWritten DEF Rbac!TypeOK
  <2>4. Rbac!TypeOK'
    BY <1>2, <1>3, <2>1, <2>2, <2>3 DEF Rbac!TypeOK
  <2> QED BY <1>2, <1>4, <2>4, CommitRolesRows, CommitRolesRequests DEF AccessInv
<1>5. CASE Rbac!CommitGrants(p)
  <2>1. PICK q : q = req[p]
    OBVIOUS
  <2>2. /\ role' \in [Rbac!Roles -> Rbac!RoleRow]
        /\ grants' = [grants EXCEPT ![q.r] = (@ \ q.drop) \cup q.add]
        /\ asked' = [asked EXCEPT ![q.r] = IF q.op = "delete" THEN {} ELSE q.codes]
        /\ edited' = IF p \in overlap THEN edited \cup {q.r} ELSE edited \ {q.r}
        /\ UNCHANGED <<held, user, permission, migrating, disturbed, raced>>
    BY <1>5, <2>1, GrantsWritten
  <2>3. /\ grants' \in [Rbac!Roles -> SUBSET Code] /\ asked' \in [Rbac!Roles -> SUBSET Code]
        /\ edited' \subseteq Rbac!Roles
    BY <1>3, <2>1, <2>2 DEF Rbac!TypeOK
  <2>4. Rbac!TypeOK'
    BY <1>2, <1>3, <2>2, <2>3 DEF Rbac!TypeOK
  <2> QED BY <1>2, <1>5, <2>4, CommitGrantsRows, CommitGrantsRequests DEF AccessInv
<1>6. CASE Rbac!CommitActivation(p)
  <2>1. PICK q : q = req[p]
    OBVIOUS
  <2>2. /\ user' \in [User -> Rbac!UserRow] /\ raced' = (raced \/ p \in overlap)
        /\ UNCHANGED <<role, held, grants, permission, migrating, disturbed, edited, asked>>
    BY <1>6, <2>1, ActivationWritten
  <2>3. raced' \in BOOLEAN
    BY <2>2
  <2>4. Rbac!TypeOK'
    BY <1>2, <1>3, <2>2, <2>3 DEF Rbac!TypeOK
  <2> QED BY <1>2, <1>6, <2>4, CommitActivationRows, CommitActivationRequests DEF AccessInv
<1> QED BY <1>4, <1>5, <1>6

-----------------------------------------------------------------------------
(* After every migrate.                                                      *)

\* The hook changes the catalog, the flag administrator always has, and the grants of
\* administrator: nothing a request in flight relies on.
LEMMA MigrationsKeep ==
  ASSUME AccessInv,
         \/ \E catalog \in SUBSET Code : Rbac!SyncCatalog(catalog)
         \/ Rbac!EnsureSystemRoles \/ Rbac!RecomputeAdministrator
  PROVE  AccessInv'
<1>1. /\ UNCHANGED <<held, user, req, overlap>> /\ UNCHANGED <<disturbed, edited, raced, asked>>
      /\ permission' \in [Code -> {"absent", "live", "deprecated"}]
      /\ migrating' \in {"no", "synced", "roles"}
  <2>1. Rbac!TypeOK
    BY DEF AccessInv
  <2>2. CASE \E catalog \in SUBSET Code : Rbac!SyncCatalog(catalog)
    <3>1. PICK catalog \in SUBSET Code : Rbac!SyncCatalog(catalog)
      BY <2>2
    <3>2. UNCHANGED <<held, user, req, overlap>> /\ UNCHANGED <<disturbed, edited, raced, asked>>
      BY <3>1 DEF Rbac!SyncCatalog, Rbac!history
    <3>3. migrating' = "synced" /\ permission \in [Code -> {"absent", "live", "deprecated"}]
      BY <2>1, <3>1 DEF Rbac!SyncCatalog, Rbac!TypeOK
    <3>4. permission' = [c \in Code |-> IF c \in catalog THEN "live"
                                      ELSE IF permission[c] = "absent" THEN "absent" ELSE "deprecated"]
      BY <3>1 DEF Rbac!SyncCatalog
    <3>5. permission' \in [Code -> {"absent", "live", "deprecated"}]
      BY <3>4
    <3> QED BY <3>2, <3>3, <3>5
  <2>3. CASE Rbac!EnsureSystemRoles \/ Rbac!RecomputeAdministrator
    BY <2>1, <2>3 DEF Rbac!EnsureSystemRoles, Rbac!RecomputeAdministrator, Rbac!history, Rbac!TypeOK
  <2> QED BY <2>2, <2>3
<1>2. Rbac!TypeOK /\ Admin \in Rbac!Roles
  BY DEF AccessInv, Rbac!Roles
<1>3. /\ role' \in [Rbac!Roles -> Rbac!RoleRow]
      /\ \A r \in Rbac!Roles : role'[r].live = role[r].live /\ role'[r].mfa = role[r].mfa
      /\ \A r \in Rbac!Roles \ {Admin} : role'[r] = role[r]
  <2>1. UNCHANGED role \/ role' = [role EXCEPT ![Admin].elevated = TRUE]
    BY DEF Rbac!SyncCatalog, Rbac!EnsureSystemRoles, Rbac!RecomputeAdministrator
  <2>2. role \in [Rbac!Roles -> Rbac!RoleRow]
    BY <1>2 DEF Rbac!TypeOK
  <2>3. CASE UNCHANGED role
    BY <2>2, <2>3
  <2>4. CASE role' = [role EXCEPT ![Admin].elevated = TRUE]
    BY <1>2, <2>2, <2>4 DEF Rbac!RoleRow
  <2> QED BY <2>1, <2>3, <2>4
<1>4. /\ grants' \in [Rbac!Roles -> SUBSET Code]
      /\ \A r \in Rbac!Roles \ {Admin} : grants'[r] = grants[r]
      /\ migrating' = "no" => grants'[Admin] = Rbac!LiveCodes'
  <2>1. CASE grants' = grants /\ migrating' # "no"
    BY <1>2, <2>1 DEF Rbac!TypeOK
  <2>2. CASE Rbac!RecomputeAdministrator
    <3>1. grants' = [grants EXCEPT ![Admin] = Rbac!LiveCodes] /\ UNCHANGED permission
      BY <2>2 DEF Rbac!RecomputeAdministrator
    <3> QED BY <1>2, <3>1 DEF Rbac!TypeOK, Rbac!LiveCodes
  <2> QED BY <2>1, <2>2 DEF Rbac!SyncCatalog, Rbac!EnsureSystemRoles
<1>5. Rbac!TypeOK'
  BY <1>1, <1>2, <1>3, <1>4 DEF Rbac!TypeOK
<1>6. HoldersHaveRoles' /\ OverlapsAreInFlight'
  BY <1>1, <1>2, <1>3 DEF AccessInv, HoldersHaveRoles, OverlapsAreInFlight
<1>7. \A x, h : Rbac!Demands(x, h, role) <=> Rbac!Demands(x, h, role')
  BY <1>3 DEF Rbac!Demands
<1>8. ASSUME NEW x \in Proc PROVE RequestOK(x)'
  <2>1. PICK o : o = req[x]
    OBVIOUS
  <2>2. SUFFICES ASSUME o # Rbac!Idle PROVE RequestOK(x)'
    BY <1>1, <2>1 DEF RequestOK
  <2>3. /\ o.r \in Rbac!Roles /\ o.fields \in Rbac!RoleRow /\ o.u \in User
        /\ WellFormed(o)
        /\ x \notin overlap => CopyIsFresh(o)
        /\ x \notin overlap /\ o.phase = "open" => WritesFit(o)
    BY <1>2, <2>1, <2>2, RequestTypes DEF AccessInv, RequestOK
  <2>4. WellFormed(o)'
    BY <1>1, <2>3 DEF WellFormed
  <2>5. CopyIsFresh(o) => CopyIsFresh(o)'
    BY <1>1, <1>3, <2>3 DEF CopyIsFresh
  <2>6. ASSUME WritesFit(o), o.phase = "open" PROVE WritesFit(o)'
    <3>1. \A y : Final(o, y)' = Final(o, y)
      BY <1>1 DEF Final
    <3>2. PICK t, t2 : t = [role EXCEPT ![o.r] = o.fields] /\ t2 = [role EXCEPT ![o.r] = o.fields]'
      OBVIOUS
    <3>3. \A y : Rbac!Demands(y, held, t) <=> Rbac!Demands(y, held, t2)
      <4>1. \A r \in Rbac!Roles : t[r].mfa = t2[r].mfa
        BY <1>2, <1>3, <2>3, <3>2 DEF Rbac!TypeOK
      <4> QED BY <4>1 DEF Rbac!Demands
    <3>4. o.op \in {"grant", "create", "delete"} => grants'[o.r] = grants[o.r]
      BY <1>4, <2>3, <2>6 DEF WellFormed, Rbac!GrantChange
    <3>5. role'[o.r].live = role[o.r].live
      BY <1>3, <2>3
    <3> QED BY <1>1, <1>7, <2>6, <3>1, <3>2, <3>3, <3>4, <3>5 DEF WritesFit
  <2> QED BY <1>1, <2>1, <2>2, <2>3, <2>4, <2>5, <2>6 DEF RequestOK
<1>9. Rbac!EnforcementIsDerived'
  <2>1. \A x : Rbac!Demands(x, held, role) \in BOOLEAN /\ Rbac!Demands(x, held', role') \in BOOLEAN
    BY DEF Rbac!Demands
  <2>2. \A x : Rbac!Demands(x, held, role) = Rbac!Demands(x, held', role')
    BY <1>1, <1>7, <2>1
  <2> QED BY <1>1, <2>2 DEF AccessInv, Rbac!EnforcementIsDerived
<1>10. Rbac!GrantsAreAsAsked'
  <2>1. \A r \in Role : r \in Rbac!Roles \ {Admin}
    BY AccessAssumption DEF Rbac!Roles, Rbac!RolesAssumption
  <2> QED BY <1>1, <1>4, <2>1 DEF AccessInv, Rbac!GrantsAreAsAsked
<1>11. Rbac!ASuperuserRemains'
  BY <1>1 DEF AccessInv, Rbac!ASuperuserRemains
<1> QED BY <1>5, <1>6, <1>8, <1>9, <1>10, <1>11 DEF AccessInv

-----------------------------------------------------------------------------
(* The theorems.                                                             *)

\* Each step of the component keeps the invariant.
LEMMA AccessSteps == AccessInv /\ [Rbac!Next]_(Rbac!vars) => AccessInv'
<1> SUFFICES ASSUME AccessInv, [Rbac!Next]_(Rbac!vars) PROVE AccessInv'
  OBVIOUS
<1>1. ASSUME NEW p \in Proc, Rbac!Arrive(p) PROVE AccessInv'
  BY <1>1, ArrivalsProceed, RequestsKeep
<1>2. ASSUME NEW p \in Proc, Rbac!AssignRole(p) \/ Rbac!RevokeRole(p) PROVE AccessInv'
  BY <1>2, PairsProceed, RequestsKeep
<1>3. ASSUME NEW p \in Proc, Rbac!UpdateRole(p) PROVE AccessInv'
  BY <1>3, UpdateProceeds, RequestsKeep
<1>4. ASSUME NEW p \in Proc, Rbac!DeleteRole(p) PROVE AccessInv'
  BY <1>4, DeletionProceeds, RequestsKeep
<1>5. ASSUME NEW p \in Proc, Rbac!SetGrants(p) \/ Rbac!CreateRole(p) PROVE AccessInv'
  BY <1>5, GrantsProceed, RequestsKeep
<1>6. ASSUME NEW p \in Proc, Rbac!Deactivate(p) \/ Rbac!Activate(p) PROVE AccessInv'
  BY <1>6, ActivationsProceed, RequestsKeep
<1>7. ASSUME NEW p \in Proc, Rbac!Abort(p) PROVE AccessInv'
  BY <1>7, RequestsKeep DEF Rbac!Abort
<1>8. ASSUME NEW p \in Proc, Rbac!CommitRoles(p) \/ Rbac!CommitGrants(p) \/ Rbac!CommitActivation(p)
      PROVE  AccessInv'
  BY <1>8, CommitsKeep
<1>9. CASE \/ \E catalog \in SUBSET Code : Rbac!SyncCatalog(catalog)
           \/ Rbac!EnsureSystemRoles \/ Rbac!RecomputeAdministrator
  BY <1>9, MigrationsKeep
<1>10. CASE UNCHANGED Rbac!vars
  <2>1. Still /\ UNCHANGED <<req, overlap>>
    BY <1>10 DEF Rbac!vars, Rbac!rows, Rbac!history, Still
  <2> USE <2>1 DEF Still
  <2>2. Rbac!TypeOK' /\ HoldersHaveRoles' /\ OverlapsAreInFlight'
    BY DEF AccessInv, Rbac!TypeOK, HoldersHaveRoles, OverlapsAreInFlight
  <2>3. \A p \in Proc : RequestOK(p)'
    BY DEF AccessInv, RequestOK, WellFormed, CopyIsFresh, WritesFit, Final, Rbac!Demands
  <2>4. Rbac!EnforcementIsDerived' /\ Rbac!GrantsAreAsAsked' /\ Rbac!ASuperuserRemains'
    BY DEF AccessInv, Rbac!EnforcementIsDerived, Rbac!GrantsAreAsAsked, Rbac!ASuperuserRemains,
           Rbac!Demands, Rbac!LiveCodes
  <2> QED BY <2>2, <2>3, <2>4 DEF AccessInv
<1> QED BY <1>1, <1>2, <1>3, <1>4, <1>5, <1>6, <1>7, <1>8, <1>9, <1>10 DEF Rbac!Next

\* Whatever requests arrive, and however their loads, services and commits interleave with
\* each other and with a migration, the rows stay as rbac/services.py means them to be.
THEOREM AccessInductive == Rbac!Spec => []AccessInv
BY AccessStart, AccessSteps, PTL DEF Rbac!Spec

\* recompute_mfa_enforcement() leaves exactly the holders of a role that requires MFA under
\* it, but for users whose last change of roles was overtaken between its load and its commit.
THEOREM MfaIsDerived == Rbac!Spec => []EnforcementIsDerived
<1>1. AccessInv => EnforcementIsDerived
  BY DEF AccessInv, EnforcementIsDerived
<1> QED BY <1>1, AccessInductive, PTL

\* _replace_grants() and sync_catalog() leave a role what its last save asked for, and
\* administrator every live code.
THEOREM GrantsStayAsAsked == Rbac!Spec => []GrantsAreAsAsked
<1>1. AccessInv => GrantsAreAsAsked
  BY DEF AccessInv, GrantsAreAsAsked
<1> QED BY <1>1, AccessInductive, PTL

\* deactivate() leaves an active superuser, unless two activations overlapped.
THEOREM NotTheLastSuperuser == Rbac!Spec => []ASuperuserRemains
<1>1. AccessInv => ASuperuserRemains
  BY DEF AccessInv, ASuperuserRemains
<1> QED BY <1>1, AccessInductive, PTL

\* What MCAccess lets TLC explore are behaviours of the components: it chooses which
\* requests arrive and which part moves, and adds no step of its own.
THEOREM EveryRunIsABehaviour == MCSpec => Spec /\ Rbac!Spec /\ Acc!Spec /\ Tab!Spec
<1>1. MCInit => Init /\ Rbac!Init /\ Acc!Init /\ Tab!Init
  BY DEF MCInit
<1>2. [MCNext]_mcvars => [Next]_vars /\ [Acc!Next]_(Acc!vars) /\ [Tab!Next]_(Tab!vars)
  BY DEF MCNext, mcvars, vars, acvars, tabvars, Acc!vars, Tab!vars
<1>3. AccessInv /\ [MCNext]_mcvars => [Rbac!Next]_(Rbac!vars)
  <2> SUFFICES ASSUME AccessInv, [MCNext]_mcvars PROVE [Rbac!Next]_(Rbac!vars)
    OBVIOUS
  <2>1. RbacNext \/ UNCHANGED rbacvars
    BY DEF MCNext, mcvars
  <2>2. CASE UNCHANGED rbacvars
    BY <2>2 DEF rbacvars, Rbac!vars, Rbac!rows, Rbac!history
  <2>3. ASSUME NEW p \in Proc, NEW o \in Rbac!Ops, NEW by \in User, NEW u \in User, NEW r \in Rbac!Roles,
               NEW fields \in Rbac!RoleRow, NEW codes \in SUBSET Code,
               o \in {"update", "create"} => fields.live,
               o \notin {"update", "create"} => fields = Rbac!Gone,
               o \notin {"grant", "create"} => codes = {},
               Rbac!Load(p, o, by, u, r, fields, codes)
        PROVE  Rbac!Next
    BY <2>3 DEF Rbac!Arrive, Rbac!Next
  <2>4. /\ Root \in User /\ Admin \in Rbac!Roles /\ Role \subseteq Rbac!Roles
        /\ role \in [Rbac!Roles -> Rbac!RoleRow]
    BY AccessAssumption DEF AccessInv, Rbac!TypeOK, Rbac!AccountsAssumption, Rbac!Roles
  <2>10. /\ Rbac!Gone \in Rbac!RoleRow /\ [Rbac!Gone EXCEPT !.live = TRUE] \in Rbac!RoleRow
         /\ [Rbac!Gone EXCEPT !.live = TRUE].live
    BY DEF Rbac!Gone, Rbac!RoleRow
  <2>11. ASSUME NEW r \in Rbac!Roles, role[r].live, NEW b \in BOOLEAN
         PROVE  /\ [role[r] EXCEPT !.mfa = b] \in Rbac!RoleRow /\ [role[r] EXCEPT !.mfa = b].live
                /\ [role[r] EXCEPT !.elevated = b] \in Rbac!RoleRow /\ [role[r] EXCEPT !.elevated = b].live
    BY <2>4, <2>11 DEF Rbac!RoleRow
  <2>5. ASSUME NEW p \in Proc, LoadRoles(p) PROVE Rbac!Next
    <3>1. CASE \E o \in {"assign", "revoke"}, u \in User \ {Root}, r \in Rbac!Roles :
                 Rbac!Load(p, o, Root, u, r, Rbac!Gone, {})
      BY <2>3, <2>4, <2>10, <3>1 DEF Rbac!Ops
    <3>2. CASE \E r \in Rbac!Roles, m \in BOOLEAN :
                 Rbac!Load(p, "update", Root, Root, r, [role[r] EXCEPT !.mfa = m], {})
      <4>1. PICK r \in Rbac!Roles, m \in BOOLEAN :
              Rbac!Load(p, "update", Root, Root, r, [role[r] EXCEPT !.mfa = m], {})
        BY <3>2
      <4>2. r \in Rbac!Roles /\ role[r].live
        BY <2>4, <4>1 DEF Rbac!Load, Rbac!RoleRow
      <4> DEFINE f == [role[r] EXCEPT !.mfa = m]
      <4>3. f \in Rbac!RoleRow /\ f.live
        BY <2>11, <4>1, <4>2
      <4> HIDE DEF f
      <4>4. Rbac!Load(p, "update", Root, Root, r, f, {})
        BY <4>1 DEF f
      <4> QED BY <2>3, <2>4, <4>2, <4>3, <4>4 DEF Rbac!Ops
    <3>3. CASE \E r \in Rbac!Roles : Rbac!Load(p, "delete", Root, Root, r, Rbac!Gone, {})
      BY <2>3, <2>4, <2>10, <3>3 DEF Rbac!Ops
    <3> QED BY <2>5, <3>1, <3>2, <3>3 DEF LoadRoles
  <2>6. ASSUME NEW p \in Proc, LoadGrants(p) PROVE Rbac!Next
    <3> PICK by \in User :
          \/ \E r \in Rbac!Roles, codes \in SUBSET Code :
               Rbac!Load(p, "grant", by, Root, r, Rbac!Gone, codes)
          \/ \E r \in Role, codes \in SUBSET Code :
               Rbac!Load(p, "create", Root, Root, r, [Rbac!Gone EXCEPT !.live = TRUE], codes)
          \/ \E r \in Role : Rbac!Load(p, "delete", Root, Root, r, Rbac!Gone, {})
          \/ \E r \in Role, e \in BOOLEAN :
               Rbac!Load(p, "update", by, Root, r, [role[r] EXCEPT !.elevated = e], {})
      BY <2>6 DEF LoadGrants
    <3>1. CASE \E r \in Rbac!Roles, codes \in SUBSET Code :
                 Rbac!Load(p, "grant", by, Root, r, Rbac!Gone, codes)
      BY <2>3, <2>4, <2>10, <3>1 DEF Rbac!Ops
    <3>2. CASE \E r \in Role, codes \in SUBSET Code :
                 Rbac!Load(p, "create", Root, Root, r, [Rbac!Gone EXCEPT !.live = TRUE], codes)
      BY <2>3, <2>4, <2>10, <3>2 DEF Rbac!Ops
    <3>3. CASE \E r \in Role : Rbac!Load(p, "delete", Root, Root, r, Rbac!Gone, {})
      BY <2>3, <2>4, <2>10, <3>3 DEF Rbac!Ops
    <3>4. CASE \E r \in Role, e \in BOOLEAN :
                 Rbac!Load(p, "update", by, Root, r, [role[r] EXCEPT !.elevated = e], {})
      <4>1. PICK r \in Role, e \in BOOLEAN :
              Rbac!Load(p, "update", by, Root, r, [role[r] EXCEPT !.elevated = e], {})
        BY <3>4
      <4>2. r \in Rbac!Roles /\ role[r].live
        BY <2>4, <4>1 DEF Rbac!Load, Rbac!RoleRow
      <4> DEFINE f == [role[r] EXCEPT !.elevated = e]
      <4>3. f \in Rbac!RoleRow /\ f.live
        BY <2>11, <4>1, <4>2
      <4> HIDE DEF f
      <4>4. Rbac!Load(p, "update", by, Root, r, f, {})
        BY <4>1 DEF f
      <4> QED BY <2>3, <2>4, <4>2, <4>3, <4>4 DEF Rbac!Ops
    <3> QED BY <3>1, <3>2, <3>3, <3>4
  <2>7. ASSUME NEW p \in Proc, LoadAccounts(p) PROVE Rbac!Next
    <3>1. PICK u \in User, by \in User, o \in {"deactivate", "activate", "assign", "revoke"} :
            Rbac!Load(p, o, by, u, Admin, Rbac!Gone, {})
      BY <2>7 DEF LoadAccounts
    <3> QED BY <2>3, <2>4, <2>10, <3>1 DEF Rbac!Ops
  <2>8. ASSUME NEW p \in Proc, Serve(p) PROVE Rbac!Next
    BY <2>8 DEF Serve, Rbac!Next
  <2>9. CASE Migrate
    BY <2>9 DEF Migrate, Rbac!Next
  <2> QED BY <2>1, <2>2, <2>5, <2>6, <2>7, <2>8, <2>9 DEF RbacNext
<1>4. AccessInv /\ [Rbac!Next]_(Rbac!vars) => AccessInv'
  BY AccessSteps
<1> QED BY <1>1, <1>2, <1>3, <1>4, AccessStart, PTL DEF MCSpec, Spec, Rbac!Spec, Acc!Spec, Tab!Spec
=============================================================================
