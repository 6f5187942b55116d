------------------------------ MODULE MCAccess ------------------------------
(* Who stays signed in and who may do what, each behaviour about one part of *)
(* it: the rows of the sessions, the browser that holds their tokens, roles, *)
(* grants, account activation, invitations or reset links.  The parts share  *)
(* no variable.                                                              *)
EXTENDS SessionsProperties, TLC
CONSTANTS User, Root, Role, Admin, Code, Proc,
          Email, Invitation, Link,
          Tabs, Calls, TabOf, Kind, MaxRow,
          LeftTab, RightTab, FirstCall, OtherCall
VARIABLES focus,     \* the part of the system this behaviour is about
          role, held, user, grants, permission, migrating, req, overlap,
          disturbed, edited, raced, asked,
          account, granted, session, inv, link, proc, stale, stamped,
          jar, tip, over, state, asking, wire, effects, tries, crossed
rbacvars == <<role, held, user, grants, permission, migrating, req, overlap,
              disturbed, edited, raced, asked>>
acvars == <<account, granted, session, inv, link, proc, stale, stamped>>
tabvars == <<jar, tip, over, state, asking, wire, effects, tries, crossed>>
mcvars == <<vars, rbacvars, acvars, tabvars, focus>>

Rbac == INSTANCE Access
Acc == INSTANCE Accounts WITH changed <- stamped
Tab == INSTANCE Client WITH ended <- over
ASSUME AccessAssumption == Rbac!AccountsAssumption /\ Rbac!RolesAssumption /\ Tab!NamesAssumption

\* The first call logs out, the other one comes from the other tab.
PageTabs == [c \in Calls |-> IF c = OtherCall THEN RightTab ELSE LeftTab]
PageKinds == [c \in Calls |-> IF c = FirstCall THEN "logout" ELSE "call"]

MCInit ==
  /\ Init /\ Rbac!Init /\ Acc!Init /\ Tab!Init
  /\ focus \in {"sessions", "client", "roles", "grants", "accounts", "invitations", "links"}
  /\ focus # "accounts" => \A u \in User \ {Root} : ~user[u].super
  /\ (focus = "accounts") = \A r \in Role : ~role[r].live

LoadRoles(p) ==
  \/ \E o \in {"assign", "revoke"}, u \in User \ {Root}, r \in Rbac!Roles : Rbac!Load(p, o, Root, u, r, Rbac!Gone, {})
  \/ \E r \in Rbac!Roles, m \in BOOLEAN : Rbac!Load(p, "update", Root, Root, r, [role[r] EXCEPT !.mfa = m], {})
  \/ \E r \in Rbac!Roles : Rbac!Load(p, "delete", Root, Root, r, Rbac!Gone, {})
LoadGrants(p) ==
  \E by \in User :
     \/ \E r \in Rbac!Roles, codes \in SUBSET Code : Rbac!Load(p, "grant", by, Root, r, Rbac!Gone, codes)
     \/ \E r \in Role, codes \in SUBSET Code : Rbac!Load(p, "create", Root, Root, r, [Rbac!Gone EXCEPT !.live = TRUE], codes)
     \/ \E r \in Role : Rbac!Load(p, "delete", Root, Root, r, Rbac!Gone, {})
     \/ \E r \in Role, e \in BOOLEAN : Rbac!Load(p, "update", by, Root, r, [role[r] EXCEPT !.elevated = e], {})
LoadAccounts(p) ==
  \E u \in User, by \in User :
     \/ \E o \in {"deactivate", "activate"} : Rbac!Load(p, o, by, u, Admin, Rbac!Gone, {})
     \/ \E o \in {"assign", "revoke"} : Rbac!Load(p, o, by, u, Admin, Rbac!Gone, {})

Serve(p) ==
  \/ Rbac!AssignRole(p) \/ Rbac!RevokeRole(p) \/ Rbac!UpdateRole(p) \/ Rbac!DeleteRole(p) \/ Rbac!SetGrants(p)
  \/ Rbac!CreateRole(p) \/ Rbac!Deactivate(p) \/ Rbac!Activate(p)
  \/ Rbac!CommitRoles(p) \/ Rbac!CommitGrants(p) \/ Rbac!CommitActivation(p) \/ Rbac!Abort(p)

Migrate ==
  \/ \E catalog \in SUBSET Code : Rbac!SyncCatalog(catalog)
  \/ Rbac!EnsureSystemRoles
  \/ Rbac!RecomputeAdministrator

RbacNext ==
  \/ \E p \in Proc : \/ Serve(p)
                     \/ focus = "roles" /\ LoadRoles(p)
                     \/ focus = "grants" /\ LoadGrants(p)
                     \/ focus = "accounts" /\ LoadAccounts(p)
  \/ focus = "grants" /\ Migrate

\* What the behaviours about invitations leave out, and those about links.
Links ==
  \/ \E k \in Link : \/ Acc!LinkExpires(k) \/ \E p \in Proc : Acc!LockLink(p, k)
                     \/ \E e \in Email : Acc!RequestReset(e, k)
  \/ \E p \in Proc, e \in Email : Acc!AdminLoads(p, e)
Invitations ==
  \E p \in Proc : \/ \E e \in Email : Acc!StartInvite(p, e)
                  \/ \E i \in Invitation : Acc!StartRevoke(p, i)

MCNext ==
  /\ UNCHANGED focus
  /\ \/ /\ focus = "sessions" /\ Next
        /\ UNCHANGED <<rbacvars, acvars, tabvars>>
     \/ /\ focus = "client" /\ Tab!Next
        /\ UNCHANGED <<vars, rbacvars, acvars>>
     \/ /\ focus \in {"roles", "grants", "accounts"} /\ RbacNext
        /\ UNCHANGED <<vars, acvars, tabvars>>
     \/ /\ focus = "invitations" /\ Acc!Next /\ ~Links
        /\ UNCHANGED <<vars, rbacvars, tabvars>>
     \/ /\ focus = "links" /\ Acc!Next /\ ~Invitations
        /\ UNCHANGED <<vars, rbacvars, tabvars>>
\* Logins and requests are interchangeable.
Symmetry == Permutations(Families) \cup Permutations(Procs) \cup Permutations(Proc)

MCSpec == MCInit /\ [][MCNext]_mcvars

\* See Access, Accounts and Client.
EnforcementIsDerived == Rbac!EnforcementIsDerived
GrantsAreAsAsked == Rbac!GrantsAreAsAsked
ASuperuserRemains == Rbac!ASuperuserRemains
AnswersAreFinal == Acc!AnswersAreFinal
LinksDieWithThePassword == Acc!LinksDieWithThePassword
ClientIsSound == Tab!ClientIsSound
=============================================================================
