------------------------------ MODULE Accounts ------------------------------
(***************************************************************************)
(* How an account comes to be and gets its password: bootstrap_admin,      *)
(* users/services/invitations.py, create_user() and                        *)
(* users/services/passwords.py.                                            *)
(*                                                                         *)
(* accept() and invite() work under the lock of the invitation's row and   *)
(* are one step each, but for the question invite() asks before it.        *)
(* A reset by link is one transaction that takes its locks one after the   *)
(* other: the link, the user, every other outstanding link of that user.   *)
(* A change by the admin site is in no transaction: the password, the      *)
(* sessions and the links are committed one after the other, and no lock   *)
(* is held in between.                                                     *)
(***************************************************************************)
EXTENDS Naturals, FiniteSets

CONSTANTS Email, Invitation, Link, Proc

VARIABLES account,  \* users_user by address: "none", "active", "inactive"
          granted,  \* who holds the role of their invitation, or administrator
          session,  \* addresses with a live session
          inv,      \* users_invitation
          link,     \* users_password_reset_token: the address, used, dead
          proc,     \* what each process is in the middle of
          stale,    \* history: links that a password change has expired or used
          changed   \* history: how often each link set a password

vars == <<account, granted, session, inv, link, proc, stale, changed>>

NoRow == [email |-> "none"]
Idle == [op |-> "idle"]
InvitationRow == [email : Email, accepted : BOOLEAN, revoked : BOOLEAN, expired : BOOLEAN]
LinkRow == [email : Email, used : BOOLEAN, dead : BOOLEAN]

\* Invitation.status: the first of these that applies.
MutStatus(i) == IF i.revoked THEN "revoked" ELSE IF i.accepted THEN "accepted"
                ELSE IF i.expired THEN "expired" ELSE "pending"
Status(i) == IF i.accepted THEN "accepted" ELSE IF i.revoked THEN "revoked"
             ELSE IF i.expired THEN "expired" ELSE "pending"

Init ==
  /\ account = [e \in Email |-> "none"] /\ granted = {} /\ session = {}
  /\ inv = [i \in Invitation |-> NoRow]
  /\ link = [k \in Link |-> NoRow]
  /\ proc = [p \in Proc |-> Idle]
  /\ stale = {} /\ changed = [k \in Link |-> 0]

Exists(e) == account[e] # "none"
Free(p) == proc[p] = Idle
Become(p, r) == proc' = [proc EXCEPT ![p] = r]
accounts == <<account, granted, session>>
history == <<stale, changed>>

-----------------------------------------------------------------------------
(* bootstrap_admin: refused once any user exists, as both checks saw it.    *)
StartBootstrap(p, e) ==
  /\ Free(p) /\ \A x \in Email : ~Exists(x)
  /\ Become(p, [op |-> "bootstrap", email |-> e])
  /\ UNCHANGED <<accounts, inv, link, history>>

FinishBootstrap(p) ==
  /\ proc[p].op = "bootstrap"
  /\ LET e == proc[p].email IN
     IF Exists(e) THEN UNCHANGED <<account, granted>>     \* the address is unique
     ELSE account' = [account EXCEPT ![e] = "active"] /\ granted' = granted \cup {e}
  /\ Become(p, Idle)
  /\ UNCHANGED <<session, inv, link, history>>

\* create_user(): active, no usable password, a setup link.
CreateUser(e, k) ==
  /\ \E x \in Email : account[x] = "active"            \* an operator is signed in
  /\ ~Exists(e) /\ link[k] = NoRow
  /\ account' = [account EXCEPT ![e] = "active"]
  /\ link' = [link EXCEPT ![k] = [email |-> e, used |-> FALSE, dead |-> FALSE]]
  /\ UNCHANGED <<granted, session, inv, proc, history>>

-----------------------------------------------------------------------------
(* Invitations.                                                             *)
StartInvite(p, e) ==
  /\ Free(p) /\ \E x \in Email : account[x] = "active"
  /\ ~Exists(e)                                        \* else AlreadyAUser
  /\ Become(p, [op |-> "invite", email |-> e])
  /\ UNCHANGED <<accounts, inv, link, history>>

Live(e) == {i \in Invitation : inv[i] # NoRow /\ inv[i].email = e /\ ~inv[i].accepted /\ ~inv[i].revoked}

\* The live row is locked: it is refused, or revoked because it has expired.
\* Of two that find none, the unique constraint refuses the second.
FinishInvite(p, new) ==
  /\ proc[p].op = "invite"
  /\ inv[new] = NoRow
  /\ LET e == proc[p].email IN
     IF \E i \in Live(e) : ~inv[i].expired
       THEN UNCHANGED inv                              \* AlreadyInvited
       ELSE inv' = [i \in Invitation |->
                      IF i = new THEN [email |-> e, accepted |-> FALSE, revoked |-> FALSE, expired |-> FALSE]
                      ELSE IF i \in Live(e) THEN [inv[i] EXCEPT !.revoked = TRUE] ELSE inv[i]]
  /\ Become(p, Idle)
  /\ UNCHANGED <<accounts, link, history>>

Expire(i) ==
  /\ inv[i] # NoRow /\ ~inv[i].expired
  /\ inv' = [inv EXCEPT ![i].expired = TRUE]
  /\ UNCHANGED <<accounts, link, proc, history>>

\* revoke(): the status of the copy the view loaded, and one column saved.
StartRevoke(p, i) ==
  /\ Free(p) /\ inv[i] # NoRow /\ Status(inv[i]) = "pending"
  /\ Become(p, [op |-> "revoke", inv |-> i])
  /\ UNCHANGED <<accounts, inv, link, history>>
FinishRevoke(p) ==
  /\ proc[p].op = "revoke"
  /\ inv' = [inv EXCEPT ![proc[p].inv].revoked = TRUE]
  /\ Become(p, Idle)
  /\ UNCHANGED <<accounts, link, history>>

\* accept(): account, role (rbac's receiver of invitation_accepted) and session
\* in the transaction that marks the invitation.
Accept(i) ==
  /\ inv[i] # NoRow /\ Status(inv[i]) = "pending" /\ ~Exists(inv[i].email)
  /\ account' = [account EXCEPT ![inv[i].email] = "active"]
  /\ granted' = granted \cup {inv[i].email}
  /\ session' = session \cup {inv[i].email}
  /\ inv' = [inv EXCEPT ![i].accepted = TRUE]
  /\ UNCHANGED <<link, proc, history>>

-----------------------------------------------------------------------------
(* Passwords.                                                               *)
Changing(p) == proc[p].op = "change"
HoldsLink(p, k) == Changing(p) /\ proc[p].links = {k}
HoldsUser(p, e) == Changing(p) /\ proc[p].email = e /\ proc[p].user

\* The new row refers to the user's, and waits for a reset that has it locked.
RequestReset(e, k) ==
  /\ account[e] = "active" /\ link[k] = NoRow
  /\ \A o \in Proc : ~HoldsUser(o, e)
  /\ link' = [link EXCEPT ![k] = [email |-> e, used |-> FALSE, dead |-> FALSE]]
  /\ UNCHANGED <<accounts, inv, proc, history>>

Outstanding(k) == ~link[k].used /\ ~link[k].dead

LinkExpires(k) ==
  /\ link[k] # NoRow /\ ~link[k].dead
  /\ link' = [link EXCEPT ![k].dead = TRUE]
  /\ UNCHANGED <<accounts, inv, proc, history>>

\* perform_reset(): SELECT ... FOR UPDATE locks the link, then the user joined to it.
LockLink(p, k) ==
  /\ Free(p) /\ link[k] # NoRow /\ \A o \in Proc : ~HoldsLink(o, k)
  /\ Become(p, [op |-> "change", links |-> {k}, email |-> link[k].email, user |-> FALSE])
  /\ UNCHANGED <<accounts, inv, link, history>>

Usable(k) == Outstanding(k) /\ account[link[k].email] = "active"

LockUser(p) ==
  /\ Changing(p) /\ ~proc[p].user
  /\ \A o \in Proc : ~HoldsUser(o, proc[p].email)
  /\ Become(p, IF \A k \in proc[p].links : Usable(k)
               THEN [proc[p] EXCEPT !.user = TRUE] ELSE Idle)    \* InvalidResetToken
  /\ UNCHANGED <<accounts, inv, link, history>>

LinksOf(e) == {k \in Link : link[k] # NoRow /\ link[k].email = e}

\* The links an UPDATE of the outstanding ones expires.  It waits for those that
\* another process has locked.
MutKilled(links) == {}
Killed(links) == {k \in links : Outstanding(k)}
NoneLocked(p, links) == \A o \in Proc \ {p}, k \in links : ~HoldsLink(o, k)

\* perform_reset() saves the user; the receiver of password_changed ends the
\* sessions and expires every other outstanding link, in the same transaction.
Cascade(p) ==
  /\ Changing(p) /\ proc[p].user
  /\ LET e == proc[p].email
         own == proc[p].links
         others == LinksOf(e) \ own
     IN /\ NoneLocked(p, Killed(others))
        /\ link' = [k \in Link |-> IF k \in own THEN [link[k] EXCEPT !.used = TRUE]
                                   ELSE IF k \in Killed(others) THEN [link[k] EXCEPT !.dead = TRUE]
                                   ELSE link[k]]
        /\ session' = session \ {e}
        /\ stale' = stale \cup own \cup others
        /\ changed' = [k \in Link |-> IF k \in own THEN changed[k] + 1 ELSE changed[k]]
  /\ Become(p, Idle)
  /\ UNCHANGED <<account, granted, inv>>

\* The admin site's form holds the user it loaded ...
AdminLoads(p, e) ==
  /\ Free(p) /\ Exists(e)
  /\ Become(p, [op |-> "load", email |-> e, was |-> account[e]])
  /\ UNCHANGED <<accounts, inv, link, history>>

\* ... and User.save() writes all of it, which is committed before it sends
\* password_changed.
AdminSaves(p) ==
  /\ proc[p].op = "load" /\ \A o \in Proc : ~HoldsUser(o, proc[p].email)
  /\ account' = [account EXCEPT ![proc[p].email] = proc[p].was]
  /\ Become(p, [op |-> "saved", email |-> proc[p].email])
  /\ UNCHANGED <<granted, session, inv, link, history>>

\* on_password_changed(): the sessions, and then the links that the UPDATE finds
\* outstanding when it starts.
AdminEndsSessions(p) ==
  /\ proc[p].op = "saved"
  /\ session' = session \ {proc[p].email}
  /\ Become(p, [op |-> "expire", email |-> proc[p].email,
                links |-> Killed(LinksOf(proc[p].email))])
  /\ UNCHANGED <<account, granted, inv, link, history>>

AdminExpiresLinks(p) ==
  /\ proc[p].op = "expire" /\ NoneLocked(p, proc[p].links)
  /\ link' = [k \in Link |-> IF k \in Killed(proc[p].links)
                             THEN [link[k] EXCEPT !.dead = TRUE] ELSE link[k]]
  /\ stale' = stale \cup proc[p].links
  /\ Become(p, Idle)
  /\ UNCHANGED <<accounts, inv, changed>>

\* A refused password, a deadlock the database breaks, a crash: a transaction
\* leaves nothing behind, the admin site what it had committed.
RollBack(p) == ~Free(p) /\ Become(p, Idle) /\ UNCHANGED <<accounts, inv, link, history>>

SetActive(e) ==
  /\ Exists(e) /\ \A o \in Proc : ~HoldsUser(o, e)
  /\ account' = [account EXCEPT ![e] = IF @ = "active" THEN "inactive" ELSE "active"]
  /\ session' = session \ {e}
  /\ UNCHANGED <<granted, inv, link, proc, history>>

Next ==
  \/ \E p \in Proc : \/ FinishBootstrap(p) \/ FinishRevoke(p) \/ LockUser(p) \/ Cascade(p) \/ RollBack(p)
                     \/ AdminSaves(p) \/ AdminEndsSessions(p) \/ AdminExpiresLinks(p)
                     \/ \E e \in Email : StartBootstrap(p, e) \/ StartInvite(p, e) \/ AdminLoads(p, e)
                     \/ \E i \in Invitation : FinishInvite(p, i) \/ StartRevoke(p, i)
                     \/ \E k \in Link : LockLink(p, k)
  \/ \E e \in Email : SetActive(e) \/ \E k \in Link : CreateUser(e, k) \/ RequestReset(e, k)
  \/ \E i \in Invitation : Expire(i) \/ Accept(i)
  \/ \E k \in Link : LinkExpires(k)

Spec == Init /\ [][Next]_vars
-----------------------------------------------------------------------------
\* What invitations and reset links promise.

\* An invitation that was accepted or revoked keeps that answer, also when a
\* revocation that saw it pending is saved after it was accepted
\* (Invitation.status, invitation.py:60; revoke, invitations.py:94).
AnswersAreFinal ==
  [][\A i \in Invitation :
       inv[i] # NoRow /\ Status(inv[i]) \in {"accepted", "revoked"}
         => Status(inv'[i]) = Status(inv[i])]_vars

\* A link sets no password once a password change of its account has used or
\* expired it, however the locks interleave: none after a reset through this link
\* or another one, and none after the cascade of a change by the admin site has
\* run, not even one that a reset had locked before (perform_reset,
\* passwords.py:58; on_password_changed, passwords.py:88).  Between the commit of
\* the admin site's password and the end of its cascade, or when it dies in
\* between, the links are not stale yet, and one may still set a password.
LinksDieWithThePassword ==
  [][\A k \in stale : changed'[k] = changed[k]]_vars
=============================================================================
