--------------------------- MODULE AccountsProofs ---------------------------
(* Proofs about invitations, reset links and the browser that holds a        *)
(* session's cookies: Accounts and Client, as MCAccess instantiates them.    *)
EXTENDS MCAccess, TLAPS

-----------------------------------------------------------------------------
(* Invitations and reset links.                                             *)

\* Rows have their types; the histories count.
AccountRows ==
  /\ account \in [Email -> {"none", "active", "inactive"}]
  /\ granted \subseteq Email /\ session \subseteq Email
  /\ inv \in [Invitation -> {Acc!NoRow} \cup Acc!InvitationRow]
  /\ link \in [Link -> {Acc!NoRow} \cup Acc!LinkRow]
  /\ stale \subseteq Link /\ stamped \in [Link -> Nat]

\* What a process is in the middle of is about rows there are, and the link it
\* locked is its account's own.
AccountRequests ==
  /\ proc \in [Proc -> {Acc!Idle} \cup [op : {"bootstrap", "invite", "saved"}, email : Email]
                        \cup [op : {"revoke"}, inv : Invitation]
                        \cup [op : {"load"}, email : Email, was : {"active", "inactive"}]
                        \cup [op : {"expire"}, email : Email, links : SUBSET Link]
                        \cup [op : {"change"}, links : SUBSET Link, email : Email, user : BOOLEAN]]
  /\ \A p \in Proc : proc[p].op = "revoke" => inv[proc[p].inv] # Acc!NoRow
  /\ \A p \in Proc : proc[p].op = "expire" => \A k \in proc[p].links : link[k] # Acc!NoRow
  /\ \A p \in Proc : Acc!Changing(p) =>
       /\ \E k \in Link : proc[p].links = {k}
       /\ \A k \in proc[p].links : link[k] # Acc!NoRow /\ link[k].email = proc[p].email

\* A link that a change of its account's password has expired or used is spent.
StaleLinksAreSpent == \A k \in stale : link[k] # Acc!NoRow /\ (link[k].used \/ link[k].dead)

\* Two changes do not hold the row of one user.
UserLocksExclusive ==
  \A p, q \in Proc : Acc!Changing(p) /\ Acc!Changing(q) /\ proc[p].user /\ proc[q].user
                     /\ proc[p].email = proc[q].email => p = q

\* A change that holds its user goes ahead with a link no other change has
\* overtaken: the links are looked at again under the user's lock.
ChangesAreInTime ==
  \A p \in Proc : Acc!Changing(p) /\ proc[p].user => proc[p].links \cap stale = {}

AccountsInv ==
  /\ AccountRows
  /\ AccountRequests
  /\ StaleLinksAreSpent
  /\ UserLocksExclusive
  /\ ChangesAreInTime

\* What a request of each kind carries.
LEMMA RequestFields ==
  ASSUME AccountsInv, NEW p \in Proc
  PROVE  /\ proc[p].op = "idle" <=> proc[p] = Acc!Idle
         /\ proc[p].op \in {"bootstrap", "invite", "load", "saved"} => proc[p].email \in Email
         /\ proc[p].op = "load" => proc[p].was \in {"active", "inactive"}
         /\ proc[p].op = "expire" => proc[p].links \in SUBSET Link
         /\ proc[p].op = "revoke" => proc[p].inv \in Invitation
         /\ proc[p].op = "change" => /\ proc[p].links \in SUBSET Link
                                     /\ proc[p].email \in Email /\ proc[p].user \in BOOLEAN
BY DEF AccountsInv, AccountRequests, Acc!Idle

\* An invitation that is answered, and a link that is used or dies, keep their types.
LEMMA InvitationRows ==
  ASSUME NEW r \in {Acc!NoRow} \cup Acc!InvitationRow, r # Acc!NoRow
  PROVE  /\ r \in Acc!InvitationRow
         /\ [r EXCEPT !.accepted = TRUE] \in Acc!InvitationRow
         /\ [r EXCEPT !.revoked = TRUE] \in Acc!InvitationRow
         /\ [r EXCEPT !.expired = TRUE] \in Acc!InvitationRow
BY DEF Acc!InvitationRow

LEMMA LinkRows ==
  ASSUME NEW r \in {Acc!NoRow} \cup Acc!LinkRow, r # Acc!NoRow
  PROVE  /\ r \in Acc!LinkRow
         /\ [r EXCEPT !.used = TRUE] \in Acc!LinkRow
         /\ [r EXCEPT !.dead = TRUE] \in Acc!LinkRow
BY DEF Acc!LinkRow

\* The initial states: no account, no invitation, no link.
LEMMA AccountsStart == Acc!Init => AccountsInv
BY DEF Acc!Init, AccountsInv, AccountRows, AccountRequests, StaleLinksAreSpent, UserLocksExclusive,
       ChangesAreInTime, Acc!NoRow, Acc!Idle, Acc!Changing

\* Every step keeps rows and histories typed.
LEMMA AccountRowsKept == AccountsInv /\ Acc!Next => AccountRows'
<1> SUFFICES ASSUME AccountsInv, Acc!Next PROVE AccountRows'
  OBVIOUS
<1> USE DEF Acc!accounts, Acc!history, Acc!Become
<1>0. AccountRows
  BY DEF AccountsInv
<1>1. ASSUME NEW p \in Proc, Acc!FinishBootstrap(p) PROVE AccountRows'
  <2>1. proc[p].email \in Email
    BY <1>1, RequestFields DEF Acc!FinishBootstrap
  <2> QED BY <1>0, <1>1, <2>1 DEF Acc!FinishBootstrap, AccountRows
<1>2. ASSUME NEW p \in Proc, Acc!FinishRevoke(p) PROVE AccountRows'
  <2>1. proc[p].inv \in Invitation /\ inv[proc[p].inv] # Acc!NoRow
    BY <1>2, RequestFields DEF Acc!FinishRevoke, AccountsInv, AccountRequests
  <2>2. [inv[proc[p].inv] EXCEPT !.revoked = TRUE] \in Acc!InvitationRow
    BY <1>0, <2>1, InvitationRows DEF AccountRows
  <2> QED BY <1>0, <1>2, <2>1, <2>2 DEF Acc!FinishRevoke, AccountRows
<1>3. ASSUME NEW p \in Proc, Acc!Cascade(p) PROVE AccountRows'
  <2>1. /\ proc[p].links \in SUBSET Link
        /\ \A k \in proc[p].links : link[k] # Acc!NoRow
    BY <1>3, RequestFields DEF Acc!Cascade, Acc!Changing, AccountsInv, AccountRequests
  <2>2. \A k \in Link : link[k] # Acc!NoRow => /\ [link[k] EXCEPT !.used = TRUE] \in Acc!LinkRow
                                               /\ [link[k] EXCEPT !.dead = TRUE] \in Acc!LinkRow
    BY <1>0, LinkRows DEF AccountRows
  <2>3. link' \in [Link -> {Acc!NoRow} \cup Acc!LinkRow]
    BY <1>0, <1>3, <2>1, <2>2 DEF Acc!Cascade, Acc!Killed, Acc!LinksOf, AccountRows
  <2>4. stale' \subseteq Link /\ session' \subseteq Email
    BY <1>0, <1>3, <2>1 DEF Acc!Cascade, Acc!LinksOf, AccountRows
  <2>5. stamped' \in [Link -> Nat]
    BY <1>0, <1>3 DEF Acc!Cascade, AccountRows
  <2> QED BY <1>0, <1>3, <2>3, <2>4, <2>5 DEF Acc!Cascade, AccountRows
<1>4. ASSUME NEW p \in Proc, NEW i \in Invitation, Acc!FinishInvite(p, i) PROVE AccountRows'
  <2>1. proc[p].email \in Email
    BY <1>4, RequestFields DEF Acc!FinishInvite
  <2>2. \A j \in Invitation : inv[j] # Acc!NoRow => [inv[j] EXCEPT !.revoked = TRUE] \in Acc!InvitationRow
    BY <1>0, InvitationRows DEF AccountRows
  <2>3. [email |-> proc[p].email, accepted |-> FALSE, revoked |-> FALSE, expired |-> FALSE]
          \in Acc!InvitationRow
    BY <2>1 DEF Acc!InvitationRow
  <2>4. CASE UNCHANGED inv
    BY <1>0, <1>4, <2>4 DEF Acc!FinishInvite, AccountRows
  <2>5. CASE ~UNCHANGED inv
    <3>1. inv' \in [Invitation -> {Acc!NoRow} \cup Acc!InvitationRow]
      BY <1>0, <1>4, <2>2, <2>3, <2>5 DEF Acc!FinishInvite, Acc!Live, AccountRows
    <3> QED BY <1>0, <1>4, <3>1 DEF Acc!FinishInvite, AccountRows
  <2> QED BY <2>4, <2>5
<1>13. ASSUME NEW p \in Proc, Acc!AdminSaves(p) PROVE AccountRows'
  <2>1. proc[p].was \in {"active", "inactive"}
    BY <1>13, RequestFields DEF Acc!AdminSaves
  <2> QED BY <1>0, <1>13, <2>1 DEF Acc!AdminSaves, AccountRows
<1>14. ASSUME NEW p \in Proc, Acc!AdminEndsSessions(p) PROVE AccountRows'
  BY <1>0, <1>14 DEF Acc!AdminEndsSessions, AccountRows
<1>15. ASSUME NEW p \in Proc, Acc!AdminExpiresLinks(p) PROVE AccountRows'
  <2>1. /\ proc[p].links \in SUBSET Link
        /\ \A k \in proc[p].links : link[k] # Acc!NoRow
    BY <1>15, RequestFields DEF Acc!AdminExpiresLinks, AccountsInv, AccountRequests
  <2>2. \A k \in Link : link[k] # Acc!NoRow => [link[k] EXCEPT !.dead = TRUE] \in Acc!LinkRow
    BY <1>0, LinkRows DEF AccountRows
  <2>3. link' \in [Link -> {Acc!NoRow} \cup Acc!LinkRow]
    BY <1>0, <1>15, <2>1, <2>2 DEF Acc!AdminExpiresLinks, Acc!Killed, AccountRows
  <2> QED BY <1>0, <1>15, <2>1, <2>3 DEF Acc!AdminExpiresLinks, AccountRows
<1>5. ASSUME NEW p \in Proc, Acc!LockUser(p) \/ Acc!RollBack(p) PROVE AccountRows'
  BY <1>0, <1>5 DEF Acc!LockUser, Acc!RollBack, AccountRows
<1>6. ASSUME NEW p \in Proc, NEW e \in Email,
             Acc!StartBootstrap(p, e) \/ Acc!StartInvite(p, e) \/ Acc!AdminLoads(p, e)
      PROVE AccountRows'
  BY <1>0, <1>6 DEF Acc!StartBootstrap, Acc!StartInvite, Acc!AdminLoads, AccountRows
<1>7. ASSUME NEW p \in Proc, NEW i \in Invitation, Acc!StartRevoke(p, i) PROVE AccountRows'
  BY <1>0, <1>7 DEF Acc!StartRevoke, AccountRows
<1>8. ASSUME NEW p \in Proc, NEW k \in Link, Acc!LockLink(p, k) PROVE AccountRows'
  BY <1>0, <1>8 DEF Acc!LockLink, AccountRows
<1>9. ASSUME NEW e \in Email, Acc!SetActive(e) PROVE AccountRows'
  BY <1>0, <1>9 DEF Acc!SetActive, AccountRows
<1>10. ASSUME NEW e \in Email, NEW k \in Link, Acc!CreateUser(e, k) \/ Acc!RequestReset(e, k)
       PROVE AccountRows'
  <2>1. [email |-> e, used |-> FALSE, dead |-> FALSE] \in Acc!LinkRow
    BY DEF Acc!LinkRow
  <2> QED BY <1>0, <1>10, <2>1 DEF Acc!CreateUser, Acc!RequestReset, AccountRows
<1>11. ASSUME NEW i \in Invitation, Acc!Expire(i) \/ Acc!Accept(i) PROVE AccountRows'
  <2>1. inv[i] # Acc!NoRow
    BY <1>11 DEF Acc!Expire, Acc!Accept
  <2>2. /\ inv[i] \in Acc!InvitationRow
        /\ [inv[i] EXCEPT !.accepted = TRUE] \in Acc!InvitationRow
        /\ [inv[i] EXCEPT !.expired = TRUE] \in Acc!InvitationRow
    BY <1>0, <2>1, InvitationRows DEF AccountRows
  <2>3. inv[i].email \in Email
    BY <2>2 DEF Acc!InvitationRow
  <2> QED BY <1>0, <1>11, <2>2, <2>3 DEF Acc!Expire, Acc!Accept, AccountRows
<1>12. ASSUME NEW k \in Link, Acc!LinkExpires(k) PROVE AccountRows'
  <2>1. [link[k] EXCEPT !.dead = TRUE] \in Acc!LinkRow
    BY <1>0, <1>12, LinkRows DEF Acc!LinkExpires, AccountRows
  <2> QED BY <1>0, <1>12, <2>1 DEF Acc!LinkExpires, AccountRows
<1> QED BY <1>1, <1>2, <1>3, <1>4, <1>5, <1>6, <1>7, <1>8, <1>9, <1>10, <1>11, <1>12,
          <1>13, <1>14, <1>15 DEF Acc!Next

\* No step takes an invitation or a link away, or gives a link to another account.
LEMMA RowsStay ==
  ASSUME AccountsInv, Acc!Next
  PROVE  /\ \A i \in Invitation : inv[i] # Acc!NoRow => inv'[i] # Acc!NoRow
         /\ \A k \in Link : link[k] # Acc!NoRow => link'[k] # Acc!NoRow /\ link'[k].email = link[k].email
<1> DEFINE Kept == /\ \A i \in Invitation : inv[i] # Acc!NoRow => inv'[i] # Acc!NoRow
                   /\ \A k \in Link : link[k] # Acc!NoRow
                                        => link'[k] # Acc!NoRow /\ link'[k].email = link[k].email
<1> USE DEF Acc!accounts, Acc!history
<1>0. AccountRows
  BY DEF AccountsInv
<1>a. /\ \A r \in Acc!InvitationRow : r # Acc!NoRow
      /\ \A r \in Acc!LinkRow : /\ r # Acc!NoRow
                                /\ [r EXCEPT !.used = TRUE].email = r.email
                                /\ [r EXCEPT !.dead = TRUE].email = r.email
  BY DEF Acc!InvitationRow, Acc!LinkRow, Acc!NoRow
<1>b. \A i \in Invitation : inv[i] # Acc!NoRow =>
        /\ [inv[i] EXCEPT !.accepted = TRUE] # Acc!NoRow
        /\ [inv[i] EXCEPT !.revoked = TRUE] # Acc!NoRow
        /\ [inv[i] EXCEPT !.expired = TRUE] # Acc!NoRow
  BY <1>0, <1>a, InvitationRows DEF AccountRows
<1>c. \A k \in Link : link[k] # Acc!NoRow =>
        /\ [link[k] EXCEPT !.used = TRUE] # Acc!NoRow
        /\ [link[k] EXCEPT !.used = TRUE].email = link[k].email
        /\ [link[k] EXCEPT !.dead = TRUE] # Acc!NoRow
        /\ [link[k] EXCEPT !.dead = TRUE].email = link[k].email
  BY <1>0, <1>a, LinkRows DEF AccountRows
<1>1. CASE UNCHANGED <<inv, link>>
  BY <1>1
<1>2. ASSUME NEW p \in Proc, Acc!FinishRevoke(p) PROVE Kept
  BY <1>0, <1>2, <1>b DEF Acc!FinishRevoke, AccountRows
<1>3. ASSUME NEW p \in Proc, Acc!Cascade(p) PROVE Kept
  <2>1. proc[p].links \in SUBSET Link
    BY <1>3, RequestFields DEF Acc!Cascade, Acc!Changing
  <2> QED BY <1>0, <1>3, <1>c, <2>1 DEF Acc!Cascade, Acc!Killed, Acc!LinksOf, AccountRows
<1>9. ASSUME NEW p \in Proc, Acc!AdminExpiresLinks(p) PROVE Kept
  <2>1. \A k \in proc[p].links : link[k] # Acc!NoRow
    BY <1>9 DEF Acc!AdminExpiresLinks, AccountsInv, AccountRequests
  <2> QED BY <1>0, <1>9, <1>c, <2>1 DEF Acc!AdminExpiresLinks, Acc!Killed, AccountRows
<1>4. ASSUME NEW p \in Proc, NEW i \in Invitation, Acc!FinishInvite(p, i) PROVE Kept
  BY <1>0, <1>4, <1>b DEF Acc!FinishInvite, Acc!Live, AccountRows
<1>5. ASSUME NEW e \in Email, NEW k \in Link, Acc!CreateUser(e, k) \/ Acc!RequestReset(e, k)
      PROVE Kept
  BY <1>0, <1>5 DEF Acc!CreateUser, Acc!RequestReset, AccountRows
<1>6. ASSUME NEW i \in Invitation, Acc!Expire(i) \/ Acc!Accept(i) PROVE Kept
  BY <1>0, <1>6, <1>b DEF Acc!Expire, Acc!Accept, AccountRows
<1>7. ASSUME NEW k \in Link, Acc!LinkExpires(k) PROVE Kept
  BY <1>0, <1>7, <1>c DEF Acc!LinkExpires, AccountRows
<1>8. \/ UNCHANGED <<inv, link>>
      \/ \E p \in Proc : \/ Acc!FinishRevoke(p) \/ Acc!Cascade(p) \/ Acc!AdminExpiresLinks(p)
                         \/ \E i \in Invitation : Acc!FinishInvite(p, i)
      \/ \E e \in Email, k \in Link : Acc!CreateUser(e, k) \/ Acc!RequestReset(e, k)
      \/ \E i \in Invitation : Acc!Expire(i) \/ Acc!Accept(i)
      \/ \E k \in Link : Acc!LinkExpires(k)
  BY DEF Acc!Next, Acc!FinishBootstrap, Acc!LockUser, Acc!RollBack, Acc!StartBootstrap, Acc!StartInvite,
         Acc!AdminLoads, Acc!AdminSaves, Acc!AdminEndsSessions, Acc!StartRevoke, Acc!LockLink,
         Acc!SetActive
<1> QED BY <1>1, <1>2, <1>3, <1>4, <1>5, <1>6, <1>7, <1>8, <1>9

\* A step changes what one process is in the middle of, if any: it becomes idle,
\* starts a request, goes on with the admin site's change, or locks the user of
\* the reset it is making.
LEMMA ProcSteps ==
  ASSUME AccountsInv, Acc!Next
  PROVE  \/ UNCHANGED proc
         \/ \E p \in Proc : proc' = [proc EXCEPT ![p] = Acc!Idle]
         \/ \E p \in Proc, e \in Email : \E o \in {"bootstrap", "invite"} :
              proc' = [proc EXCEPT ![p] = [op |-> o, email |-> e]]
         \/ \E p \in Proc, i \in Invitation :
              inv[i] # Acc!NoRow /\ proc' = [proc EXCEPT ![p] = [op |-> "revoke", inv |-> i]]
         \/ \E p \in Proc, k \in Link :
              /\ link[k] # Acc!NoRow
              /\ proc' = [proc EXCEPT ![p] = [op |-> "change", links |-> {k}, email |-> link[k].email,
                                              user |-> FALSE]]
         \/ \E p \in Proc, e \in Email : \E a \in {"active", "inactive"} :
              proc' = [proc EXCEPT ![p] = [op |-> "load", email |-> e, was |-> a]]
         \/ \E p \in Proc, e \in Email : proc' = [proc EXCEPT ![p] = [op |-> "saved", email |-> e]]
         \/ \E p \in Proc, e \in Email : \E links \in SUBSET Link :
              /\ \A k \in links : link[k] # Acc!NoRow
              /\ proc' = [proc EXCEPT ![p] = [op |-> "expire", email |-> e, links |-> links]]
         \/ \E p \in Proc :
              /\ Acc!Changing(p)
              /\ \A o \in Proc : ~Acc!HoldsUser(o, proc[p].email)
              /\ \A k \in proc[p].links : Acc!Usable(k)
              /\ proc' = [proc EXCEPT ![p] = [proc[p] EXCEPT !.user = TRUE]]
<1> USE DEF Acc!Become
<1>1. CASE \E p \in Proc : \/ Acc!FinishBootstrap(p) \/ Acc!FinishRevoke(p) \/ Acc!Cascade(p)
                           \/ Acc!RollBack(p) \/ Acc!AdminExpiresLinks(p)
                           \/ \E i \in Invitation : Acc!FinishInvite(p, i)
  BY <1>1 DEF Acc!FinishBootstrap, Acc!FinishRevoke, Acc!Cascade, Acc!RollBack, Acc!AdminExpiresLinks,
              Acc!FinishInvite
<1>2. CASE \E p \in Proc, e \in Email : Acc!StartBootstrap(p, e) \/ Acc!StartInvite(p, e)
  BY <1>2 DEF Acc!StartBootstrap, Acc!StartInvite
<1>3. CASE \E p \in Proc, e \in Email : Acc!AdminLoads(p, e)
  <2>1. \A e \in Email : Acc!Exists(e) => account[e] \in {"active", "inactive"}
    BY DEF Acc!Exists, AccountsInv, AccountRows
  <2> QED BY <1>3, <2>1 DEF Acc!AdminLoads
<1>8. ASSUME NEW p \in Proc, Acc!AdminSaves(p)
      PROVE  \E e \in Email : proc' = [proc EXCEPT ![p] = [op |-> "saved", email |-> e]]
  BY <1>8, RequestFields DEF Acc!AdminSaves
<1>9. ASSUME NEW p \in Proc, Acc!AdminEndsSessions(p)
      PROVE  \E e \in Email : \E links \in SUBSET Link :
               /\ \A k \in links : link[k] # Acc!NoRow
               /\ proc' = [proc EXCEPT ![p] = [op |-> "expire", email |-> e, links |-> links]]
  <2> DEFINE links == Acc!Killed(Acc!LinksOf(proc[p].email))
  <2>1. links \in SUBSET Link /\ \A k \in links : link[k] # Acc!NoRow
    BY DEF Acc!Killed, Acc!LinksOf
  <2>2. proc[p].email \in Email
    BY <1>9, RequestFields DEF Acc!AdminEndsSessions
  <2>3. proc' = [proc EXCEPT ![p] = [op |-> "expire", email |-> proc[p].email, links |-> links]]
    BY <1>9 DEF Acc!AdminEndsSessions
  <2> HIDE DEF links
  <2> QED BY <2>1, <2>2, <2>3
<1>4. CASE \E p \in Proc, i \in Invitation : Acc!StartRevoke(p, i)
  BY <1>4 DEF Acc!StartRevoke
<1>5. CASE \E p \in Proc, k \in Link : Acc!LockLink(p, k)
  BY <1>5 DEF Acc!LockLink
<1>6. CASE \E p \in Proc : Acc!LockUser(p)
  BY <1>6 DEF Acc!LockUser
<1>7. CASE \/ \E e \in Email : Acc!SetActive(e) \/ \E k \in Link : Acc!CreateUser(e, k) \/ Acc!RequestReset(e, k)
           \/ \E i \in Invitation : Acc!Expire(i) \/ Acc!Accept(i)
           \/ \E k \in Link : Acc!LinkExpires(k)
  BY <1>7 DEF Acc!SetActive, Acc!CreateUser, Acc!RequestReset, Acc!Expire, Acc!Accept, Acc!LinkExpires
<1> QED BY <1>1, <1>2, <1>3, <1>4, <1>5, <1>6, <1>7, <1>8, <1>9 DEF Acc!Next

LEMMA AccountRequestsKept == AccountsInv /\ Acc!Next => AccountRequests'
<1> SUFFICES ASSUME AccountsInv, Acc!Next PROVE AccountRequests'
  OBVIOUS
<1> DEFINE T == {Acc!Idle} \cup [op : {"bootstrap", "invite", "saved"}, email : Email]
                \cup [op : {"revoke"}, inv : Invitation]
                \cup [op : {"load"}, email : Email, was : {"active", "inactive"}]
                \cup [op : {"expire"}, email : Email, links : SUBSET Link]
                \cup [op : {"change"}, links : SUBSET Link, email : Email, user : BOOLEAN]
           Fits(r) == /\ r \in T
                      /\ r.op = "revoke" => inv'[r.inv] # Acc!NoRow
                      /\ r.op = "expire" => \A k \in r.links : link'[k] # Acc!NoRow
                      /\ r.op = "change" => /\ \E k \in Link : r.links = {k}
                                            /\ \A k \in r.links :
                                                 link'[k] # Acc!NoRow /\ link'[k].email = r.email
<1>1. proc \in [Proc -> T]
  BY DEF AccountsInv, AccountRequests
<1>2. \A p \in Proc : Fits(proc[p])
  BY <1>1, RowsStay, RequestFields DEF AccountsInv, AccountRequests, Acc!Changing
<1>3. ASSUME NEW p \in Proc, NEW r, Fits(r), proc' = [proc EXCEPT ![p] = r]
      PROVE AccountRequests'
  <2>1. \A q \in Proc : Fits(proc'[q])
    BY <1>1, <1>2, <1>3
  <2>2. proc' \in [Proc -> T]
    BY <1>1, <1>3
  <2> QED BY <2>1, <2>2 DEF AccountRequests, Acc!Changing
<1>4. CASE UNCHANGED proc
  BY <1>1, <1>2, <1>4 DEF AccountRequests, Acc!Changing
<1>5. ASSUME NEW p \in Proc, proc' = [proc EXCEPT ![p] = Acc!Idle] PROVE AccountRequests'
  <2>1. Fits(Acc!Idle)
    BY DEF Acc!Idle
  <2> QED BY <1>3, <1>5, <2>1
<1>6. ASSUME NEW p \in Proc, NEW e \in Email, NEW o \in {"bootstrap", "invite"},
             proc' = [proc EXCEPT ![p] = [op |-> o, email |-> e]]
      PROVE AccountRequests'
  <2>1. Fits([op |-> o, email |-> e])
    OBVIOUS
  <2> QED BY <1>3, <1>6, <2>1
<1>7. ASSUME NEW p \in Proc, NEW i \in Invitation, inv[i] # Acc!NoRow,
             proc' = [proc EXCEPT ![p] = [op |-> "revoke", inv |-> i]]
      PROVE AccountRequests'
  <2>1. Fits([op |-> "revoke", inv |-> i])
    BY <1>7, RowsStay
  <2> QED BY <1>3, <1>7, <2>1
<1>8. ASSUME NEW p \in Proc, NEW k \in Link, link[k] # Acc!NoRow,
             proc' = [proc EXCEPT ![p] = [op |-> "change", links |-> {k}, email |-> link[k].email,
                                          user |-> FALSE]]
      PROVE AccountRequests'
  <2>1. link[k].email \in Email
    BY <1>8, LinkRows DEF AccountsInv, AccountRows, Acc!LinkRow
  <2>2. Fits([op |-> "change", links |-> {k}, email |-> link[k].email, user |-> FALSE])
    BY <1>8, <2>1, RowsStay
  <2> HIDE DEF Fits
  <2> QED BY <1>3, <1>8, <2>2
<1>9. ASSUME NEW p \in Proc, NEW e \in Email, NEW a \in {"active", "inactive"},
             proc' = [proc EXCEPT ![p] = [op |-> "load", email |-> e, was |-> a]]
      PROVE AccountRequests'
  <2>1. Fits([op |-> "load", email |-> e, was |-> a])
    OBVIOUS
  <2> HIDE DEF Fits
  <2> QED BY <1>3, <1>9, <2>1
<1>11. ASSUME NEW p \in Proc, NEW e \in Email,
              proc' = [proc EXCEPT ![p] = [op |-> "saved", email |-> e]]
       PROVE AccountRequests'
  <2>1. Fits([op |-> "saved", email |-> e])
    OBVIOUS
  <2> HIDE DEF Fits
  <2> QED BY <1>3, <1>11, <2>1
<1>12. ASSUME NEW p \in Proc, NEW e \in Email, NEW links \in SUBSET Link,
              \A k \in links : link[k] # Acc!NoRow,
              proc' = [proc EXCEPT ![p] = [op |-> "expire", email |-> e, links |-> links]]
       PROVE AccountRequests'
  <2>1. Fits([op |-> "expire", email |-> e, links |-> links])
    BY <1>12, RowsStay
  <2> HIDE DEF Fits
  <2> QED BY <1>3, <1>12, <2>1
<1>10. ASSUME NEW p \in Proc, Acc!Changing(p), proc' = [proc EXCEPT ![p] = [proc[p] EXCEPT !.user = TRUE]]
       PROVE AccountRequests'
  <2>1. proc[p] \in [op : {"change"}, links : SUBSET Link, email : Email, user : BOOLEAN]
    BY <1>1, <1>10 DEF Acc!Changing, Acc!Idle
  <2>2. Fits([proc[p] EXCEPT !.user = TRUE])
    BY <1>2, <1>10, <2>1 DEF Acc!Changing
  <2> HIDE DEF Fits
  <2> QED BY <1>3, <1>10, <2>2
<1> QED BY <1>4, <1>5, <1>6, <1>7, <1>8, <1>9, <1>10, <1>11, <1>12, ProcSteps

\* A link sets a password in a reset and nowhere else, and becomes stale in its
\* cascade or in that of the admin site.
LEMMA OnlyCascadesChangePasswords ==
  ASSUME Acc!Next
  PROVE  UNCHANGED <<stale, stamped>> \/ \E p \in Proc : Acc!Cascade(p) \/ Acc!AdminExpiresLinks(p)
BY DEF Acc!Next, Acc!FinishBootstrap, Acc!FinishRevoke, Acc!LockUser, Acc!RollBack, Acc!StartBootstrap,
       Acc!StartInvite, Acc!AdminLoads, Acc!AdminSaves, Acc!AdminEndsSessions, Acc!FinishInvite,
       Acc!StartRevoke, Acc!LockLink, Acc!SetActive, Acc!CreateUser, Acc!RequestReset, Acc!Expire, Acc!Accept, Acc!LinkExpires, Acc!history

\* A link that was used or died stays so.
LEMMA SpentStaysSpent ==
  ASSUME AccountsInv, Acc!Next, NEW k \in Link, link[k] # Acc!NoRow, link[k].used \/ link[k].dead
  PROVE  link'[k].used \/ link'[k].dead
<1>0. link[k] \in Acc!LinkRow /\ link \in [Link -> {Acc!NoRow} \cup Acc!LinkRow]
  BY LinkRows DEF AccountsInv, AccountRows
<1>1. /\ [link[k] EXCEPT !.used = TRUE].used
      /\ [link[k] EXCEPT !.dead = TRUE].dead
  BY <1>0 DEF Acc!LinkRow
<1>2. CASE UNCHANGED link
  BY <1>2
<1>3. ASSUME NEW p \in Proc, Acc!Cascade(p) PROVE link'[k].used \/ link'[k].dead
  <2>1. link'[k] \in {link[k], [link[k] EXCEPT !.used = TRUE], [link[k] EXCEPT !.dead = TRUE]}
    BY <1>3 DEF Acc!Cascade
  <2> QED BY <1>1, <2>1
<1>7. ASSUME NEW p \in Proc, Acc!AdminExpiresLinks(p) PROVE link'[k].used \/ link'[k].dead
  <2>1. link'[k] \in {link[k], [link[k] EXCEPT !.dead = TRUE]}
    BY <1>7 DEF Acc!AdminExpiresLinks
  <2> QED BY <1>1, <2>1
<1>4. ASSUME NEW e \in Email, NEW j \in Link, Acc!CreateUser(e, j) \/ Acc!RequestReset(e, j)
      PROVE link'[k].used \/ link'[k].dead
  BY <1>0, <1>4 DEF Acc!CreateUser, Acc!RequestReset
<1>5. ASSUME NEW j \in Link, Acc!LinkExpires(j) PROVE link'[k].used \/ link'[k].dead
  BY <1>0, <1>1, <1>5 DEF Acc!LinkExpires
<1>6. \/ UNCHANGED link
      \/ \E p \in Proc : Acc!Cascade(p) \/ Acc!AdminExpiresLinks(p)
      \/ \E e \in Email, j \in Link : Acc!CreateUser(e, j) \/ Acc!RequestReset(e, j)
      \/ \E j \in Link : Acc!LinkExpires(j)
  BY DEF Acc!Next, Acc!FinishBootstrap, Acc!FinishRevoke, Acc!LockUser, Acc!RollBack, Acc!StartBootstrap,
         Acc!StartInvite, Acc!AdminLoads, Acc!AdminSaves, Acc!AdminEndsSessions, Acc!FinishInvite,
         Acc!StartRevoke, Acc!LockLink, Acc!SetActive, Acc!Expire, Acc!Accept
<1> QED BY <1>2, <1>3, <1>4, <1>5, <1>6, <1>7

LEMMA StaleLinksStaySpent == AccountsInv /\ Acc!Next => StaleLinksAreSpent'
<1> SUFFICES ASSUME AccountsInv, Acc!Next, NEW k \in stale'
             PROVE link'[k] # Acc!NoRow /\ (link'[k].used \/ link'[k].dead)
  BY DEF StaleLinksAreSpent
<1>1. CASE k \in stale
  <2>1. k \in Link /\ link[k] # Acc!NoRow /\ (link[k].used \/ link[k].dead)
    BY <1>1 DEF AccountsInv, StaleLinksAreSpent, AccountRows
  <2> QED BY <2>1, RowsStay, SpentStaysSpent
<1>2. CASE k \notin stale
  <2>1. PICK p \in Proc : Acc!Cascade(p) \/ Acc!AdminExpiresLinks(p)
    BY <1>2, OnlyCascadesChangePasswords
  <2>2. /\ k \in Link /\ link[k] # Acc!NoRow
        /\ \/ ~Acc!Outstanding(k) /\ link'[k] = link[k]
           \/ link'[k] \in {[link[k] EXCEPT !.dead = TRUE], [link[k] EXCEPT !.used = TRUE]}
    <3>1. CASE Acc!Cascade(p)
      <4>1. /\ k \in Link
            /\ k \in proc[p].links \/ link[k] # Acc!NoRow
            /\ k \notin proc[p].links /\ Acc!Outstanding(k) => link'[k] = [link[k] EXCEPT !.dead = TRUE]
            /\ k \notin proc[p].links /\ ~Acc!Outstanding(k) => link'[k] = link[k]
            /\ k \in proc[p].links => link'[k] = [link[k] EXCEPT !.used = TRUE]
        BY <1>2, <3>1, RequestFields DEF Acc!Cascade, Acc!Changing, Acc!Killed, Acc!LinksOf
      <4>2. link[k] # Acc!NoRow
        BY <3>1, <4>1 DEF Acc!Cascade, AccountsInv, AccountRequests
      <4> QED BY <4>1, <4>2
    <3>2. CASE Acc!AdminExpiresLinks(p)
      <4>1. k \in proc[p].links /\ k \in Link /\ link[k] # Acc!NoRow
        BY <1>2, <3>2, RequestFields DEF Acc!AdminExpiresLinks, AccountsInv, AccountRequests
      <4> QED BY <3>2, <4>1 DEF Acc!AdminExpiresLinks, Acc!Killed
    <3> QED BY <2>1, <3>1, <3>2
  <2>4. link[k] \in Acc!LinkRow
    BY <2>2, LinkRows DEF AccountsInv, AccountRows
  <2> QED BY <2>2, <2>4, RowsStay DEF Acc!LinkRow, Acc!Outstanding
<1> QED BY <1>1, <1>2

LEMMA UserLocksStayExclusive == AccountsInv /\ Acc!Next => UserLocksExclusive'
<1> SUFFICES ASSUME AccountsInv, Acc!Next PROVE UserLocksExclusive'
  OBVIOUS
<1>0. UserLocksExclusive /\ proc = [q \in Proc |-> proc[q]]
  BY DEF AccountsInv, AccountRequests
<1>1. ASSUME NEW p \in Proc, NEW r, proc' = [proc EXCEPT ![p] = r],
             r.op = "change" /\ r.user => \A o \in Proc : ~Acc!HoldsUser(o, r.email)
      PROVE UserLocksExclusive'
  <2>1. \A q \in Proc : proc'[q] = IF q = p THEN r ELSE proc[q]
    BY <1>0, <1>1
  <2> QED BY <1>0, <1>1, <2>1 DEF UserLocksExclusive, Acc!Changing, Acc!HoldsUser
<1>2. CASE UNCHANGED proc
  BY <1>0, <1>2 DEF UserLocksExclusive, Acc!Changing
<1>3. ASSUME NEW p \in Proc, proc' = [proc EXCEPT ![p] = Acc!Idle] PROVE UserLocksExclusive'
  BY <1>1, <1>3 DEF Acc!Idle
<1>4. ASSUME NEW p \in Proc, NEW e \in Email, NEW o \in {"bootstrap", "invite"},
             proc' = [proc EXCEPT ![p] = [op |-> o, email |-> e]]
      PROVE UserLocksExclusive'
  BY <1>1, <1>4
<1>5. ASSUME NEW p \in Proc, NEW i \in Invitation,
             proc' = [proc EXCEPT ![p] = [op |-> "revoke", inv |-> i]]
      PROVE UserLocksExclusive'
  BY <1>1, <1>5
<1>6. ASSUME NEW p \in Proc, NEW k \in Link,
             proc' = [proc EXCEPT ![p] = [op |-> "change", links |-> {k}, email |-> link[k].email,
                                          user |-> FALSE]]
      PROVE UserLocksExclusive'
  BY <1>1, <1>6
<1>7. ASSUME NEW p \in Proc, NEW e \in Email, NEW a, NEW links,
             \/ proc' = [proc EXCEPT ![p] = [op |-> "load", email |-> e, was |-> a]]
             \/ proc' = [proc EXCEPT ![p] = [op |-> "saved", email |-> e]]
             \/ proc' = [proc EXCEPT ![p] = [op |-> "expire", email |-> e, links |-> links]]
      PROVE UserLocksExclusive'
  BY <1>1, <1>7
<1>8. ASSUME NEW p \in Proc, Acc!Changing(p), \A o \in Proc : ~Acc!HoldsUser(o, proc[p].email),
             proc' = [proc EXCEPT ![p] = [proc[p] EXCEPT !.user = TRUE]]
      PROVE UserLocksExclusive'
  <2>1. [proc[p] EXCEPT !.user = TRUE].email = proc[p].email
    BY <1>8 DEF Acc!Changing, AccountsInv, AccountRequests, Acc!Idle
  <2> QED BY <1>1, <1>8, <2>1
<1> QED BY <1>2, <1>3, <1>4, <1>5, <1>6, <1>7, <1>8, ProcSteps

LEMMA ChangesStayInTime == AccountsInv /\ Acc!Next => ChangesAreInTime'
<1> SUFFICES ASSUME AccountsInv, Acc!Next PROVE ChangesAreInTime'
  OBVIOUS
<1>0. ChangesAreInTime /\ proc = [q \in Proc |-> proc[q]]
  BY DEF AccountsInv, AccountRequests
<1>1. ASSUME NEW p \in Proc, Acc!Cascade(p) PROVE ChangesAreInTime'
  <2>1. /\ Acc!Changing(p) /\ proc[p].user
        /\ \A q \in Proc : proc'[q] = IF q = p THEN Acc!Idle ELSE proc[q]
        /\ \A k \in stale' \ stale : \/ k \in proc[p].links
                                     \/ link[k] # Acc!NoRow /\ link[k].email = proc[p].email
    BY <1>0, <1>1 DEF Acc!Cascade, Acc!LinksOf, Acc!Become
  <2>2. \A k \in stale' \ stale : link[k].email = proc[p].email
    BY <2>1 DEF AccountsInv, AccountRequests
  <2> SUFFICES ASSUME NEW q \in Proc, q # p, Acc!Changing(q), proc[q].user, NEW k \in proc[q].links
               PROVE  k \notin stale'
    BY <2>1 DEF ChangesAreInTime, Acc!Changing, Acc!Idle
  <2>3. k \notin stale
    BY <1>0 DEF ChangesAreInTime
  <2>4. link[k].email = proc[q].email
    BY DEF AccountsInv, AccountRequests
  <2> QED BY <2>1, <2>2, <2>3, <2>4 DEF AccountsInv, UserLocksExclusive
<1>3. ASSUME NEW p \in Proc, Acc!AdminExpiresLinks(p) PROVE ChangesAreInTime'
  <2>1. /\ \A q \in Proc : proc'[q] = IF q = p THEN Acc!Idle ELSE proc[q]
        /\ stale' = stale \cup proc[p].links /\ proc[p].op = "expire"
        /\ \A q \in Proc \ {p}, k \in proc[p].links : ~Acc!HoldsLink(q, k)
    BY <1>0, <1>3 DEF Acc!AdminExpiresLinks, Acc!Become, Acc!NoneLocked
  <2> SUFFICES ASSUME NEW q \in Proc, q # p, Acc!Changing(q), proc[q].user
               PROVE  proc[q].links \cap stale' = {}
    BY <2>1 DEF ChangesAreInTime, Acc!Changing, Acc!Idle
  <2>2. PICK k \in Link : proc[q].links = {k}
    BY DEF AccountsInv, AccountRequests
  <2>3. k \notin stale /\ k \notin proc[p].links
    BY <1>0, <2>1, <2>2 DEF ChangesAreInTime, Acc!HoldsLink
  <2> QED BY <2>1, <2>2, <2>3
<1>2. CASE UNCHANGED <<stale, stamped>>
  <2>1. ASSUME NEW p \in Proc, NEW r, proc' = [proc EXCEPT ![p] = r],
               r.op = "change" /\ r.user => r.links \cap stale = {}
        PROVE ChangesAreInTime'
    <3>1. \A q \in Proc : proc'[q] = IF q = p THEN r ELSE proc[q]
      BY <1>0, <2>1
    <3> QED BY <1>0, <1>2, <2>1, <3>1 DEF ChangesAreInTime, Acc!Changing
  <2>2. CASE UNCHANGED proc
    BY <1>0, <1>2, <2>2 DEF ChangesAreInTime, Acc!Changing
  <2>3. ASSUME NEW p \in Proc, proc' = [proc EXCEPT ![p] = Acc!Idle] PROVE ChangesAreInTime'
    BY <2>1, <2>3 DEF Acc!Idle
  <2>4. ASSUME NEW p \in Proc, NEW e \in Email, NEW o \in {"bootstrap", "invite"},
               proc' = [proc EXCEPT ![p] = [op |-> o, email |-> e]]
        PROVE ChangesAreInTime'
    BY <2>1, <2>4
  <2>5. ASSUME NEW p \in Proc, NEW i \in Invitation,
               proc' = [proc EXCEPT ![p] = [op |-> "revoke", inv |-> i]]
        PROVE ChangesAreInTime'
    BY <2>1, <2>5
  <2>6. ASSUME NEW p \in Proc, NEW k \in Link,
               proc' = [proc EXCEPT ![p] = [op |-> "change", links |-> {k}, email |-> link[k].email,
                                            user |-> FALSE]]
        PROVE ChangesAreInTime'
    BY <2>1, <2>6
  <2>7. ASSUME NEW p \in Proc, NEW e \in Email, NEW a, NEW links,
               \/ proc' = [proc EXCEPT ![p] = [op |-> "load", email |-> e, was |-> a]]
               \/ proc' = [proc EXCEPT ![p] = [op |-> "saved", email |-> e]]
               \/ proc' = [proc EXCEPT ![p] = [op |-> "expire", email |-> e, links |-> links]]
        PROVE ChangesAreInTime'
    BY <2>1, <2>7
  <2>8. ASSUME NEW p \in Proc, Acc!Changing(p), \A k \in proc[p].links : Acc!Usable(k),
               proc' = [proc EXCEPT ![p] = [proc[p] EXCEPT !.user = TRUE]]
        PROVE ChangesAreInTime'
    <3>1. [proc[p] EXCEPT !.user = TRUE].links = proc[p].links
      BY <2>8 DEF Acc!Changing, AccountsInv, AccountRequests, Acc!Idle
    <3>2. proc[p].links \cap stale = {}
      BY <2>8 DEF Acc!Usable, Acc!Outstanding, AccountsInv, StaleLinksAreSpent
    <3> QED BY <2>1, <2>8, <3>1, <3>2
  <2> QED BY <2>2, <2>3, <2>4, <2>5, <2>6, <2>7, <2>8, ProcSteps
<1> QED BY <1>1, <1>2, <1>3, OnlyCascadesChangePasswords

\* Everything above holds in every state of the accounts.
THEOREM AccountsInductive == Acc!Spec => []AccountsInv
<1>1. AccountsInv /\ [Acc!Next]_(Acc!vars) => AccountsInv'
  <2> SUFFICES ASSUME AccountsInv, [Acc!Next]_(Acc!vars) PROVE AccountsInv'
    OBVIOUS
  <2>1. CASE Acc!Next
    BY <2>1, AccountRowsKept, AccountRequestsKept, StaleLinksStaySpent, UserLocksStayExclusive,
       ChangesStayInTime DEF AccountsInv
  <2>2. CASE UNCHANGED Acc!vars
    BY <2>2 DEF Acc!vars, AccountsInv, AccountRows, AccountRequests, StaleLinksAreSpent,
                UserLocksExclusive, ChangesAreInTime, Acc!Changing
  <2> QED BY <2>1, <2>2
<1> QED BY <1>1, AccountsStart, PTL DEF Acc!Spec

\* An invitation that was accepted or revoked keeps that answer (Invitation.status,
\* invitation.py:60): a revocation saved late finds it accepted, and accepted wins.
THEOREM InvitationAnswersAreFinal == Acc!Spec => AnswersAreFinal
<1>1. AccountsInv /\ [Acc!Next]_(Acc!vars) =>
        [\A i \in Invitation :
           inv[i] # Acc!NoRow /\ Acc!Status(inv[i]) \in {"accepted", "revoked"}
             => Acc!Status(inv'[i]) = Acc!Status(inv[i])]_(Acc!vars)
  <2> SUFFICES ASSUME AccountsInv, Acc!Next, NEW i \in Invitation, inv[i] # Acc!NoRow,
                      Acc!Status(inv[i]) \in {"accepted", "revoked"}
               PROVE  Acc!Status(inv'[i]) = Acc!Status(inv[i])
    OBVIOUS
  <2>0. /\ inv[i] \in Acc!InvitationRow /\ inv \in [Invitation -> {Acc!NoRow} \cup Acc!InvitationRow]
        /\ inv[i].accepted \/ inv[i].revoked
    BY InvitationRows DEF AccountsInv, AccountRows, Acc!Status
  <2>1. CASE inv'[i] = inv[i]
    BY <2>1 DEF Acc!Status
  <2>2. CASE inv'[i] = [inv[i] EXCEPT !.expired = TRUE]
    BY <2>0, <2>2 DEF Acc!Status, Acc!InvitationRow
  <2>3. CASE inv'[i] = [inv[i] EXCEPT !.revoked = TRUE]
    BY <2>0, <2>3 DEF Acc!Status, Acc!InvitationRow
  <2>4. ASSUME NEW p \in Proc, Acc!FinishRevoke(p)
        PROVE inv'[i] \in {inv[i], [inv[i] EXCEPT !.revoked = TRUE]}
    BY <2>0, <2>4 DEF Acc!FinishRevoke
  <2>5. ASSUME NEW p \in Proc, NEW j \in Invitation, Acc!FinishInvite(p, j)
        PROVE inv'[i] = inv[i]
    BY <2>0, <2>5 DEF Acc!FinishInvite, Acc!Live
  <2>6. ASSUME NEW j \in Invitation, Acc!Expire(j)
        PROVE inv'[i] \in {inv[i], [inv[i] EXCEPT !.expired = TRUE]}
    BY <2>0, <2>6 DEF Acc!Expire
  <2>7. ASSUME NEW j \in Invitation, Acc!Accept(j) PROVE inv'[i] = inv[i]
    BY <2>0, <2>7 DEF Acc!Accept, Acc!Status
  <2>8. \/ UNCHANGED inv
        \/ \E p \in Proc : Acc!FinishRevoke(p) \/ \E j \in Invitation : Acc!FinishInvite(p, j)
        \/ \E j \in Invitation : Acc!Expire(j) \/ Acc!Accept(j)
    BY DEF Acc!Next, Acc!FinishBootstrap, Acc!LockUser, Acc!Cascade, Acc!RollBack, Acc!StartBootstrap,
           Acc!StartInvite, Acc!AdminLoads, Acc!AdminSaves, Acc!AdminEndsSessions, Acc!AdminExpiresLinks,
           Acc!StartRevoke, Acc!LockLink, Acc!SetActive, Acc!CreateUser, Acc!RequestReset, Acc!LinkExpires
  <2> QED BY <2>1, <2>2, <2>3, <2>4, <2>5, <2>6, <2>7, <2>8
<1> QED BY <1>1, AccountsInductive, PTL DEF Acc!Spec, AnswersAreFinal, Acc!AnswersAreFinal

\* A link sets no password once a change of its account's password has used or
\* expired it (perform_reset, passwords.py:58; on_password_changed, passwords.py:88):
\* whichever reset gets the user's row second finds its link spent, and the admin
\* site's cascade waits for the links a reset has locked.
THEOREM StaleLinksSetNoPassword == Acc!Spec => LinksDieWithThePassword
<1>1. AccountsInv /\ [Acc!Next]_(Acc!vars) =>
        [\A k \in stale : stamped'[k] = stamped[k]]_(Acc!vars)
  <2> SUFFICES ASSUME AccountsInv, Acc!Next, NEW k \in stale PROVE stamped'[k] = stamped[k]
    OBVIOUS
  <2>1. ASSUME NEW p \in Proc, Acc!Cascade(p) PROVE stamped'[k] = stamped[k]
    <3>1. k \notin proc[p].links /\ k \in Link
      BY <2>1 DEF Acc!Cascade, AccountsInv, ChangesAreInTime, AccountRows
    <3> QED BY <2>1, <3>1 DEF Acc!Cascade
  <2>2. ASSUME NEW p \in Proc, Acc!AdminExpiresLinks(p) PROVE stamped'[k] = stamped[k]
    BY <2>2 DEF Acc!AdminExpiresLinks
  <2> QED BY <2>1, <2>2, OnlyCascadesChangePasswords
<1> QED BY <1>1, AccountsInductive, PTL DEF Acc!Spec, LinksDieWithThePassword, Acc!LinksDieWithThePassword

-----------------------------------------------------------------------------
(* The browser.  A call has at most one message in flight at a time, and so  *)
(* has the refresh of a tab; as long as no refresh crossed another, the one  *)
(* in flight carries the row the browser holds, the current one or the one   *)
(* before it.                                                                *)

Message == [to : {"api", "401", "done", "clear", "refresh", "set"},
            of : Calls \cup Tabs \cup {Tab!Nobody}, try : {1, 2}, with : Nat]
CallStates == {"new", "waiting", "refreshing", "replayed", "done", "unauth", "failed"}

\* The variables and the messages have their types.
BrowserTypes ==
  /\ jar \in [access : Nat, refresh : Nat] /\ tip \in Nat \ {0}
  /\ over \in {"no", "logout", "late", "reuse"} /\ crossed \in BOOLEAN
  /\ state \in [Calls -> CallStates]
  /\ asking \in SUBSET Tabs
  /\ effects \in [Calls -> Nat] /\ tries \in [Calls -> Nat]
  /\ \A m \in wire : /\ m \in Message
                     /\ (m.of \in Calls => m.to \in {"api", "401", "done", "clear"})
                     /\ (m.of \notin Calls => m.to \in {"refresh", "set", "clear"})

\* One call: what was sent and what was done about it follow from where it stands.
CallConsistent(c) ==
  /\ \A m, n \in wire : m.of = c /\ n.of = c => m = n
  /\ \A m \in wire : m.of = c => m.try = tries[c]
  /\ state[c] = "new" => tries[c] = 0
  /\ state[c] \in {"waiting", "refreshing"} => tries[c] = 1
  /\ state[c] = "replayed" => tries[c] = 2
  /\ state[c] \in {"new", "refreshing"} => effects[c] = 0 /\ \A m \in wire : m.of # c
  /\ tries[c] <= 2 /\ effects[c] <= 1
  /\ effects[c] = 1 => \A m \in wire : m.of = c => m.to \notin {"api", "401"}
CallsConsistent == \A c \in Calls : CallConsistent(c)

\* One tab: its refresh is in flight at most once, and only while it asks.
TabConsistent(t) ==
  /\ (\E c \in Calls : TabOf[c] = t /\ state[c] = "refreshing") => t \in asking
  /\ \A m, n \in wire : m.of = t /\ n.of = t => m = n
  /\ t \notin asking => \A m \in wire : m.of # t
TabsConsistent == \A t \in Tabs : TabConsistent(t)

\* As long as no refresh crossed another and the login lives.
RefreshesInOrder ==
  (~crossed /\ over = "no") =>
    /\ jar.refresh \in {tip - 1, tip} \ {0}
    /\ \A m, n \in wire : m.of \notin Calls /\ n.of \notin Calls => m = n
    /\ \A m \in wire : /\ m.to # "clear"
                       /\ (m.to = "refresh" => m.with = jar.refresh)
                       /\ (m.to = "set" => m.with = tip)

BrowserInv ==
  /\ BrowserTypes
  /\ CallsConsistent
  /\ TabsConsistent
  /\ RefreshesInOrder
  /\ Tab!ReuseNeedsACrossing

\* What the names of messages tell apart.
LEMMA Names ==
  /\ TabOf \in [Calls -> Tabs]
  /\ \A t \in Tabs : t \notin Calls /\ t # Tab!Nobody
  /\ Tab!Nobody \notin Calls
BY AccessAssumption DEF Tab!NamesAssumption

\* A message given up and one whose cookie expired are messages still.
LEMMA Rewritten ==
  ASSUME NEW m \in Message
  PROVE  /\ LET a == [m EXCEPT !.of = Tab!Nobody] IN
            a \in Message /\ a.to = m.to /\ a.with = m.with /\ a.of = Tab!Nobody /\ a.try = m.try
         /\ LET a == [m EXCEPT !.with = 0] IN
            a \in Message /\ a.to = m.to /\ a.with = 0 /\ a.of = m.of /\ a.try = m.try
BY DEF Message

\* The initial state: a browser that is signed in and has sent nothing.
LEMMA BrowserStart == Tab!Init => BrowserInv
<1> SUFFICES ASSUME Tab!Init PROVE BrowserInv
  OBVIOUS
<1> USE DEF Tab!Init, Tab!Signed
<1>1. BrowserTypes
  <2>1. jar \in [access : Nat, refresh : Nat]
    OBVIOUS
  <2>2. wire = {} /\ tip = 1 /\ over = "no" /\ asking = {}
    OBVIOUS
  <2>a. crossed \in BOOLEAN
    OBVIOUS
  <2>3. /\ state \in [Calls -> CallStates]
        /\ effects \in [Calls -> Nat] /\ tries \in [Calls -> Nat]
    BY DEF CallStates
  <2> HIDE DEF Tab!Init
  <2> QED BY <2>1, <2>2, <2>a, <2>3 DEF BrowserTypes
<1>2. CallsConsistent
  BY DEF CallsConsistent, CallConsistent
<1>3. TabsConsistent
  BY DEF TabsConsistent, TabConsistent
<1>4. RefreshesInOrder /\ Tab!ReuseNeedsACrossing
  BY DEF RefreshesInOrder, Tab!ReuseNeedsACrossing
<1> QED BY <1>1, <1>2, <1>3, <1>4 DEF BrowserInv

\* How a step changes the messages in flight: it adds calls, or a refresh, it
\* answers one, takes one away, or rewrites the cookie or the sender of some.
LEMMA SentMessages ==
  ASSUME BrowserTypes, NEW c \in Calls, NEW s \in Nat, tries[c] <= 1
  PROVE  Tab!Sent(c, s) \in Message /\ Tab!Sent(c, s).of = c /\ Tab!Sent(c, s).to = "api"
         /\ Tab!Sent(c, s).try = tries[c] + 1 /\ Tab!Sent(c, s).with = s
BY DEF Tab!Sent, Message, BrowserTypes

LEMMA AskedMessages ==
  ASSUME BrowserTypes, NEW t \in Tabs
  PROVE  Tab!Asked(t) \in Message /\ Tab!Asked(t).of = t /\ Tab!Asked(t).to = "refresh"
         /\ Tab!Asked(t).with = jar.refresh
BY DEF Tab!Asked, Message, BrowserTypes

LEMMA AnsweredMessages ==
  ASSUME BrowserTypes, NEW m \in wire, NEW s \in Nat,
         NEW k \in {"api", "401", "done", "clear", "refresh", "set"}
  PROVE  \E a \in Message : /\ Tab!Answers(m, k, s) = (wire \ {m}) \cup {a}
                            /\ a.to = k /\ a.with = s /\ a.of = m.of /\ a.try = m.try
<1> DEFINE a == [m EXCEPT !.to = k, !.with = s]
<1>1. m \in Message
  BY DEF BrowserTypes
<1>2. a \in Message /\ a.to = k /\ a.with = s /\ a.of = m.of /\ a.try = m.try
  BY <1>1 DEF Message
<1>3. Tab!Answers(m, k, s) = (wire \ {m}) \cup {a}
  BY DEF Tab!Answers
<1> QED BY <1>2, <1>3

\* The API answers a call: it acts on it and says so, or says 401.
LEMMA ServedCall ==
  ASSUME BrowserTypes, NEW m \in wire, Tab!ServeCall(m)
  PROVE  /\ m.to = "api" /\ m.of \in Calls
         /\ \E a \in Message :
              /\ wire' = (wire \ {m}) \cup {a} /\ a.of = m.of /\ a.try = m.try
              /\ \/ /\ a.to \in {"done", "clear"} /\ effects' = [effects EXCEPT ![m.of] = @ + 1]
                    /\ over' \in {over, "logout"} /\ (a.to = "clear" => over' = "logout")
                 \/ a.to = "401" /\ UNCHANGED <<effects, over>>
         /\ over = "no" \/ UNCHANGED over
         /\ UNCHANGED <<jar, tip, state, asking, tries, crossed>>
<1>1. m.to = "api" /\ m.of \in Calls
  BY DEF Tab!ServeCall, BrowserTypes
<1>2. CASE Tab!Alive(m.with)
  <2>1. /\ wire' = Tab!Answers(m, IF Kind[m.of] = "logout" THEN "clear" ELSE "done", 0)
        /\ effects' = [effects EXCEPT ![m.of] = @ + 1]
        /\ over' = IF Kind[m.of] = "logout" THEN "logout" ELSE over
        /\ over = "no"
    BY <1>2 DEF Tab!ServeCall, Tab!Alive, Tab!None
  <2>2. CASE Kind[m.of] = "logout"
    BY <1>1, <2>1, <2>2, AnsweredMessages DEF Tab!ServeCall
  <2>3. CASE Kind[m.of] # "logout"
    BY <1>1, <2>1, <2>3, AnsweredMessages DEF Tab!ServeCall
  <2> QED BY <2>2, <2>3
<1>3. CASE ~Tab!Alive(m.with)
  <2>1. wire' = Tab!Answers(m, "401", 0) /\ UNCHANGED <<effects, over>>
    BY <1>3 DEF Tab!ServeCall, Tab!None
  <2> QED BY <1>1, <2>1, AnsweredMessages DEF Tab!ServeCall
<1> QED BY <1>2, <1>3

\* The API answers a refresh: with the current row's tokens, or by clearing the cookies.
LEMMA ServedRefresh ==
  ASSUME BrowserTypes, NEW m \in wire, Tab!ServeRefresh(m)
  PROVE  /\ m.to = "refresh" /\ m.of \notin Calls
         /\ \E a \in Message :
              /\ wire' = (wire \ {m}) \cup {a} /\ a.of = m.of /\ a.try = m.try
              /\ \/ /\ a.to = "set" /\ a.with = tip' /\ UNCHANGED over
                    /\ m.with \in {tip, tip - 1} \ {0}
                    /\ tip' = IF m.with = tip THEN tip + 1 ELSE tip
                 \/ /\ a.to = "clear" /\ UNCHANGED tip
                    /\ m.with = 0 \/ over # "no" \/ m.with < tip
                    /\ over' = IF m.with = 0 \/ over # "no" THEN over
                               ELSE IF m.with = tip - 1 THEN "late" ELSE "reuse"
         /\ UNCHANGED <<jar, state, asking, effects, tries, crossed>>
<1>1. m.to = "refresh" /\ m.of \notin Calls /\ m.with \in Nat /\ tip \in Nat
  BY DEF Tab!ServeRefresh, BrowserTypes, Message
<1>2. CASE Tab!Rotate(m)
  <2>1. tip' \in Nat /\ wire' = Tab!Answers(m, "set", tip')
    BY <1>1, <1>2 DEF Tab!Rotate
  <2>2. \E a \in Message : /\ wire' = (wire \ {m}) \cup {a}
                           /\ a.to = "set" /\ a.with = tip' /\ a.of = m.of /\ a.try = m.try
    BY <2>1, AnsweredMessages
  <2> QED BY <1>1, <1>2, <2>2 DEF Tab!Rotate, Tab!ServeRefresh, Tab!None
<1>3. CASE Tab!Refuse(m)
  <2>1. \E a \in Message : /\ wire' = (wire \ {m}) \cup {a}
                           /\ a.to = "clear" /\ a.of = m.of /\ a.try = m.try
    BY <1>3, AnsweredMessages DEF Tab!Refuse, Tab!None
  <2> QED BY <1>1, <1>3, <2>1 DEF Tab!Refuse, Tab!ServeRefresh, Tab!None
<1> QED BY <1>2, <1>3 DEF Tab!ServeRefresh

\* A tab gives its refresh up: what is in flight of it has no one to go to.
LEMMA GivenUp ==
  ASSUME BrowserTypes, NEW t \in Tabs, Tab!RefreshFails(t)
  PROVE  \A n \in wire' : \/ n \in wire /\ n.of # t
                          \/ \E m \in wire : /\ n \in Message /\ m.of = t /\ n.of = Tab!Nobody /\ n.to = m.to
                                             /\ n.with = m.with /\ n.try = m.try
<1> SUFFICES ASSUME NEW m \in wire, m.of = t
             PROVE  LET n == [m EXCEPT !.of = Tab!Nobody] IN
                    n \in Message /\ n.of = Tab!Nobody /\ n.to = m.to /\ n.with = m.with /\ n.try = m.try
  BY DEF Tab!RefreshFails
<1>1. m \in Message
  BY DEF BrowserTypes
<1> QED BY <1>1, Rewritten

\* The access cookie expires, and what was sent with it counts as sent without one.
LEMMA Expired ==
  ASSUME BrowserTypes, Tab!AccessExpires
  PROVE  /\ \A n \in wire' : \E m \in wire :
              /\ n \in Message /\ n.of = m.of /\ n.to = m.to /\ n.try = m.try
              /\ n = m \/ (m.to = "api" /\ n.with = 0)
              /\ n = IF m.to = "api" /\ m.with = jar.access THEN [m EXCEPT !.with = 0] ELSE m
         /\ jar' = [jar EXCEPT !.access = 0]
         /\ UNCHANGED <<tip, over, state, asking, effects, tries, crossed>>
<1>1. \A m \in wire : m \in Message
  BY DEF BrowserTypes
<1>2. wire' = {IF m.to = "api" /\ m.with = jar.access THEN [m EXCEPT !.with = 0] ELSE m : m \in wire}
  BY DEF Tab!AccessExpires, Tab!None
<1>3. ASSUME NEW n \in wire'
      PROVE \E m \in wire :
              /\ n \in Message /\ n.of = m.of /\ n.to = m.to /\ n.try = m.try
              /\ n = m \/ (m.to = "api" /\ n.with = 0)
              /\ n = IF m.to = "api" /\ m.with = jar.access THEN [m EXCEPT !.with = 0] ELSE m
  <2>1. PICK m \in wire : n = IF m.to = "api" /\ m.with = jar.access THEN [m EXCEPT !.with = 0] ELSE m
    BY <1>2
  <2>2. CASE m.to = "api" /\ m.with = jar.access
    <3>1. LET b == [m EXCEPT !.with = 0] IN
          b \in Message /\ b.to = m.to /\ b.with = 0 /\ b.of = m.of /\ b.try = m.try
      BY <1>1, Rewritten
    <3> QED BY <2>1, <2>2, <3>1
  <2>3. CASE ~(m.to = "api" /\ m.with = jar.access)
    BY <1>1, <2>1, <2>3
  <2> QED BY <2>2, <2>3
<1> QED BY <1>3 DEF Tab!AccessExpires, Tab!None

\* The calls a refresh replays, and those it leaves unauthenticated, are its tab's.
LEMMA Replayed ==
  ASSUME BrowserTypes, NEW m \in wire, Tab!GetRefresh(m)
  PROVE  LET W == Tab!Waiters(m.of) IN
         /\ m.of \in asking /\ m.of \in Tabs /\ m.of \notin Calls /\ m.to \in {"set", "clear"}
         /\ jar' = Tab!Signed(m.with) /\ asking' = asking \ {m.of}
         /\ W \subseteq Calls
         /\ \/ /\ m.to = "set"
               /\ state' = [c \in Calls |-> IF c \in W THEN "replayed" ELSE state[c]]
               /\ wire' = (wire \ {m}) \cup {Tab!Sent(c, m.with) : c \in W}
               /\ tries' = [c \in Calls |-> IF c \in W THEN tries[c] + 1 ELSE tries[c]]
            \/ /\ m.to = "clear"
               /\ state' = [c \in Calls |-> IF c \in W THEN "unauth" ELSE state[c]]
               /\ wire' = wire \ {m} /\ UNCHANGED tries
         /\ UNCHANGED <<tip, over, effects, crossed>>
<1>1. m.of \in asking /\ m.of \in Tabs /\ m.of \notin Calls
  BY Names DEF Tab!GetRefresh, BrowserTypes
<1>2. m.to \in {"set", "clear"}
  BY <1>1 DEF Tab!GetRefresh, BrowserTypes
<1>3. Tab!Waiters(m.of) \subseteq Calls
  BY DEF Tab!Waiters
<1>4. jar' = Tab!Signed(m.with)
  BY <1>2 DEF Tab!GetRefresh, Tab!Cookies
<1> QED BY <1>1, <1>2, <1>3, <1>4 DEF Tab!GetRefresh

\* A call gets its answer: it is settled, or it waits for its tab's refresh,
\* which is sent unless it is under way.
LEMMA Answered ==
  ASSUME BrowserTypes, CallsConsistent, NEW m \in wire, Tab!GetAnswer(m)
  PROVE  /\ m.of \in Calls /\ m.to \in {"401", "done", "clear"} /\ m \in Message
         /\ state[m.of] = IF m.try = 1 THEN "waiting" ELSE "replayed"
         /\ jar' = IF m.to = "clear" THEN Tab!Signed(m.with) ELSE jar
         /\ \/ /\ m.to = "401" /\ m.try = 1 /\ state' = [state EXCEPT ![m.of] = "refreshing"]
               /\ asking' = asking \cup {TabOf[m.of]}
               /\ \/ TabOf[m.of] \in asking /\ wire' = wire \ {m} /\ UNCHANGED crossed
                  \/ /\ TabOf[m.of] \notin asking
                     /\ wire' = (wire \ {m}) \cup {Tab!Asked(TabOf[m.of])}
                     /\ crossed' = (crossed \/ \E n \in wire : n.of \in (Tabs \ {TabOf[m.of]}) \cup {Tab!Nobody})
            \/ \E x \in {"unauth", "done"} :
                 state' = [state EXCEPT ![m.of] = x] /\ wire' = wire \ {m} /\ UNCHANGED <<asking, crossed>>
         /\ UNCHANGED <<tip, over, effects, tries>>
<1>1. m.of \in Calls /\ m.to \in {"401", "done", "clear"} /\ m \in Message
  BY DEF Tab!GetAnswer, BrowserTypes
<1>2. crossed \in BOOLEAN
  BY DEF BrowserTypes
<1>3. jar' = IF m.to = "clear" THEN Tab!Signed(m.with) ELSE jar
  BY <1>1 DEF Tab!GetAnswer, Tab!Cookies
<1>4. CASE m.to = "401" /\ m.try = 1
  <2>1. CASE TabOf[m.of] \in asking
    <3>1. wire' = wire \ {m} /\ (crossed' = (crossed \/ FALSE))
      BY <1>4, <2>1 DEF Tab!GetAnswer, Tab!Shared
    <3>2. UNCHANGED crossed
      BY <1>2, <3>1
    <3> QED BY <1>1, <1>3, <1>4, <2>1, <3>1, <3>2 DEF Tab!GetAnswer
  <2>2. CASE TabOf[m.of] \notin asking
    <3>1. (Tab!RefreshOf((Tabs \ {TabOf[m.of]}) \cup {Tab!Nobody}) # {})
            <=> \E n \in wire : n.of \in (Tabs \ {TabOf[m.of]}) \cup {Tab!Nobody}
      BY DEF Tab!RefreshOf
    <3>2. wire' = (wire \ {m}) \cup {Tab!Asked(TabOf[m.of])}
      BY <1>4, <2>2 DEF Tab!GetAnswer, Tab!Shared
    <3>3. crossed' = (crossed \/ Tab!RefreshOf((Tabs \ {TabOf[m.of]}) \cup {Tab!Nobody}) # {})
      BY <1>4, <2>2 DEF Tab!GetAnswer, Tab!Shared
    <3>4. crossed' = (crossed \/ \E n \in wire : n.of \in (Tabs \ {TabOf[m.of]}) \cup {Tab!Nobody})
      BY <3>1, <3>3, Zenon
    <3> QED BY <1>1, <1>3, <1>4, <2>2, <3>2, <3>4 DEF Tab!GetAnswer
  <2> QED BY <2>1, <2>2
<1>5. CASE ~(m.to = "401" /\ m.try = 1)
  <2>1. \E x \in {"unauth", "done"} : state' = [state EXCEPT ![m.of] = x]
    BY <1>5 DEF Tab!GetAnswer
  <2> QED BY <1>1, <1>3, <1>5, <2>1 DEF Tab!GetAnswer
<1> QED BY <1>4, <1>5

\* Every step keeps what was sent, what was done and where the call stands in step.
LEMMA CallsStayConsistent == BrowserInv /\ Tab!Next => CallsConsistent'
<1> SUFFICES ASSUME BrowserInv, Tab!Next, NEW c \in Calls PROVE CallConsistent(c)'
  BY DEF CallsConsistent
<1>0. /\ BrowserTypes /\ CallConsistent(c) /\ CallsConsistent
      /\ state = [x \in Calls |-> state[x]] /\ state[c] \in CallStates
      /\ effects = [x \in Calls |-> effects[x]] /\ effects[c] \in Nat
      /\ tries = [x \in Calls |-> tries[x]] /\ tries[c] \in Nat
  BY DEF BrowserInv, CallsConsistent, BrowserTypes
<1>1. ASSUME NEW d \in Calls, Tab!MakeCall(d) PROVE CallConsistent(c)'
  <2>1. CallConsistent(d) /\ state[d] = "new" /\ jar.access \in Nat
    BY <1>0, <1>1 DEF Tab!MakeCall, CallsConsistent, BrowserTypes
  <2>2. Tab!Sent(d, jar.access).of = d /\ Tab!Sent(d, jar.access).try = 1 /\ Tab!Sent(d, jar.access).to = "api"
    BY <1>0, <2>1, SentMessages DEF CallConsistent
  <2>3. /\ state' = [state EXCEPT ![d] = "waiting"] /\ tries' = [tries EXCEPT ![d] = 1]
        /\ wire' = wire \cup {Tab!Sent(d, jar.access)} /\ UNCHANGED effects
    BY <1>0, <1>1, <2>1 DEF Tab!MakeCall, CallConsistent
  <2> QED BY <1>0, <2>1, <2>2, <2>3 DEF CallConsistent
<1>2. ASSUME NEW d \in Calls, Tab!CallFails(d) PROVE CallConsistent(c)'
  BY <1>0, <1>2 DEF Tab!CallFails, CallConsistent
<1>3. ASSUME NEW m \in wire, Tab!ServeCall(m) PROVE CallConsistent(c)'
  BY <1>0, <1>3, ServedCall DEF CallConsistent
<1>4. ASSUME NEW m \in wire, Tab!ServeRefresh(m) PROVE CallConsistent(c)'
  BY <1>0, <1>4, ServedRefresh DEF CallConsistent
<1>5. ASSUME NEW m \in wire, Tab!GetAnswer(m) PROVE CallConsistent(c)'
  <2>1. \A t \in Tabs : Tab!Asked(t).of \notin Calls
    BY <1>0, AskedMessages, Names
  <2>2. TabOf[m.of] \in Tabs
    BY <1>0, <1>5, Answered, Names
  <2>3. \A n \in wire' : (n \in wire /\ n # m) \/ n.of \notin Calls
    BY <1>0, <1>5, <2>1, <2>2, Answered
  <2>4. CallConsistent(m.of)
    BY <1>0, <1>5, Answered DEF CallsConsistent
  <2>5. UNCHANGED <<effects, tries>> /\ m.of \in Calls
    BY <1>0, <1>5, Answered
  <2>6. CASE c # m.of
    <3>1. UNCHANGED <<state[c]>>
      BY <1>0, <1>5, <2>6, Answered
    <3> QED BY <1>0, <2>3, <2>5, <3>1 DEF CallConsistent
  <2>7. CASE c = m.of
    <3>1. \A n \in wire' : n.of # c
      BY <2>3, <2>4, <2>7 DEF CallConsistent
    <3>2. \/ state'[c] \in {"unauth", "done"}
          \/ state'[c] = "refreshing" /\ m.to = "401" /\ m.try = 1
      BY <1>0, <1>5, <2>7, Answered
    <3> QED BY <1>0, <2>4, <2>5, <2>7, <3>1, <3>2 DEF CallConsistent
  <2> QED BY <2>6, <2>7
<1>6. ASSUME NEW m \in wire, Tab!GetRefresh(m) PROVE CallConsistent(c)'
  <2>1. m.with \in Nat /\ \A d \in Tab!Waiters(m.of) : /\ d \in Calls /\ state[d] = "refreshing"
                                                       /\ tries[d] = 1
    BY <1>0 DEF Tab!Waiters, BrowserTypes, Message, CallsConsistent, CallConsistent
  <2>2. \A d \in Tab!Waiters(m.of) : /\ Tab!Sent(d, m.with).of = d /\ Tab!Sent(d, m.with).try = 2
                                     /\ Tab!Sent(d, m.with).to = "api"
    BY <1>0, <2>1, SentMessages
  <2>3. CASE m.to = "set"
    <3>1. /\ state'[c] = IF c \in Tab!Waiters(m.of) THEN "replayed" ELSE state[c]
          /\ tries'[c] = IF c \in Tab!Waiters(m.of) THEN tries[c] + 1 ELSE tries[c]
          /\ wire' = (wire \ {m}) \cup {Tab!Sent(d, m.with) : d \in Tab!Waiters(m.of)}
          /\ UNCHANGED effects
      BY <1>6, <1>0, <2>3, Replayed
    <3>2. \A n \in wire' : n.of = c => \/ n \in wire /\ n # m
                                       \/ (n = Tab!Sent(c, m.with) /\ c \in Tab!Waiters(m.of))
      <4>1. TAKE n \in wire'
      <4>2. HAVE n.of = c
      <4>3. CASE n \in wire /\ n # m
        BY <4>3
      <4>4. CASE ~(n \in wire /\ n # m)
        <5>1. n \in {Tab!Sent(d, m.with) : d \in Tab!Waiters(m.of)}
          BY <3>1, <4>4
        <5>2. PICK d \in Tab!Waiters(m.of) : n = Tab!Sent(d, m.with)
          BY <5>1
        <5>3. d = c
          BY <2>2, <4>2, <5>2
        <5> QED BY <5>2, <5>3
      <4> QED BY <4>3, <4>4
    <3>3. CASE c \in Tab!Waiters(m.of)
      <4>1. tries'[c] = 2 /\ state'[c] = "replayed" /\ effects'[c] = 0
        BY <1>0, <2>1, <3>1, <3>3 DEF CallConsistent
      <4>2. \A n \in wire' : n.of = c => n = Tab!Sent(c, m.with)
        BY <1>0, <2>1, <3>2, <3>3 DEF CallConsistent
      <4> QED BY <2>2, <3>3, <4>1, <4>2 DEF CallConsistent
    <3>4. CASE c \notin Tab!Waiters(m.of)
      BY <1>0, <3>1, <3>2, <3>4 DEF CallConsistent
    <3> QED BY <3>3, <3>4
  <2>4. CASE m.to # "set"
    BY <1>0, <1>6, <2>4, Replayed DEF CallConsistent, Tab!Waiters
  <2> QED BY <2>3, <2>4
<1>7. ASSUME NEW m \in wire, Tab!Lose(m) PROVE CallConsistent(c)'
  BY <1>0, <1>7 DEF Tab!Lose, CallConsistent
<1>8. ASSUME NEW t \in Tabs, Tab!RefreshFails(t) PROVE CallConsistent(c)'
  <2>1. \A n \in wire' : n.of \in Calls => n \in wire
    BY <1>0, <1>8, GivenUp, Names
  <2>2. /\ state' = [d \in Calls |-> IF d \in Tab!Waiters(t) THEN "unauth" ELSE state[d]]
        /\ UNCHANGED <<effects, tries>>
    BY <1>8 DEF Tab!RefreshFails
  <2> QED BY <1>0, <2>1, <2>2 DEF CallConsistent, Tab!Waiters
<1>9. ASSUME Tab!AccessExpires PROVE CallConsistent(c)'
  BY <1>0, <1>9, Expired DEF CallConsistent
<1> QED BY <1>1, <1>2, <1>3, <1>4, <1>5, <1>6, <1>7, <1>8, <1>9 DEF Tab!Next

\* Every step keeps a tab's refresh the only one, and every waiting call one to wait for.
LEMMA TabsStayConsistent == BrowserInv /\ Tab!Next => TabsConsistent'
<1> SUFFICES ASSUME BrowserInv, Tab!Next, NEW t \in Tabs PROVE TabConsistent(t)'
  BY DEF TabsConsistent
<1>0. /\ BrowserTypes /\ TabConsistent(t) /\ CallsConsistent /\ t \notin Calls /\ t # Tab!Nobody
      /\ state = [x \in Calls |-> state[x]]
  BY Names DEF BrowserInv, TabsConsistent, BrowserTypes
<1>1. ASSUME NEW d \in Calls, Tab!MakeCall(d) PROVE TabConsistent(t)'
  <2>1. CallConsistent(d) /\ state[d] = "new" /\ jar.access \in Nat
    BY <1>0, <1>1 DEF Tab!MakeCall, CallsConsistent, BrowserTypes
  <2>2. Tab!Sent(d, jar.access).of = d
    BY <1>0, <2>1, SentMessages DEF CallConsistent
  <2> QED BY <1>0, <1>1, <2>2 DEF Tab!MakeCall, TabConsistent
<1>2. ASSUME NEW d \in Calls, Tab!CallFails(d) PROVE TabConsistent(t)'
  BY <1>0, <1>2 DEF Tab!CallFails, TabConsistent
<1>3. ASSUME NEW m \in wire, Tab!ServeCall(m) PROVE TabConsistent(t)'
  BY <1>0, <1>3, ServedCall DEF TabConsistent
<1>4. ASSUME NEW m \in wire, Tab!ServeRefresh(m) PROVE TabConsistent(t)'
  <2>1. PICK a \in Message : wire' = (wire \ {m}) \cup {a} /\ a.of = m.of
    BY <1>0, <1>4, ServedRefresh
  <2>2. UNCHANGED <<state, asking>>
    BY <1>0, <1>4, ServedRefresh
  <2> QED BY <1>0, <2>1, <2>2 DEF TabConsistent
<1>5. ASSUME NEW m \in wire, Tab!GetAnswer(m) PROVE TabConsistent(t)'
  <2>0. m.of \in Calls /\ TabOf[m.of] \in Tabs
    BY <1>0, <1>5, Answered, Names
  <2>1. CASE asking' = asking \cup {TabOf[m.of]} /\ state' = [state EXCEPT ![m.of] = "refreshing"]
    <3>1. (\E c \in Calls : TabOf[c] = t /\ state'[c] = "refreshing") => t \in asking'
      BY <1>0, <2>0, <2>1 DEF TabConsistent
    <3>2. CASE wire' = wire \ {m} /\ TabOf[m.of] \in asking
      BY <1>0, <2>0, <2>1, <3>1, <3>2 DEF TabConsistent
    <3>3. CASE TabOf[m.of] \notin asking /\ wire' = (wire \ {m}) \cup {Tab!Asked(TabOf[m.of])}
      <4>1. Tab!Asked(TabOf[m.of]).of = TabOf[m.of]
        BY <1>0, <2>0, AskedMessages
      <4> QED BY <1>0, <2>0, <2>1, <3>1, <3>3, <4>1 DEF TabConsistent
    <3> QED BY <1>0, <1>5, <2>1, <3>2, <3>3, Answered DEF Tab!GetAnswer, Tab!Shared
  <2>2. CASE UNCHANGED asking /\ wire' = wire \ {m}
             /\ \E x \in {"unauth", "done"} : state' = [state EXCEPT ![m.of] = x]
    BY <1>0, <2>0, <2>2 DEF TabConsistent
  <2> QED BY <1>0, <1>5, <2>1, <2>2, Answered
<1>6. ASSUME NEW m \in wire, Tab!GetRefresh(m) PROVE TabConsistent(t)'
  <2>1. /\ m.with \in Nat
        /\ \A d \in Tab!Waiters(m.of) : d \in Calls /\ tries[d] = 1
    BY <1>0 DEF Tab!Waiters, BrowserTypes, Message, CallsConsistent, CallConsistent
  <2>2. \A d \in Tab!Waiters(m.of) : Tab!Sent(d, m.with).of # t
    BY <1>0, <2>1, SentMessages
  <2>3. /\ \A n \in wire' : n.of = t => n \in wire /\ n # m
        /\ asking' = asking \ {m.of}
        /\ \A d \in Calls : state'[d] = "refreshing" => state[d] = "refreshing" /\ TabOf[d] # m.of
    BY <1>0, <1>6, <2>2, Replayed DEF Tab!Waiters
  <2> QED BY <1>0, <2>3 DEF TabConsistent
<1>7. ASSUME NEW m \in wire, Tab!Lose(m) PROVE TabConsistent(t)'
  BY <1>0, <1>7 DEF Tab!Lose, TabConsistent
<1>8. ASSUME NEW u \in Tabs, Tab!RefreshFails(u) PROVE TabConsistent(t)'
  <2>1. \A n \in wire' : n.of = t => n \in wire /\ t # u
    BY <1>0, <1>8, GivenUp
  <2>2. /\ asking' = asking \ {u}
        /\ \A d \in Calls : state'[d] = "refreshing" => state[d] = "refreshing" /\ TabOf[d] # u
    BY <1>8 DEF Tab!RefreshFails, Tab!Waiters
  <2> QED BY <1>0, <2>1, <2>2 DEF TabConsistent
<1>9. ASSUME Tab!AccessExpires PROVE TabConsistent(t)'
  <2>1. UNCHANGED <<state, asking>>
    BY <1>0, <1>9, Expired
  <2>2. \A n \in wire' : \E m \in wire :
          /\ n.of = m.of
          /\ n = IF m.to = "api" /\ m.with = jar.access THEN [m EXCEPT !.with = 0] ELSE m
    BY <1>0, <1>9, Expired
  <2> QED BY <1>0, <2>1, <2>2 DEF TabConsistent
<1> QED BY <1>1, <1>2, <1>3, <1>4, <1>5, <1>6, <1>7, <1>8, <1>9 DEF Tab!Next

\* Every step keeps the one refresh in flight in order, until two cross.
LEMMA RefreshesStayInOrder == BrowserInv /\ Tab!Next => RefreshesInOrder' /\ Tab!ReuseNeedsACrossing'
<1> SUFFICES ASSUME BrowserInv, Tab!Next PROVE RefreshesInOrder' /\ Tab!ReuseNeedsACrossing'
  OBVIOUS
<1>0. /\ BrowserTypes /\ RefreshesInOrder /\ Tab!ReuseNeedsACrossing
      /\ tip \in Nat /\ tip > 0 /\ jar.refresh \in Nat /\ crossed \in BOOLEAN
  BY DEF BrowserInv, BrowserTypes
<1>1. ASSUME NEW d \in Calls, Tab!MakeCall(d) PROVE RefreshesInOrder' /\ Tab!ReuseNeedsACrossing'
  <2>1. CallConsistent(d) /\ state[d] = "new" /\ jar.access \in Nat
    BY <1>0, <1>1 DEF Tab!MakeCall, CallsConsistent, BrowserTypes, BrowserInv
  <2>2. Tab!Sent(d, jar.access).of = d /\ Tab!Sent(d, jar.access).to = "api"
    BY <1>0, <2>1, SentMessages DEF CallConsistent
  <2>3. UNCHANGED <<jar, tip, over, crossed>> /\ wire' = wire \cup {Tab!Sent(d, jar.access)}
    BY <1>1 DEF Tab!MakeCall
  <2> QED BY <1>0, <2>2, <2>3 DEF RefreshesInOrder, Tab!ReuseNeedsACrossing
<1>2. ASSUME NEW d \in Calls, Tab!CallFails(d) PROVE RefreshesInOrder' /\ Tab!ReuseNeedsACrossing'
  BY <1>0, <1>2 DEF Tab!CallFails, RefreshesInOrder, Tab!ReuseNeedsACrossing
<1>3. ASSUME NEW m \in wire, Tab!ServeCall(m) PROVE RefreshesInOrder' /\ Tab!ReuseNeedsACrossing'
  <2>1. UNCHANGED <<jar, tip, crossed>> /\ over' \in {over, "logout"} /\ m.of \in Calls
    BY <1>0, <1>3, ServedCall
  <2>2. Tab!ReuseNeedsACrossing'
    BY <1>0, <2>1 DEF Tab!ReuseNeedsACrossing
  <2>3. CASE over' = "no"
    <3>1. PICK a \in Message : /\ wire' = (wire \ {m}) \cup {a} /\ a.of = m.of
                               /\ a.to \in {"done", "401"}
      BY <1>0, <1>3, <2>3, ServedCall
    <3>2. over = "no"
      BY <2>1, <2>3
    <3> QED BY <1>0, <2>1, <2>2, <3>1, <3>2 DEF RefreshesInOrder
  <2> QED BY <2>2, <2>3 DEF RefreshesInOrder
<1>4. ASSUME NEW m \in wire, Tab!ServeRefresh(m) PROVE RefreshesInOrder' /\ Tab!ReuseNeedsACrossing'
  <2>1. /\ UNCHANGED <<jar, crossed>> /\ m.to = "refresh" /\ m.of \notin Calls /\ m.with \in Nat
    BY <1>0, <1>4, ServedRefresh DEF BrowserTypes, Message
  <2>2. PICK a \in Message :
              /\ wire' = (wire \ {m}) \cup {a} /\ a.of = m.of
              /\ \/ /\ a.to = "set" /\ a.with = tip' /\ UNCHANGED over
                    /\ m.with \in {tip, tip - 1} \ {0}
                    /\ tip' = IF m.with = tip THEN tip + 1 ELSE tip
                 \/ /\ a.to = "clear" /\ UNCHANGED tip
                    /\ m.with = 0 \/ over # "no" \/ m.with < tip
                    /\ over' = IF m.with = 0 \/ over # "no" THEN over
                               ELSE IF m.with = tip - 1 THEN "late" ELSE "reuse"
    BY <1>0, <1>4, ServedRefresh
  <2>3. CASE crossed
    BY <1>0, <2>1, <2>3 DEF RefreshesInOrder, Tab!ReuseNeedsACrossing
  <2>4. CASE ~crossed /\ over # "no"
    <3>1. UNCHANGED over
      BY <2>2, <2>4
    <3> QED BY <1>0, <2>1, <2>4, <3>1 DEF RefreshesInOrder, Tab!ReuseNeedsACrossing
  <2>5. CASE ~crossed /\ over = "no"
    <3>1. /\ jar.refresh \in {tip - 1, tip} \ {0} /\ m.with = jar.refresh
          /\ \A n \in wire : n.of \notin Calls => n = m
          /\ \A n \in wire : n.to # "clear" /\ (n.to \in {"refresh", "set"} => n.of \notin Calls)
      BY <1>0, <2>1, <2>5 DEF RefreshesInOrder, BrowserTypes
    <3>2. CASE a.to = "set"
      <4>1. UNCHANGED over /\ tip' = (IF m.with = tip THEN tip + 1 ELSE tip) /\ a.with = tip'
        BY <2>2, <3>2
      <4>2. jar.refresh \in {tip' - 1, tip'} \ {0}
        BY <1>0, <3>1, <4>1
      <4>3. \A n \in wire' : \/ n = a
                             \/ n \in wire /\ n.of \in Calls
        BY <2>2, <3>1
      <4>4. \A n \in wire' : /\ n.to # "clear"
                             /\ (n.to = "refresh" => n.with = jar.refresh)
                             /\ (n.to = "set" => n.with = tip')
        BY <3>1, <3>2, <4>1, <4>3
      <4>5. a.of \notin Calls /\ \A n, o \in wire' : n.of \notin Calls /\ o.of \notin Calls => n = o
        BY <2>1, <2>2, <4>3
      <4>6. RefreshesInOrder'
        BY <2>1, <4>2, <4>4, <4>5 DEF RefreshesInOrder
      <4> QED BY <1>0, <2>1, <4>1, <4>6 DEF Tab!ReuseNeedsACrossing
    <3>3. CASE a.to = "clear"
      <4>1. over' = "late"
        BY <1>0, <2>2, <2>5, <3>1, <3>3
      <4> QED BY <4>1 DEF RefreshesInOrder, Tab!ReuseNeedsACrossing
    <3> QED BY <2>2, <3>2, <3>3
  <2> QED BY <1>0, <2>3, <2>4, <2>5
<1>5. ASSUME NEW m \in wire, Tab!GetAnswer(m) PROVE RefreshesInOrder' /\ Tab!ReuseNeedsACrossing'
  <2>0. /\ UNCHANGED <<tip, over>> /\ m.of \in Calls /\ TabOf[m.of] \in Tabs
        /\ jar' = IF m.to = "clear" THEN Tab!Signed(m.with) ELSE jar
    BY <1>0, <1>5, Answered, Names DEF BrowserInv
  <2>1. crossed => crossed'
    BY <1>0, <1>5, Answered DEF BrowserInv
  <2>2. Tab!ReuseNeedsACrossing'
    BY <1>0, <2>0, <2>1 DEF Tab!ReuseNeedsACrossing
  <2>3. CASE ~crossed' /\ over' = "no"
    <3>1. ~crossed /\ over = "no" /\ m.to # "clear" /\ UNCHANGED jar
      BY <1>0, <2>0, <2>1, <2>3 DEF RefreshesInOrder
    <3>2. CASE wire' = wire \ {m}
      BY <1>0, <2>0, <2>2, <3>1, <3>2 DEF RefreshesInOrder
    <3>3. CASE /\ TabOf[m.of] \notin asking
               /\ wire' = (wire \ {m}) \cup {Tab!Asked(TabOf[m.of])}
               /\ crossed' = (crossed \/ \E n \in wire : n.of \in (Tabs \ {TabOf[m.of]}) \cup {Tab!Nobody})
      <4>1. \A n \in wire : n.of \notin (Tabs \ {TabOf[m.of]}) \cup {Tab!Nobody}
        BY <2>3, <3>3
      <4>2. \A n \in wire : n.of # TabOf[m.of]
        BY <2>0, <3>3 DEF BrowserInv, TabsConsistent, TabConsistent
      <4>3. \A n \in wire : n.of \in Calls
        BY <1>0, <4>1, <4>2 DEF BrowserTypes, Message
      <4>4. LET a == Tab!Asked(TabOf[m.of]) IN
            a.of \notin Calls /\ a.to = "refresh" /\ a.with = jar.refresh
        BY <1>0, <2>0, AskedMessages, Names
      <4>5. RefreshesInOrder'
        BY <1>0, <2>0, <3>1, <3>3, <4>3, <4>4 DEF RefreshesInOrder
      <4> QED BY <2>2, <4>5
    <3> QED BY <1>0, <1>5, <3>2, <3>3, Answered DEF BrowserInv
  <2> QED BY <2>2, <2>3 DEF RefreshesInOrder
<1>6. ASSUME NEW m \in wire, Tab!GetRefresh(m) PROVE RefreshesInOrder' /\ Tab!ReuseNeedsACrossing'
  <2>0. /\ UNCHANGED <<tip, over, crossed>> /\ m.of \notin Calls /\ m.to \in {"set", "clear"}
        /\ jar' = Tab!Signed(m.with)
    BY <1>0, <1>6, Replayed
  <2>1. Tab!ReuseNeedsACrossing'
    BY <1>0, <2>0 DEF Tab!ReuseNeedsACrossing
  <2>2. CASE ~crossed /\ over = "no"
    <3>1. /\ m.to = "set" /\ m.with = tip
          /\ \A n \in wire \ {m} : n.of \in Calls /\ n.to \notin {"refresh", "set", "clear"}
      BY <1>0, <2>0, <2>2 DEF RefreshesInOrder, BrowserTypes
    <3>2. /\ m.with \in Nat
          /\ \A d \in Tab!Waiters(m.of) : d \in Calls /\ tries[d] = 1
      BY <1>0 DEF Tab!Waiters, BrowserTypes, Message, BrowserInv, CallsConsistent, CallConsistent
    <3>3. \A d \in Tab!Waiters(m.of) : Tab!Sent(d, m.with).of = d /\ Tab!Sent(d, m.with).to = "api"
      BY <1>0, <3>2, SentMessages
    <3>4. wire' = (wire \ {m}) \cup {Tab!Sent(d, m.with) : d \in Tab!Waiters(m.of)}
      BY <1>0, <1>6, <3>1, Replayed
    <3>5. \A n \in wire' : n.of \in Calls /\ n.to \notin {"refresh", "set", "clear"}
      BY <3>1, <3>2, <3>3, <3>4
    <3>6. jar'.refresh = tip
      BY <2>0, <3>1 DEF Tab!Signed
    <3> QED BY <1>0, <2>0, <2>1, <3>5, <3>6 DEF RefreshesInOrder
  <2> QED BY <2>0, <2>1, <2>2 DEF RefreshesInOrder
<1>7. ASSUME NEW m \in wire, Tab!Lose(m) PROVE RefreshesInOrder' /\ Tab!ReuseNeedsACrossing'
  BY <1>0, <1>7 DEF Tab!Lose, RefreshesInOrder, Tab!ReuseNeedsACrossing
<1>8. ASSUME NEW t \in Tabs, Tab!RefreshFails(t) PROVE RefreshesInOrder' /\ Tab!ReuseNeedsACrossing'
  <2>1. UNCHANGED <<jar, tip, over>> /\ (crossed' = (crossed \/ Tab!RefreshOf({t}) # {}))
    BY <1>8 DEF Tab!RefreshFails
  <2>2. crossed => crossed'
    BY <2>1
  <2>3. CASE ~crossed'
    <3>1. ~crossed /\ Tab!RefreshOf({t}) = {}
      BY <2>1, <2>3
    <3>2. \A n \in wire : n.of # t
      BY <3>1 DEF Tab!RefreshOf
    <3>3. \A n \in wire' : n \in wire
      BY <1>0, <1>8, <3>2, GivenUp
    <3> QED BY <1>0, <2>1, <3>1, <3>3 DEF RefreshesInOrder, Tab!ReuseNeedsACrossing
  <2> QED BY <1>0, <2>1, <2>2, <2>3 DEF RefreshesInOrder, Tab!ReuseNeedsACrossing
<1>9. ASSUME Tab!AccessExpires PROVE RefreshesInOrder' /\ Tab!ReuseNeedsACrossing'
  <2>1. UNCHANGED <<tip, over, crossed>> /\ jar' = [jar EXCEPT !.access = 0]
    BY <1>0, <1>9, Expired
  <2>2. jar'.refresh = jar.refresh
    BY <1>0, <2>1 DEF BrowserTypes
  <2>3. \A n \in wire' : \E m \in wire :
          /\ n.of = m.of /\ n.to = m.to
          /\ n = m \/ (m.to = "api" /\ n.with = 0)
          /\ n = IF m.to = "api" /\ m.with = jar.access THEN [m EXCEPT !.with = 0] ELSE m
    BY <1>0, <1>9, Expired
  <2>4. \A n \in wire' : n.of \notin Calls => n \in wire
    BY <1>0, <2>3 DEF BrowserTypes
  <2>5. \A n \in wire' : /\ (n.to \in {"refresh", "set"} => n \in wire)
                         /\ (n.to = "clear" => \E m \in wire : m.to = "clear")
    BY <2>3
  <2> QED BY <1>0, <2>1, <2>2, <2>4, <2>5 DEF RefreshesInOrder, Tab!ReuseNeedsACrossing
<1> QED BY <1>1, <1>2, <1>3, <1>4, <1>5, <1>6, <1>7, <1>8, <1>9 DEF Tab!Next

\* Every step keeps the variables and the messages typed.
LEMMA BrowserTypesKept == BrowserInv /\ Tab!Next => BrowserTypes'
<1> SUFFICES ASSUME BrowserInv, Tab!Next PROVE BrowserTypes'
  OBVIOUS
<1> DEFINE Fits(m) == /\ m \in Message
                      /\ (m.of \in Calls => m.to \in {"api", "401", "done", "clear"})
                      /\ (m.of \notin Calls => m.to \in {"refresh", "set", "clear"})
<1>0. /\ BrowserTypes /\ CallsConsistent /\ \A m \in wire : Fits(m)
  BY DEF BrowserInv, BrowserTypes
<1>1. ASSUME NEW d \in Calls, Tab!MakeCall(d) PROVE BrowserTypes'
  <2>1. CallConsistent(d) /\ state[d] = "new" /\ jar.access \in Nat
    BY <1>0, <1>1 DEF Tab!MakeCall, CallsConsistent, BrowserTypes
  <2>2. Fits(Tab!Sent(d, jar.access))
    BY <1>0, <2>1, SentMessages DEF CallConsistent
  <2>3. /\ state' \in [Calls -> CallStates] /\ tries' \in [Calls -> Nat]
        /\ UNCHANGED <<jar, tip, over, asking, effects, crossed>>
        /\ wire' = wire \cup {Tab!Sent(d, jar.access)}
    BY <1>0, <1>1 DEF Tab!MakeCall, BrowserTypes, CallStates
  <2>4. \A m \in wire' : Fits(m)
    BY <1>0, <2>2, <2>3
  <2> QED BY <1>0, <2>3, <2>4 DEF BrowserTypes
<1>2. ASSUME NEW d \in Calls, Tab!CallFails(d) PROVE BrowserTypes'
  <2>1. state' \in [Calls -> CallStates]
    BY <1>0, <1>2 DEF Tab!CallFails, BrowserTypes, CallStates
  <2> QED BY <1>0, <1>2, <2>1 DEF Tab!CallFails, BrowserTypes
<1>3. ASSUME NEW m \in wire, Tab!ServeCall(m) PROVE BrowserTypes'
  <2>1. PICK a \in Message : /\ wire' = (wire \ {m}) \cup {a} /\ a.of = m.of
                             /\ a.to \in {"done", "clear", "401"}
    BY <1>0, <1>3, ServedCall
  <2>2. /\ m.of \in Calls /\ over' \in {"no", "logout", "late", "reuse"}
        /\ UNCHANGED <<jar, tip, state, asking, tries, crossed>>
    BY <1>0, <1>3, ServedCall DEF BrowserTypes
  <2>3. effects' \in [Calls -> Nat]
    BY <1>0, <1>3, ServedCall DEF BrowserTypes
  <2>4. \A n \in wire' : Fits(n)
    BY <1>0, <2>1, <2>2
  <2> QED BY <1>0, <2>2, <2>3, <2>4 DEF BrowserTypes
<1>4. ASSUME NEW m \in wire, Tab!ServeRefresh(m) PROVE BrowserTypes'
  <2>1. PICK a \in Message : /\ wire' = (wire \ {m}) \cup {a} /\ a.of = m.of
                             /\ a.to \in {"set", "clear"}
    BY <1>0, <1>4, ServedRefresh
  <2>2. /\ m.of \notin Calls /\ over' \in {"no", "logout", "late", "reuse"} /\ tip' \in Nat \ {0}
        /\ UNCHANGED <<jar, state, asking, effects, tries, crossed>>
    BY <1>0, <1>4, ServedRefresh DEF BrowserTypes
  <2>3. \A n \in wire' : Fits(n)
    BY <1>0, <2>1, <2>2
  <2> QED BY <1>0, <2>2, <2>3 DEF BrowserTypes
<1>5. ASSUME NEW m \in wire, Tab!GetAnswer(m) PROVE BrowserTypes'
  <2>1. /\ m.of \in Calls /\ TabOf[m.of] \in Tabs /\ m \in Message
        /\ UNCHANGED <<tip, over, effects, tries>>
        /\ jar' = IF m.to = "clear" THEN Tab!Signed(m.with) ELSE jar
    BY <1>0, <1>5, Answered, Names
  <2>2. jar' \in [access : Nat, refresh : Nat]
    BY <1>0, <2>1 DEF Tab!Signed, Message, BrowserTypes
  <2>3. state' \in [Calls -> CallStates]
    <3>1. \E x \in CallStates : state' = [state EXCEPT ![m.of] = x]
      BY <1>0, <1>5, Answered DEF CallStates
    <3> QED BY <1>0, <3>1 DEF BrowserTypes
  <2>4. asking' \in SUBSET Tabs
    BY <1>0, <1>5, <2>1, Answered DEF BrowserTypes
  <2>5. crossed' \in BOOLEAN
    <3>1. \/ UNCHANGED crossed
          \/ crossed' = (crossed \/ \E n \in wire : n.of \in (Tabs \ {TabOf[m.of]}) \cup {Tab!Nobody})
      BY <1>0, <1>5, Answered
    <3>2. crossed \in BOOLEAN
      BY <1>0 DEF BrowserTypes
    <3> QED BY <3>1, <3>2
  <2>6. Fits(Tab!Asked(TabOf[m.of]))
    BY <1>0, <2>1, AskedMessages, Names
  <2>7. \A n \in wire' : n \in wire \/ n = Tab!Asked(TabOf[m.of])
    BY <1>0, <1>5, Answered
  <2>8. \A n \in wire' : Fits(n)
    BY <1>0, <2>6, <2>7
  <2> QED BY <1>0, <2>1, <2>2, <2>3, <2>4, <2>5, <2>8 DEF BrowserTypes
<1>6. ASSUME NEW m \in wire, Tab!GetRefresh(m) PROVE BrowserTypes'
  <2>1. m.with \in Nat /\ \A d \in Tab!Waiters(m.of) : d \in Calls /\ tries[d] = 1
    BY <1>0 DEF Tab!Waiters, BrowserTypes, Message, CallsConsistent, CallConsistent
  <2>2. \A d \in Tab!Waiters(m.of) : Fits(Tab!Sent(d, m.with))
    BY <1>0, <2>1, SentMessages
  <2>3. \A n \in wire' : n \in wire \/ \E d \in Tab!Waiters(m.of) : n = Tab!Sent(d, m.with)
    BY <1>0, <1>6, Replayed
  <2>4. \A n \in wire' : Fits(n)
    BY <1>0, <2>2, <2>3
  <2>5. jar' \in [access : Nat, refresh : Nat]
    BY <1>0, <1>6, <2>1, Replayed DEF Tab!Signed
  <2>6. state' \in [Calls -> CallStates]
    BY <1>0, <1>6, Replayed DEF CallStates, BrowserTypes
  <2>7. tries' \in [Calls -> Nat]
    BY <1>0, <1>6, Replayed DEF BrowserTypes
  <2>8. asking' \in SUBSET Tabs /\ UNCHANGED <<tip, over, effects, crossed>>
    BY <1>0, <1>6, Replayed DEF BrowserTypes
  <2> QED BY <1>0, <2>4, <2>5, <2>6, <2>7, <2>8 DEF BrowserTypes
<1>7. ASSUME NEW m \in wire, Tab!Lose(m) PROVE BrowserTypes'
  BY <1>0, <1>7 DEF Tab!Lose, BrowserTypes
<1>8. ASSUME NEW t \in Tabs, Tab!RefreshFails(t) PROVE BrowserTypes'
  <2>1. \A n \in wire' : Fits(n)
    BY <1>0, <1>8, GivenUp, Names
  <2>2. state' \in [Calls -> CallStates] /\ asking' \in SUBSET Tabs
    BY <1>0, <1>8 DEF Tab!RefreshFails, BrowserTypes, CallStates
  <2>3. crossed' \in BOOLEAN
    BY <1>0, <1>8 DEF Tab!RefreshFails, BrowserTypes
  <2>4. UNCHANGED <<jar, tip, over, effects, tries>>
    BY <1>8 DEF Tab!RefreshFails
  <2> QED BY <1>0, <2>1, <2>2, <2>3, <2>4 DEF BrowserTypes
<1>9. ASSUME Tab!AccessExpires PROVE BrowserTypes'
  <2>1. /\ jar' = [jar EXCEPT !.access = 0]
        /\ UNCHANGED <<tip, over, state, asking, effects, tries, crossed>>
    BY <1>0, <1>9, Expired
  <2>2. \A n \in wire' : \E m \in wire : n \in Message /\ n.of = m.of /\ n.to = m.to
    BY <1>0, <1>9, Expired
  <2>3. \A n \in wire' : Fits(n)
    BY <1>0, <2>2
  <2> QED BY <1>0, <2>1, <2>3 DEF BrowserTypes
<1> QED BY <1>1, <1>2, <1>3, <1>4, <1>5, <1>6, <1>7, <1>8, <1>9 DEF Tab!Next

\* Everything above holds in every state of the browser.
THEOREM BrowserInductive == Tab!Spec => []BrowserInv
<1>1. BrowserInv /\ [Tab!Next]_(Tab!vars) => BrowserInv'
  <2> SUFFICES ASSUME BrowserInv, [Tab!Next]_(Tab!vars) PROVE BrowserInv'
    OBVIOUS
  <2>1. CASE Tab!Next
    BY <2>1, BrowserTypesKept, CallsStayConsistent, TabsStayConsistent, RefreshesStayInOrder DEF BrowserInv
  <2>2. CASE UNCHANGED Tab!vars
    BY <2>2 DEF Tab!vars, BrowserInv, BrowserTypes, CallsConsistent, CallConsistent, TabsConsistent,
                TabConsistent, RefreshesInOrder, Tab!ReuseNeedsACrossing
  <2> QED BY <2>1, <2>2
<1> QED BY <1>1, BrowserStart, PTL DEF Tab!Spec

\* The API acts on a call at most once, a tab has one refresh in flight and no call
\* waits for none, and the browser's own token is taken for a thief's only if two
\* refreshes crossed (sendWithRetry, client.ts:165; refreshOnce, client.ts:155).
THEOREM TransportIsSound == Tab!Spec => []ClientIsSound
<1>1. BrowserInv => ClientIsSound
  <2> SUFFICES ASSUME BrowserInv PROVE ClientIsSound
    OBVIOUS
  <2>1. Tab!ActedOnOnce
    BY DEF BrowserInv, CallsConsistent, CallConsistent, Tab!ActedOnOnce
  <2>2. Tab!OneRefreshPerTab
    BY DEF BrowserInv, TabsConsistent, TabConsistent, Tab!OneRefreshPerTab, Tab!Waiters, Tab!RefreshOf
  <2> QED BY <2>1, <2>2 DEF ClientIsSound, Tab!ClientIsSound, BrowserInv
<1> QED BY <1>1, BrowserInductive, PTL
=============================================================================
