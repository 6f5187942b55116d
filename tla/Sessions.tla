------------------------------ MODULE Sessions ------------------------------
(* One user's sessions (users/tokens.py): login, rotation with its grace     *)
(* window and reuse detection, the revocations that race it, and the cached  *)
(* liveness answer.                                                          *)
(*                                                                           *)
(* A family is one login; its n-th row is <<family, n>>, because the token   *)
(* of row n + 1 is derived from that of row n.  Requests run on PostgreSQL   *)
(* at read committed: a statement sees what is committed, an UPDATE waits    *)
(* for the row's lock and re-checks revoked_at, a transaction's writes       *)
(* appear at its commit, and any transaction may be aborted (a lost          *)
(* connection, a deadlock victim).  rotate() locks the session and, through  *)
(* select_related("user"), the user's row.                                   *)
(*                                                                           *)
(* Time is abstracted.  Whether expires_at, the idle lifetime or the grace   *)
(* window has passed is a free choice wherever the code asks.  issued_at and *)
(* password_changed_at, which are compared with each other, count the        *)
(* password changes stamped so far.                                          *)
EXTENDS Naturals, FiniteSets

CONSTANTS
    Families,  \* bound: the logins of the user
    MaxGen,    \* bound: rows of one family
    Procs,     \* the web processes that change sessions
    Readers,   \* the web processes that authenticate requests
    Cap,       \* MAX_SESSIONS_PER_USER
    MaxResets, \* bound: password changes
    NoSid      \* no session

ASSUME BoundsAssumption == MaxGen \in Nat \ {0} /\ Cap \in Nat \ {0} /\ MaxResets \in Nat

Sids == Families \X (1..MaxGen)
ASSUME NoSidAssumption == NoSid \notin Sids

Statuses == {"none", "live", "rotated", "revoked"}

(* A rotation takes the name of its outcome once it holds both of its locks. *)
Rotations == {"rotate", "successor", "reuse", "expire"}
(* The revocations that list what they revoke: those that hold the lock of   *)
(* the user's row when they read the list, and those that do not.            *)
LockedSweeps == {"reuse", "deactivate", "password"}
OpenSweeps   == {"others", "admin"}
Ops          == Rotations \cup LockedSweeps \cup OpenSweeps \cup {"none", "login", "logout"}
UserLocked   == LockedSweeps \cup {"successor", "expire"}
ForUpdate    == UserLocked \ {"deactivate"}
(* The operations that are one transaction; the others commit each statement. *)
Atomic       == Rotations \cup LockedSweeps \cup {"admin"}
Phases == {"idle", "user", "list", "update", "forget", "commit", "insert", "cap"}

VARIABLES
    status,   \* [Sids -> Statuses]: committed revoked_at and revoked_reason
    issued,   \* [Sids -> Nat]: issued_at
    active,   \* user.is_active
    changed,  \* user.password_changed_at
    resets,   \* password changes stamped so far, committed or not
    cached,   \* the sessions the liveness cache answers "live" for
    filling,  \* [Readers -> Sids \cup {NoSid}]: what each reader read as live
    op, pc,   \* what each process does, and where it is
    sid,      \* [Procs -> Sids \cup {NoSid}]: the session it rotates
    list,     \* [Procs -> SUBSET Sids]: the rows it read to revoke
    kills,    \* [Procs -> SUBSET Sids]: the rows it revoked, uncommitted
    at,       \* [Procs -> Nat]: the `now` it stamps with
    closed,   \* history: the families that a finished locked sweep had listed
    ended     \* history: the sessions that a finished revocation had listed

rows    == <<status, issued>>
userRow == <<active, changed>>
reads   == <<cached, filling>>
request == <<op, pc, sid, list, kills, at>>
history == <<closed, ended>>
vars    == <<rows, userRow, resets, reads, request, history>>

Init ==
    /\ status = [s \in Sids |-> "none"]
    /\ issued = [s \in Sids |-> 0]
    /\ active = TRUE /\ changed = 0 /\ resets = 0
    /\ cached = {}
    /\ filling = [r \in Readers |-> NoSid]
    /\ op = [p \in Procs |-> "none"]
    /\ pc = [p \in Procs |-> "idle"]
    /\ sid = [p \in Procs |-> NoSid]
    /\ list = [p \in Procs |-> {}]
    /\ kills = [p \in Procs |-> {}]
    /\ at = [p \in Procs |-> 0]
    /\ closed = {} /\ ended = {}

-----------------------------------------------------------------------------
(* Helpers *)

Successor(s) == <<s[1], s[2] + 1>>
Live         == {s \in Sids : status[s] = "live"}
Issued       == {s \in Sids : status[s] # "none"}
FamiliesOf(rowset) == {s[1] : s \in rowset}

(* What a process has locked follows from what it has done: a rotation holds *)
(* its session, a transaction the rows it updated.                           *)
Holds(p) == kills[p] \cup (IF op[p] \in Rotations THEN {sid[p]} ELSE {})
MutUnlocked(p, rowset) == TRUE
Unlocked(p, rowset) == \A q \in Procs \ {p} : Holds(q) \cap rowset = {}
MutUserFree(p) == TRUE
UserFree(p) == \A q \in Procs \ {p} : op[q] \notin UserLocked

Begin(p, o, phase) ==
    /\ pc[p] = "idle"
    /\ op' = [op EXCEPT ![p] = o]
    /\ pc' = [pc EXCEPT ![p] = phase]

Done(p) ==
    /\ op' = [op EXCEPT ![p] = "none"]
    /\ pc' = [pc EXCEPT ![p] = "idle"]
    /\ sid' = [sid EXCEPT ![p] = NoSid]
    /\ list' = [list EXCEPT ![p] = {}]
    /\ kills' = [kills EXCEPT ![p] = {}]
    /\ at' = [at EXCEPT ![p] = 0]

Recorded(p) ==
    /\ closed' = closed \cup (IF op[p] \in LockedSweeps THEN FamiliesOf(list[p]) ELSE {})
    /\ ended' = ended \cup list[p]

-----------------------------------------------------------------------------
(* login(): authenticate, then issue_pair(), which commits each statement *)

Login(p) ==
    /\ active
    /\ Begin(p, "login", "insert")
    /\ at' = [at EXCEPT ![p] = resets]
    /\ UNCHANGED <<rows, userRow, resets, reads, sid, list, kills, history>>

(* The new row is stamped at some moment between the check of the password   *)
(* and its insertion, which waits, for its foreign key, while the user's row *)
(* is held FOR UPDATE.                                                       *)
Insert(p, f) ==
    LET s == <<f, 1>> IN
    /\ pc[p] = "insert"
    /\ \A q \in Procs : op[q] \notin ForUpdate
    /\ status[s] = "none"
    /\ status' = [status EXCEPT ![s] = "live"]
    /\ \E now \in at[p]..resets : issued' = [issued EXCEPT ![s] = now]
    /\ pc' = [pc EXCEPT ![p] = "cap"]
    /\ UNCHANGED <<userRow, resets, reads, op, sid, list, kills, at, history>>

(* _enforce_session_cap(): of the unexpired live sessions, all but Cap.      *)
(* Which are unexpired and which are oldest is a free choice.                *)
EnforceCap(p) ==
    /\ pc[p] = "cap"
    /\ \E live \in SUBSET Live : \E surplus \in SUBSET live :
          /\ Cardinality(live \ surplus) <= Cap
          /\ surplus # {} => Cardinality(live \ surplus) = Cap
          /\ IF surplus = {}
             THEN Done(p)
             ELSE /\ list' = [list EXCEPT ![p] = surplus]
                  /\ pc' = [pc EXCEPT ![p] = "update"]
                  /\ UNCHANGED <<op, sid, kills, at>>
    /\ UNCHANGED <<rows, userRow, resets, reads, history>>

-----------------------------------------------------------------------------
(* rotate() *)

(* Any token ever issued may be presented.  SELECT ... FOR UPDATE takes the  *)
(* session's lock first.                                                     *)
Present(p, s) ==
    /\ s \in Issued
    /\ Unlocked(p, {s})
    /\ Begin(p, "rotate", "user")
    /\ sid' = [sid EXCEPT ![p] = s]
    /\ UNCHANGED <<rows, userRow, resets, reads, list, kills, at, history>>

(* Then it takes the user's, and decides with both held.                     *)
Deciding(p) == pc[p] = "user" /\ UserFree(p)

MutMayRotate(s) == active
MayRotate(s) == active /\ issued[s] >= changed

(* _grace_reissue() of a token rotated moments ago whose successor is live.  *)
Graced(s) == status[s] = "rotated" /\ status[Successor(s)] = "live" /\ active

(* A reissue writes nothing, and neither does a refusal.                     *)
RotateNothing(p) ==
    LET s == sid[p] IN
    /\ Deciding(p)
    /\ Graced(s) \/ (status[s] = "live" /\ ~MayRotate(s))
    /\ Done(p)
    /\ UNCHANGED <<rows, userRow, resets, reads, history>>

(* Reuse: revoke_family() reads the rows of the family.                      *)
RotateReuse(p) ==
    LET s == sid[p] IN
    /\ Deciding(p)
    /\ status[s] \in {"rotated", "revoked"}
    /\ op' = [op EXCEPT ![p] = "reuse"]
    /\ pc' = [pc EXCEPT ![p] = "update"]
    /\ list' = [list EXCEPT ![p] = {t \in Issued : t[1] = s[1]}]
    /\ UNCHANGED <<rows, userRow, resets, reads, sid, kills, at, history>>

(* Past expires_at or the idle lifetime: this row is revoked.                *)
RotateLapsed(p) ==
    LET s == sid[p] IN
    /\ Deciding(p)
    /\ status[s] = "live"
    /\ op' = [op EXCEPT ![p] = "expire"]
    /\ pc' = [pc EXCEPT ![p] = "forget"]
    /\ list' = [list EXCEPT ![p] = {s}]
    /\ kills' = [kills EXCEPT ![p] = {s}]
    /\ UNCHANGED <<rows, userRow, resets, reads, sid, at, history>>

(* _rotate_row(): the successor and the rotated row, written, uncommitted.   *)
RotateRow(p) ==
    LET s == sid[p] IN
    /\ Deciding(p)
    /\ status[s] = "live" /\ MayRotate(s)
    /\ s[2] < MaxGen
    /\ at' = [at EXCEPT ![p] = resets]
    /\ op' = [op EXCEPT ![p] = "successor"]
    /\ pc' = [pc EXCEPT ![p] = "forget"]
    /\ list' = [list EXCEPT ![p] = {s}]
    /\ UNCHANGED <<rows, userRow, resets, reads, sid, kills, history>>

-----------------------------------------------------------------------------
(* Revocations: what they read *)

Logout(p, s) ==
    /\ s \in Issued
    /\ Begin(p, "logout", "update")
    /\ list' = [list EXCEPT ![p] = {s}]
    /\ UNCHANGED <<rows, userRow, resets, reads, sid, kills, at, history>>

(* revoke_other_sessions(): every unrevoked session but the caller's.        *)
RevokeOthers(p, keep) ==
    /\ keep \in Live
    /\ Begin(p, "others", "update")
    /\ list' = [list EXCEPT ![p] = Live \ {keep}]
    /\ UNCHANGED <<rows, userRow, resets, reads, sid, kills, at, history>>

(* users.revoke_sessions(), an administrator's.                              *)
RevokeSessions(p) ==
    /\ Begin(p, "admin", "update")
    /\ list' = [list EXCEPT ![p] = Live]
    /\ UNCHANGED <<rows, userRow, resets, reads, sid, kills, at, history>>

(* users.deactivate() updates the user's row, and so locks it, before it     *)
(* reads the sessions.                                                       *)
Deactivate(p) ==
    /\ UserFree(p)
    /\ Begin(p, "deactivate", "list")
    /\ UNCHANGED <<rows, userRow, resets, reads, sid, list, kills, at, history>>

(* passwords.perform_reset() locks the user with the token, and stamps       *)
(* password_changed_at.                                                      *)
PerformReset(p) ==
    /\ active
    /\ resets < MaxResets
    /\ UserFree(p)
    /\ Begin(p, "password", "list")
    /\ resets' = resets + 1
    /\ at' = [at EXCEPT ![p] = resets + 1]
    /\ UNCHANGED <<rows, userRow, reads, sid, list, kills, history>>

ListAll(p) ==
    /\ pc[p] = "list"
    /\ list' = [list EXCEPT ![p] = Live]
    /\ pc' = [pc EXCEPT ![p] = "update"]
    /\ UNCHANGED <<rows, userRow, resets, reads, op, sid, kills, at, history>>

-----------------------------------------------------------------------------
(* _revoke_rows(): UPDATE the listed rows still unrevoked, then _forget() *)

MutTargets(p) == list[p] \cap Issued
Targets(p) == list[p] \cap Live

Revoked(rowset) == [s \in Sids |-> IF s \in rowset THEN "revoked" ELSE status[s]]

UpdateRows(p) ==
    /\ pc[p] = "update"
    /\ Unlocked(p, Targets(p))
    /\ IF op[p] \in Atomic
       THEN kills' = [kills EXCEPT ![p] = Targets(p)] /\ UNCHANGED status
       ELSE status' = Revoked(Targets(p)) /\ UNCHANGED kills
    /\ pc' = [pc EXCEPT ![p] = "forget"]
    /\ UNCHANGED <<issued, userRow, resets, reads, op, sid, list, at, history>>

Forget(p) ==
    /\ pc[p] = "forget"
    /\ cached' = cached \ list[p]
    /\ IF op[p] \in Atomic
       THEN /\ pc' = [pc EXCEPT ![p] = "commit"]
            /\ UNCHANGED <<op, sid, list, kills, at, history>>
       ELSE Recorded(p) /\ Done(p)
    /\ UNCHANGED <<rows, userRow, resets, filling>>

Commit(p) ==
    LET s == sid[p] IN
    /\ pc[p] = "commit"
    /\ IF op[p] = "successor"
       THEN /\ status' = [status EXCEPT ![s] = "rotated", ![Successor(s)] = "live"]
            /\ issued' = [issued EXCEPT ![Successor(s)] = at[p]]
       ELSE status' = Revoked(kills[p]) /\ UNCHANGED issued
    /\ active' = (active /\ op[p] # "deactivate")
    /\ changed' = IF op[p] = "password" THEN at[p] ELSE changed
    /\ Recorded(p)
    /\ Done(p)
    /\ UNCHANGED <<resets, reads>>

(* The process dies, or its transaction is rolled back.                      *)
Abort(p) ==
    /\ pc[p] # "idle"
    /\ Done(p)
    /\ UNCHANGED <<rows, userRow, resets, reads, history>>

(* users.activate()                                                          *)
Activate ==
    /\ ~active
    /\ \A p \in Procs : op[p] \notin UserLocked
    /\ active' = TRUE
    /\ UNCHANGED <<rows, changed, resets, reads, request, history>>

-----------------------------------------------------------------------------
(* session_is_live(): a cache miss reads the row, and then fills the cache *)

MutAnsweredLive(s) == s \in Issued
AnsweredLive(s) == s \in Live

ReadRow(r, s) ==
    /\ filling[r] = NoSid
    /\ s \notin cached
    /\ AnsweredLive(s)
    /\ filling' = [filling EXCEPT ![r] = s]
    /\ UNCHANGED <<rows, userRow, resets, cached, request, history>>

Fill(r) ==
    /\ filling[r] # NoSid
    /\ cached' = cached \cup {filling[r]}
    /\ filling' = [filling EXCEPT ![r] = NoSid]
    /\ UNCHANGED <<rows, userRow, resets, request, history>>

(* SESSION_LIVENESS_CACHE_TTL, or an eviction.                               *)
CacheExpires(s) ==
    /\ s \in cached
    /\ cached' = cached \ {s}
    /\ UNCHANGED <<rows, userRow, resets, filling, request, history>>

-----------------------------------------------------------------------------
RequestStep(p) ==
    \/ Login(p) \/ EnforceCap(p)
    \/ \E f \in Families : Insert(p, f)
    \/ \E s \in Sids : Present(p, s) \/ Logout(p, s) \/ RevokeOthers(p, s)
    \/ RotateNothing(p) \/ RotateReuse(p) \/ RotateLapsed(p) \/ RotateRow(p)
    \/ RevokeSessions(p) \/ Deactivate(p) \/ PerformReset(p) \/ ListAll(p)
    \/ UpdateRows(p) \/ Forget(p) \/ Commit(p) \/ Abort(p)

Next ==
    \/ \E p \in Procs : RequestStep(p)
    \/ \E r \in Readers : Fill(r) \/ \E s \in Sids : ReadRow(r, s)
    \/ \E s \in Sids : CacheExpires(s)
    \/ Activate

Spec == Init /\ [][Next]_vars

(* A cached answer lives for its TTL.                                        *)
Fairness == \A s \in Sids : WF_vars(CacheExpires(s))
FairSpec == Spec /\ Fairness
=============================================================================
