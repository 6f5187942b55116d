--------------------------- MODULE SessionsProofs ---------------------------
(* The inductive invariant of a user's sessions, and the properties that     *)
(* follow from it, for any number of logins, rows, processes and readers.    *)
EXTENDS SessionsProperties, TLAPS

USE BoundsAssumption, NoSidAssumption DEF rows, userRow, reads, request, history

-----------------------------------------------------------------------------
(* The inductive invariant *)

(* The first row of a login.                                                 *)
Root(s) == <<s[1], 1>>

(* Where a process can be in each operation, and what it has with it.        *)
RequestsConsistent ==
    \A p \in Procs :
        /\ pc[p] = "idle" <=> op[p] = "none"
        /\ pc[p] = "user" <=> op[p] = "rotate"
        /\ pc[p] \in {"insert", "cap"} => op[p] = "login"
        /\ pc[p] = "list" => op[p] \in {"deactivate", "password"}
        /\ pc[p] = "commit" => op[p] \in Atomic
        /\ op[p] \in {"successor", "expire"} => pc[p] \in {"forget", "commit"}
        /\ op[p] \in Rotations => sid[p] \in Sids
        /\ op[p] = "successor" => sid[p][2] < MaxGen
        /\ kills[p] # {} => /\ op[p] \in Atomic \ {"rotate", "successor"}
                            /\ pc[p] \in {"forget", "commit"}

(* No row is held by two processes, and the user's row by one at most.       *)
LocksExclusive ==
    \A p \in Procs : \A q \in Procs \ {p} :
        /\ Holds(p) \cap Holds(q) = {}
        /\ ~(op[p] \in UserLocked /\ op[q] \in UserLocked)

(* What was read under a lock is still so.                                   *)
RowsLocked ==
    \A p \in Procs :
        /\ list[p] \subseteq Issued
        /\ kills[p] \subseteq Live
        /\ op[p] \in {"successor", "expire"} => sid[p] \in Live

(* No row of a login comes before its first.                                 *)
RootsComeFirst == \A s \in Sids : status[s] # "none" => status[Root(s)] # "none"
ClosedHaveRoots == \A f \in closed : status[<<f, 1>>] # "none"

(* A sweep that holds the user's row misses no live row of its families.     *)
SweepsSeeFamilies ==
    \A p \in Procs : op[p] \in LockedSweeps =>
        \A s \in Live : s[1] \in FamiliesOf(list[p]) =>
            /\ pc[p] = "update" => s \in list[p]
            /\ pc[p] \in {"forget", "commit"} => s \in kills[p]

(* A password change, which also keeps logins out, misses no live row.       *)
PasswordSweepsSeeAll ==
    \A p \in Procs : op[p] = "password" =>
        /\ pc[p] = "update" => Live \subseteq list[p]
        /\ pc[p] \in {"forget", "commit"} => Live \subseteq kills[p]

(* No rotation in flight is of a login older than the password.              *)
RotationsAreRecent ==
    \A p \in Procs : op[p] = "successor" => issued[Root(sid[p])] >= changed

IInv ==
    /\ TypeOK /\ RequestsConsistent /\ LocksExclusive /\ RowsLocked
    /\ ChainHasOneTip /\ RootsComeFirst
    /\ SweepsSeeFamilies /\ ClosedHaveRoots /\ ClosedFamiliesStayClosed
    /\ PasswordSweepsSeeAll /\ RotationsAreRecent /\ PasswordChangeEndsLogins

-----------------------------------------------------------------------------
(* The rows of a family *)

LEMMA SidFacts ==
    ASSUME NEW s \in Sids
    PROVE  /\ s[1] \in Families /\ s[2] \in 1..MaxGen /\ s = <<s[1], s[2]>>
           /\ Root(s) \in Sids /\ Root(s)[1] = s[1] /\ Root(s)[2] = 1
           /\ Root(Root(s)) = Root(s)
BY DEF Sids, Root

LEMMA SuccessorFacts ==
    ASSUME NEW s \in Sids, s[2] < MaxGen
    PROVE  /\ Successor(s) \in Sids /\ Successor(s) # s /\ Successor(s)[1] = s[1]
           /\ Root(Successor(s)) = Root(s) /\ Root(s) # Successor(s)
           /\ \A t \in Sids : Successor(t) = Successor(s) => t = s
           /\ \A t \in Sids : Successor(t) # Root(s)
BY SidFacts DEF Sids, Root, Successor

LEMMA StatusKinds ==
    /\ Live \subseteq Issued /\ Issued \subseteq Sids
    /\ \A s \in Sids : /\ s \in Live <=> status[s] = "live"
                       /\ s \in Issued <=> status[s] # "none"
BY DEF Live, Issued

-----------------------------------------------------------------------------
(* Typing *)

LEMMA NextCases ==
    ASSUME [Next]_vars
    PROVE  \/ UNCHANGED vars
           \/ \E p \in Procs : RequestStep(p)
           \/ \E r \in Readers : Fill(r) \/ \E s \in Sids : ReadRow(r, s)
           \/ \E s \in Sids : CacheExpires(s)
           \/ Activate
BY DEF Next

(* A process that finishes forgets its request, alone.                       *)
LEMMA DoneTyped ==
    ASSUME TypeOK, NEW p \in Procs, Done(p)
    PROVE  /\ op' \in [Procs -> Ops] /\ pc' \in [Procs -> Phases]
           /\ sid' \in [Procs -> Sids \cup {NoSid}]
           /\ list' \in [Procs -> SUBSET Sids] /\ kills' \in [Procs -> SUBSET Sids]
           /\ at' \in [Procs -> Nat]
           /\ op'[p] = "none" /\ pc'[p] = "idle" /\ list'[p] = {} /\ kills'[p] = {}
BY DEF TypeOK, Done, Ops, Phases

(* A process that begins an operation takes its first place, alone.          *)
LEMMA BeginTyped ==
    ASSUME TypeOK, NEW p \in Procs, NEW o \in Ops, NEW c \in Phases, Begin(p, o, c)
    PROVE  op' \in [Procs -> Ops] /\ pc' \in [Procs -> Phases] /\ op'[p] = o /\ pc'[p] = c
BY DEF TypeOK, Begin

LEMMA RevokedTyped ==
    ASSUME TypeOK, NEW K \in SUBSET Sids, status' = Revoked(K)
    PROVE  status' \in [Sids -> Statuses]
BY DEF TypeOK, Revoked, Statuses

LEMMA RecordedTyped ==
    ASSUME TypeOK, NEW p \in Procs, Recorded(p)
    PROVE  closed' \subseteq Families /\ ended' \subseteq Sids
BY SidFacts DEF TypeOK, Recorded, FamiliesOf

(* Every step keeps the types.                                               *)
LEMMA TypeInductive ==
    ASSUME TypeOK, RequestsConsistent, [Next]_vars
    PROVE  TypeOK'
<1>1. CASE UNCHANGED vars
    BY <1>1 DEF vars, TypeOK
<1>2. ASSUME NEW p \in Procs, RequestStep(p) PROVE TypeOK'
    <2>1. CASE Login(p)
        BY <2>1, BeginTyped DEF Login, TypeOK, Ops, Phases
    <2>2. ASSUME NEW f \in Families, Insert(p, f) PROVE TypeOK'
        <3>1. PICK now \in at[p]..resets : issued' = [issued EXCEPT ![<<f, 1>>] = now]
            BY <2>2 DEF Insert
        <3>2. now \in Nat
            BY DEF TypeOK
        <3>. QED BY <2>2, <3>1, <3>2 DEF Insert, TypeOK, Statuses, Phases
    <2>3. CASE EnforceCap(p)
        BY <2>3, DoneTyped, StatusKinds DEF EnforceCap, TypeOK, Phases
    <2>4. ASSUME NEW s \in Sids, Present(p, s) PROVE TypeOK'
        BY <2>4, BeginTyped DEF Present, TypeOK, Ops, Rotations, Phases
    <2>5. CASE RotateNothing(p)
        BY <2>5, DoneTyped DEF RotateNothing, TypeOK
    <2>6. CASE RotateReuse(p)
        BY <2>6, StatusKinds DEF RotateReuse, TypeOK, Ops, Rotations, Phases
    <2>7. CASE RotateLapsed(p) \/ RotateRow(p)
        <3>1. sid[p] \in Sids
            BY <2>7 DEF RotateLapsed, RotateRow, Deciding, RequestsConsistent, Rotations
        <3>. QED BY <2>7, <3>1 DEF RotateLapsed, RotateRow, TypeOK, Ops, Rotations, Phases
    <2>8. CASE \E s \in Sids : Logout(p, s) \/ RevokeOthers(p, s)
        BY <2>8, BeginTyped, StatusKinds
        DEF Logout, RevokeOthers, TypeOK, Ops, OpenSweeps, Phases
    <2>9. CASE RevokeSessions(p) \/ Deactivate(p) \/ PerformReset(p)
        BY <2>9, BeginTyped, StatusKinds
        DEF RevokeSessions, Deactivate, PerformReset, TypeOK, Ops, OpenSweeps, LockedSweeps, Phases
    <2>10. CASE ListAll(p)
        BY <2>10, StatusKinds DEF ListAll, TypeOK, Phases
    <2>11. CASE UpdateRows(p)
        BY <2>11, RevokedTyped, StatusKinds DEF UpdateRows, Targets, TypeOK, Phases
    <2>12. CASE Forget(p)
        BY <2>12, DoneTyped, RecordedTyped DEF Forget, TypeOK, Phases
    <2>13. CASE Commit(p)
        BY <2>13, DoneTyped, RecordedTyped, RevokedTyped DEF Commit, TypeOK, Statuses
    <2>14. CASE Abort(p)
        BY <2>14, DoneTyped DEF Abort, TypeOK
    <2>. QED BY <1>2, <2>1, <2>2, <2>3, <2>4, <2>5, <2>6, <2>7, <2>8, <2>9, <2>10, <2>11,
                <2>12, <2>13, <2>14 DEF RequestStep
<1>3. ASSUME NEW r \in Readers, Fill(r) \/ \E s \in Sids : ReadRow(r, s) PROVE TypeOK'
    BY <1>3 DEF Fill, ReadRow, TypeOK
<1>4. CASE \E s \in Sids : CacheExpires(s)
    BY <1>4 DEF CacheExpires, TypeOK
<1>5. CASE Activate
    BY <1>5 DEF Activate, TypeOK
<1>. QED BY <1>1, <1>2, <1>3, <1>4, <1>5, NextCases

-----------------------------------------------------------------------------
(* What each process does *)

(* A step of one process leaves what the others do alone.                    *)
LEMMA OthersKeep ==
    ASSUME TypeOK, NEW p \in Procs, RequestStep(p), NEW q \in Procs \ {p}
    PROVE  /\ op'[q] = op[q] /\ pc'[q] = pc[q] /\ sid'[q] = sid[q]
           /\ list'[q] = list[q] /\ kills'[q] = kills[q] /\ at'[q] = at[q]
<1>. USE DEF TypeOK, Begin, Done
<1>1. CASE Login(p) \/ EnforceCap(p) \/ \E f \in Families : Insert(p, f)
    BY <1>1 DEF Login, EnforceCap, Insert
<1>2. CASE \E s \in Sids : Present(p, s) \/ Logout(p, s) \/ RevokeOthers(p, s)
    BY <1>2 DEF Present, Logout, RevokeOthers
<1>3. CASE RotateNothing(p) \/ RotateReuse(p) \/ RotateLapsed(p) \/ RotateRow(p)
    BY <1>3 DEF RotateNothing, RotateReuse, RotateLapsed, RotateRow
<1>4. CASE RevokeSessions(p) \/ Deactivate(p) \/ PerformReset(p) \/ ListAll(p)
    BY <1>4 DEF RevokeSessions, Deactivate, PerformReset, ListAll
<1>5. CASE UpdateRows(p) \/ Forget(p) \/ Commit(p) \/ Abort(p)
    BY <1>5 DEF UpdateRows, Forget, Commit, Abort
<1>. QED BY <1>1, <1>2, <1>3, <1>4, <1>5 DEF RequestStep

(* Only a process's own steps change what it does.                           *)
LEMMA RequestCases ==
    ASSUME [Next]_vars
    PROVE  (UNCHANGED <<status, issued, request>>) \/ \E p \in Procs : RequestStep(p)
BY NextCases DEF vars, Fill, ReadRow, CacheExpires, Activate

(* What a request has with it fits the place it is at.                       *)
LEMMA RequestsInductive ==
    ASSUME TypeOK, RequestsConsistent, [Next]_vars
    PROVE  RequestsConsistent'
<1>1. CASE UNCHANGED <<status, issued, request>>
    BY <1>1 DEF RequestsConsistent
<1>2. ASSUME NEW p \in Procs, RequestStep(p) PROVE RequestsConsistent'
    <2>. USE DEF TypeOK, RequestsConsistent, Begin, Atomic, Rotations, LockedSweeps
    <2>1. CASE Login(p)
        BY <2>1 DEF Login
    <2>2. CASE \E f \in Families : Insert(p, f)
        <3>1. pc[p] = "insert" /\ pc' = [pc EXCEPT ![p] = "cap"] /\ UNCHANGED <<op, sid, list, kills>>
            BY <2>2 DEF Insert
        <3>. QED BY <3>1
    <2>3. CASE EnforceCap(p)
        BY <1>2, <2>3 DEF EnforceCap, Done
    <2>4. CASE \E s \in Sids : Present(p, s)
        BY <1>2, <2>4 DEF Present
    <2>5. CASE \E s \in Sids : Logout(p, s) \/ RevokeOthers(p, s)
        BY <1>2, <2>5 DEF Logout, RevokeOthers
    <2>6. CASE RotateNothing(p) \/ Abort(p)
        BY <1>2, <2>6 DEF RotateNothing, Abort, Done
    <2>7. CASE RotateReuse(p) \/ RotateLapsed(p) \/ RotateRow(p)
        BY <1>2, <2>7 DEF RotateReuse, RotateLapsed, RotateRow, Deciding
    <2>8. CASE RevokeSessions(p) \/ Deactivate(p) \/ PerformReset(p)
        BY <1>2, <2>8 DEF RevokeSessions, Deactivate, PerformReset
    <2>9. CASE ListAll(p)
        BY <1>2, <2>9 DEF ListAll
    <2>10. CASE UpdateRows(p)
        BY <1>2, <2>10 DEF UpdateRows
    <2>11. CASE Forget(p)
        BY <1>2, <2>11 DEF Forget, Done
    <2>12. CASE Commit(p)
        BY <1>2, <2>12 DEF Commit, Done
    <2>. QED BY <1>2, <2>1, <2>2, <2>3, <2>4, <2>5, <2>6, <2>7, <2>8, <2>9, <2>10, <2>11, <2>12
             DEF RequestStep
<1>. QED BY <1>1, <1>2, RequestCases

-----------------------------------------------------------------------------
(* Locks *)

(* A process takes a row that no other process holds.                        *)
LEMMA HoldsGrow ==
    ASSUME TypeOK, RequestsConsistent, NEW p \in Procs, RequestStep(p),
           NEW q \in Procs \ {p}, Holds(p) \cap Holds(q) = {}
    PROVE  Holds(p)' \cap Holds(q) = {}
<1>. USE DEF TypeOK, Begin, Holds, Rotations
<1>1. CASE Login(p)
    BY <1>1 DEF Login
<1>2. CASE \E f \in Families : Insert(p, f)
    BY <1>2 DEF Insert
<1>3. CASE EnforceCap(p)
    BY <1>3 DEF EnforceCap, Done
<1>4. CASE \E s \in Sids : Present(p, s)
    BY <1>4 DEF Present, Unlocked, RequestsConsistent
<1>5. CASE \E s \in Sids : Logout(p, s) \/ RevokeOthers(p, s)
    BY <1>5 DEF Logout, RevokeOthers
<1>6. CASE RotateNothing(p) \/ Abort(p) \/ Commit(p)
    BY <1>6 DEF RotateNothing, Abort, Commit, Done
<1>7. CASE RotateReuse(p) \/ RotateLapsed(p) \/ RotateRow(p)
    BY <1>7 DEF RotateReuse, RotateLapsed, RotateRow, Deciding, RequestsConsistent
<1>8. CASE RevokeSessions(p) \/ Deactivate(p) \/ PerformReset(p) \/ ListAll(p)
    BY <1>8 DEF RevokeSessions, Deactivate, PerformReset, ListAll
<1>9. CASE UpdateRows(p)
    BY <1>9 DEF UpdateRows, Unlocked
<1>10. CASE Forget(p)
    BY <1>10 DEF Forget, Done
<1>. QED BY <1>1, <1>2, <1>3, <1>4, <1>5, <1>6, <1>7, <1>8, <1>9, <1>10 DEF RequestStep

(* A process locks the user's row when nobody holds it.                      *)
LEMMA UserLockTaken ==
    ASSUME TypeOK, RequestsConsistent, NEW p \in Procs, RequestStep(p),
           op'[p] \in UserLocked
    PROVE  op[p] \in UserLocked \/ UserFree(p)
<1>. USE DEF TypeOK, Begin, UserLocked, LockedSweeps
<1>1. CASE Login(p) \/ EnforceCap(p)
    BY <1>1 DEF Login, EnforceCap, Done
<1>2. CASE \E f \in Families : Insert(p, f)
    BY <1>2 DEF Insert
<1>3. CASE \E s \in Sids : Present(p, s) \/ Logout(p, s) \/ RevokeOthers(p, s)
    BY <1>3 DEF Present, Logout, RevokeOthers
<1>4. CASE RotateNothing(p) \/ Abort(p) \/ Commit(p)
    BY <1>4 DEF RotateNothing, Abort, Commit, Done
<1>5. CASE RotateReuse(p) \/ RotateLapsed(p) \/ RotateRow(p)
    BY <1>5 DEF RotateReuse, RotateLapsed, RotateRow, Deciding
<1>6. CASE RevokeSessions(p) \/ Deactivate(p) \/ PerformReset(p) \/ ListAll(p)
    BY <1>6 DEF RevokeSessions, Deactivate, PerformReset, ListAll
<1>7. CASE UpdateRows(p) \/ Forget(p)
    BY <1>7 DEF UpdateRows, Forget, Done
<1>. QED BY <1>1, <1>2, <1>3, <1>4, <1>5, <1>6, <1>7 DEF RequestStep

(* Every step keeps the locks exclusive.                                     *)
LEMMA LocksInductive ==
    ASSUME TypeOK, RequestsConsistent, LocksExclusive, [Next]_vars
    PROVE  LocksExclusive'
<1>1. CASE UNCHANGED <<status, issued, request>>
    BY <1>1 DEF LocksExclusive, Holds
<1>2. ASSUME NEW p \in Procs, RequestStep(p) PROVE LocksExclusive'
    <2>1. \A q \in Procs \ {p} : Holds(q)' = Holds(q) /\ op'[q] = op[q]
        BY <1>2, OthersKeep DEF Holds
    <2>2. \A q \in Procs \ {p} : Holds(p)' \cap Holds(q) = {}
        BY <1>2, HoldsGrow DEF LocksExclusive
    <2>3. \A q \in Procs \ {p} : ~(op'[p] \in UserLocked /\ op[q] \in UserLocked)
        BY <1>2, UserLockTaken DEF LocksExclusive, UserFree
    <2>. QED BY <2>1, <2>2, <2>3 DEF LocksExclusive
<1>. QED BY <1>1, <1>2, RequestCases

-----------------------------------------------------------------------------
(* What a step does to the rows *)

(* A row is inserted, rotated, or revoked by a process that holds it or is   *)
(* alone at it.                                                              *)
Rotates(p) ==
    /\ op[p] = "successor" /\ pc[p] = "commit"
    /\ status' = [status EXCEPT ![sid[p]] = "rotated", ![Successor(sid[p])] = "live"]
    /\ issued' = [issued EXCEPT ![Successor(sid[p])] = at[p]]
Revokes(p, K) ==
    /\ K \subseteq Live
    /\ \A q \in Procs \ {p} : K \cap Holds(q) = {}
    /\ status' = Revoked(K) /\ UNCHANGED issued

LEMMA RowCases ==
    ASSUME TypeOK, RequestsConsistent, LocksExclusive, RowsLocked,
           NEW p \in Procs, RequestStep(p)
    PROVE  \/ UNCHANGED <<status, issued>>
           \/ \E f \in Families : Insert(p, f)
           \/ Rotates(p)
           \/ \E K \in SUBSET Sids : Revokes(p, K)
<1>1. CASE UpdateRows(p)
    <2>1. Targets(p) \in SUBSET Sids /\ Targets(p) \subseteq Live
        BY StatusKinds DEF Targets
    <2>. QED BY <1>1, <2>1 DEF UpdateRows, Unlocked, Revokes
<1>2. CASE Commit(p)
    <2>1. kills[p] \in SUBSET Sids /\ kills[p] \subseteq Live
        BY StatusKinds DEF RowsLocked
    <2>2. \A q \in Procs \ {p} : kills[p] \cap Holds(q) = {}
        BY DEF LocksExclusive, Holds
    <2>. QED BY <1>2, <2>1, <2>2 DEF Commit, Rotates, Revokes
<1>3. CASE Login(p) \/ EnforceCap(p) \/ \E s \in Sids : Present(p, s) \/ Logout(p, s) \/ RevokeOthers(p, s)
    BY <1>3 DEF Login, EnforceCap, Present, Logout, RevokeOthers
<1>4. CASE RotateNothing(p) \/ RotateReuse(p) \/ RotateLapsed(p) \/ RotateRow(p)
    BY <1>4 DEF RotateNothing, RotateReuse, RotateLapsed, RotateRow
<1>5. CASE RevokeSessions(p) \/ Deactivate(p) \/ PerformReset(p) \/ ListAll(p)
    BY <1>5 DEF RevokeSessions, Deactivate, PerformReset, ListAll
<1>6. CASE Forget(p) \/ Abort(p)
    BY <1>6 DEF Forget, Abort
<1>. QED BY <1>1, <1>2, <1>3, <1>4, <1>5, <1>6 DEF RequestStep

(* What each of these does to one row.                                       *)
LEMMA InsertEffect ==
    ASSUME TypeOK, NEW p \in Procs, NEW f \in Families, Insert(p, f)
    PROVE  /\ <<f, 1>> \in Sids
           /\ status[<<f, 1>>] = "none" /\ status'[<<f, 1>>] = "live"
           /\ \A s \in Sids \ {<<f, 1>>} : status'[s] = status[s] /\ issued'[s] = issued[s]
BY DEF TypeOK, Insert, Sids

LEMMA RotateEffect ==
    ASSUME TypeOK, RequestsConsistent, RowsLocked, ChainHasOneTip,
           NEW p \in Procs, Rotates(p), NEW s, s = sid[p]
    PROVE  /\ s \in Sids /\ s[2] < MaxGen /\ Successor(s) \in Sids /\ Successor(s) # s
           /\ status[s] = "live" /\ status'[s] = "rotated"
           /\ status[Successor(s)] = "none" /\ status'[Successor(s)] = "live"
           /\ issued'[Successor(s)] = at[p] /\ issued'[s] = issued[s]
           /\ \A t \in Sids \ {s, Successor(s)} : status'[t] = status[t] /\ issued'[t] = issued[t]
<1>1. s \in Live /\ s \in Sids /\ s[2] < MaxGen
    BY StatusKinds DEF Rotates, RowsLocked, RequestsConsistent
<1>2. status[s] = "live" /\ status[Successor(s)] = "none"
    BY <1>1, StatusKinds, SuccessorFacts DEF ChainHasOneTip, TypeOK, Statuses
<1>. QED BY <1>1, <1>2, SuccessorFacts DEF Rotates, TypeOK

LEMMA RevokeEffect ==
    ASSUME TypeOK, NEW p \in Procs, NEW K \in SUBSET Sids, Revokes(p, K)
    PROVE  /\ \A s \in K : status[s] = "live" /\ status'[s] = "revoked"
           /\ \A s \in Sids \ K : status'[s] = status[s]
           /\ issued' = issued
BY StatusKinds DEF Revokes, Revoked

-----------------------------------------------------------------------------
(* The chain of a family *)

(* A row that was issued stays issued, and one that stopped working keeps    *)
(* its reason.                                                               *)
LEMMA RowsKeep ==
    ASSUME TypeOK, RequestsConsistent, LocksExclusive, RowsLocked, ChainHasOneTip,
           [Next]_vars, NEW s \in Sids
    PROVE  /\ status[s] # "none" => status'[s] # "none"
           /\ status[s] \in {"rotated", "revoked"} => status'[s] = status[s]
<1>1. CASE UNCHANGED <<status, issued, request>>
    BY <1>1
<1>2. ASSUME NEW p \in Procs, RequestStep(p)
      PROVE  /\ status[s] # "none" => status'[s] # "none"
             /\ status[s] \in {"rotated", "revoked"} => status'[s] = status[s]
    <2>1. CASE UNCHANGED <<status, issued>>
        BY <2>1
    <2>2. ASSUME NEW f \in Families, Insert(p, f) PROVE status[s] # "none" => status'[s] = status[s]
        BY <2>2, InsertEffect
    <2>3. CASE Rotates(p)
        BY <2>3, RotateEffect
    <2>4. ASSUME NEW K \in SUBSET Sids, Revokes(p, K)
          PROVE  status'[s] = status[s] \/ (status[s] = "live" /\ status'[s] = "revoked")
        BY <2>4, RevokeEffect
    <2>. QED BY <1>2, <2>1, <2>2, <2>3, <2>4, RowCases
<1>. QED BY <1>1, <1>2, RequestCases

(* A process's lock keeps the live rows it holds from everyone else.         *)
LEMMA HeldRowsStay ==
    ASSUME TypeOK, RequestsConsistent, LocksExclusive, RowsLocked, ChainHasOneTip,
           NEW p \in Procs, RequestStep(p), NEW q \in Procs \ {p},
           NEW s \in Holds(q), s \in Live
    PROVE  s \in Live'
<1>1. s \in Sids /\ status[s] = "live"
    BY StatusKinds
<1>2. s # sid[p] \/ op[p] \notin Rotations
    BY DEF LocksExclusive, Holds
<1>3. status'[s] = "live"
    <2>1. ASSUME NEW f \in Families, Insert(p, f) PROVE status'[s] = "live"
        BY <1>1, <2>1, InsertEffect
    <2>2. CASE Rotates(p)
        <3>1. s # sid[p]
            BY <1>2, <2>2 DEF Rotates, Rotations
        <3>2. s # Successor(sid[p])
            BY <1>1, <2>2, RotateEffect
        <3>. QED BY <1>1, <2>2, <3>1, <3>2, RotateEffect
    <2>3. ASSUME NEW K \in SUBSET Sids, Revokes(p, K) PROVE status'[s] = "live"
        BY <1>1, <2>3, RevokeEffect DEF Revokes
    <2>. QED BY <1>1, <2>1, <2>2, <2>3, RowCases
<1>. QED BY <1>1, <1>3 DEF Live

(* What a process read under its locks still holds.                          *)
LEMMA RowsLockedInductive ==
    ASSUME TypeOK, RequestsConsistent, LocksExclusive, RowsLocked, ChainHasOneTip, [Next]_vars
    PROVE  RowsLocked'
<1>1. CASE UNCHANGED <<status, issued, request>>
    BY <1>1 DEF RowsLocked, Live, Issued
<1>2. ASSUME NEW p \in Procs, RequestStep(p) PROVE RowsLocked'
    <2>1. Issued \subseteq Issued'
        BY RowsKeep DEF Issued
    <2>2. \A q \in Procs \ {p} :
              /\ list'[q] \subseteq Issued'
              /\ kills'[q] \subseteq Live'
              /\ op'[q] \in {"successor", "expire"} => sid'[q] \in Live'
        BY <1>2, <2>1, OthersKeep, HeldRowsStay DEF RowsLocked, Holds, Rotations
    <2>3. /\ list'[p] \subseteq Issued'
          /\ kills'[p] \subseteq Live'
          /\ op'[p] \in {"successor", "expire"} => sid'[p] \in Live'
        <3>. USE DEF TypeOK, Begin
        <3>1. CASE Login(p)
            BY <2>1, <3>1 DEF Login, RowsLocked, RequestsConsistent, Live
        <3>2. ASSUME NEW f \in Families, Insert(p, f)
              PROVE  /\ list'[p] \subseteq Issued' /\ kills'[p] \subseteq Live'
                     /\ op'[p] \notin {"successor", "expire"}
            <4>1. /\ op' = op /\ list' = list /\ kills' = kills /\ pc[p] = "insert"
                BY <3>2 DEF Insert
            <4>2. op[p] = "login" /\ kills[p] = {}
                BY <4>1 DEF RequestsConsistent
            <4>. QED BY <2>1, <4>1, <4>2 DEF RowsLocked
        <3>3. CASE EnforceCap(p)
            <4>1. op[p] = "login" /\ kills[p] = {}
                BY <3>3 DEF EnforceCap, RequestsConsistent
            <4>. QED BY <3>3, <4>1, StatusKinds DEF EnforceCap, Done, Live, Issued
        <3>4. CASE \E s \in Sids : Present(p, s) \/ Logout(p, s) \/ RevokeOthers(p, s)
            BY <3>4, StatusKinds
            DEF Present, Logout, RevokeOthers, RowsLocked, RequestsConsistent, Live, Issued
        <3>5. CASE RotateNothing(p) \/ Abort(p) \/ Commit(p)
            BY <3>5 DEF RotateNothing, Abort, Commit, Done
        <3>6. CASE RotateReuse(p) \/ RotateLapsed(p) \/ RotateRow(p)
            BY <3>6 DEF RotateReuse, RotateLapsed, RotateRow, Deciding, RowsLocked,
                        RequestsConsistent, Rotations, Live, Issued
        <3>7. CASE RevokeSessions(p) \/ Deactivate(p) \/ PerformReset(p) \/ ListAll(p)
            BY <3>7 DEF RevokeSessions, Deactivate, PerformReset, ListAll, RowsLocked,
                        RequestsConsistent, Live, Issued
        <3>8. CASE UpdateRows(p)
            <4>1. op' = op /\ list' = list /\ pc[p] = "update"
                BY <3>8 DEF UpdateRows
            <4>2. op[p] \notin {"successor", "expire"} /\ kills[p] = {}
                BY <4>1 DEF RequestsConsistent
            <4>3. kills'[p] \subseteq Live'
                BY <3>8, <4>2 DEF UpdateRows, Targets, Live
            <4>. QED BY <2>1, <4>1, <4>2, <4>3 DEF RowsLocked
        <3>9. CASE Forget(p)
            BY <3>9 DEF Forget, Done, RowsLocked, Live, Issued
        <3>. QED BY <1>2, <3>1, <3>2, <3>3, <3>4, <3>5, <3>6, <3>7, <3>8, <3>9 DEF RequestStep
    <2>. QED BY <2>2, <2>3 DEF RowsLocked
<1>. QED BY <1>1, <1>2, RequestCases

(* A row has a successor exactly when it was rotated.                        *)
LEMMA ChainInductive ==
    ASSUME TypeOK, RequestsConsistent, LocksExclusive, RowsLocked, ChainHasOneTip, [Next]_vars
    PROVE  ChainHasOneTip'
<1>1. CASE UNCHANGED <<status, issued>>
    BY <1>1 DEF ChainHasOneTip
<1>2. ASSUME NEW p \in Procs, RequestStep(p), NEW s \in Sids, s[2] < MaxGen
      PROVE  status'[s] = "rotated" <=> status'[Successor(s)] # "none"
    <2>1. /\ Successor(s) \in Sids /\ Successor(s) # s
          /\ status[s] = "rotated" <=> status[Successor(s)] # "none"
        BY <1>2, SuccessorFacts DEF ChainHasOneTip
    <2>2. ASSUME NEW f \in Families, Insert(p, f)
          PROVE  status'[s] = "rotated" <=> status'[Successor(s)] # "none"
        <3>1. <<f, 1>> \in Sids /\ Root(<<f, 1>>) = <<f, 1>>
            BY <2>2, InsertEffect DEF Root
        <3>2. Successor(s) # <<f, 1>>
            BY <3>1, SidFacts DEF Successor, Root
        <3>. QED BY <2>1, <2>2, <3>2, InsertEffect
    <2>3. CASE Rotates(p)
        <3>. DEFINE t == sid[p]
        <3>1. t \in Sids /\ t[2] < MaxGen
            BY <2>3, RotateEffect
        <3>2. s # t => Successor(s) # Successor(t)
            BY <3>1, SuccessorFacts
        <3>3. Successor(t) \in Sids /\ status[Successor(t)] = "none"
            BY <2>3, RotateEffect
        <3>4. s = Successor(t) => status[Successor(s)] = "none" /\ Successor(s) # t
            BY <2>1, <2>3, <3>3, RotateEffect
        <3>5. Successor(s) # t \/ status[s] = "rotated"
            BY <2>1, <2>3, RotateEffect
        <3>. QED BY <2>1, <2>3, <3>2, <3>4, <3>5, RotateEffect
    <2>4. ASSUME NEW K \in SUBSET Sids, Revokes(p, K)
          PROVE  status'[s] = "rotated" <=> status'[Successor(s)] # "none"
        BY <2>1, <2>4, RevokeEffect
    <2>. QED BY <1>2, <2>1, <2>2, <2>3, <2>4, RowCases
<1>. QED BY <1>1, <1>2, RequestCases DEF ChainHasOneTip

(* A row other than the first is issued by rotation of an issued row.        *)
LEMMA RootsInductive ==
    ASSUME TypeOK, RequestsConsistent, LocksExclusive, RowsLocked, ChainHasOneTip,
           RootsComeFirst, [Next]_vars
    PROVE  RootsComeFirst'
<1>1. CASE UNCHANGED <<status, issued>>
    BY <1>1 DEF RootsComeFirst
<1>2. ASSUME NEW p \in Procs, RequestStep(p), NEW s \in Sids, status'[s] # "none"
      PROVE  status'[Root(s)] # "none"
    <2>1. Root(s) \in Sids /\ (status[s] # "none" => status'[Root(s)] # "none")
        BY SidFacts, RowsKeep DEF RootsComeFirst
    <2>2. ASSUME NEW f \in Families, Insert(p, f) PROVE status'[Root(s)] # "none"
        <3>1. Root(<<f, 1>>) = <<f, 1>>
            BY DEF Root
        <3>2. s # <<f, 1>> => status[s] # "none"
            BY <1>2, <2>2, InsertEffect
        <3>. QED BY <1>2, <2>1, <3>1, <3>2
    <2>3. CASE Rotates(p)
        <3>1. s = Successor(sid[p]) => Root(s) = Root(sid[p])
            BY <2>3, RotateEffect, SuccessorFacts
        <3>2. status'[Root(sid[p])] # "none"
            BY <2>3, RotateEffect, SidFacts, RowsKeep DEF RootsComeFirst
        <3>. QED BY <1>2, <2>1, <2>3, <3>1, <3>2, RotateEffect
    <2>4. ASSUME NEW K \in SUBSET Sids, Revokes(p, K) PROVE status'[Root(s)] # "none"
        BY <1>2, <2>1, <2>4, RevokeEffect
    <2>. QED BY <1>2, <2>1, <2>2, <2>3, <2>4, RowCases
<1>. QED BY <1>1, <1>2, RequestCases DEF RootsComeFirst

-----------------------------------------------------------------------------
(* Sweeps *)

(* The part of the invariant about rows and locks.                           *)
RowInv ==
    /\ TypeOK /\ RequestsConsistent /\ LocksExclusive /\ RowsLocked
    /\ ChainHasOneTip /\ RootsComeFirst

LEMMA RowInvInductive ==
    ASSUME RowInv, [Next]_vars
    PROVE  RowInv'
BY TypeInductive, RequestsInductive, LocksInductive, RowsLockedInductive, ChainInductive,
   RootsInductive DEF RowInv

(* A row starts to work by an insertion or by a rotation.                    *)
LEMMA NewLive ==
    ASSUME RowInv, NEW p \in Procs, RequestStep(p), NEW s \in Sids,
           status'[s] = "live", status[s] # "live"
    PROVE  \/ \E f \in Families : Insert(p, f) /\ s = <<f, 1>> /\ status[s] = "none"
           \/ Rotates(p) /\ s = Successor(sid[p])
<1>1. ASSUME NEW f \in Families, Insert(p, f) PROVE s = <<f, 1>> /\ status[s] = "none"
    BY <1>1, InsertEffect DEF RowInv
<1>2. CASE Rotates(p)
    BY <1>2, RotateEffect DEF RowInv
<1>3. ASSUME NEW K \in SUBSET Sids, Revokes(p, K) PROVE FALSE
    BY <1>3, RevokeEffect DEF RowInv
<1>. QED BY <1>1, <1>2, <1>3, RowCases DEF RowInv

(* The families a process has listed are of logins that were made.           *)
LEMMA ListedHaveRoots ==
    ASSUME RowInv, NEW p \in Procs, NEW f \in FamiliesOf(list[p])
    PROVE  f \in Families /\ status[<<f, 1>>] # "none"
<1>1. PICK t \in list[p] : f = t[1]
    BY DEF FamiliesOf
<1>2. t \in Sids /\ status[t] # "none"
    BY StatusKinds DEF RowInv, RowsLocked
<1>3. Root(t) = <<f, 1>>
    BY <1>1 DEF Root
<1>. QED BY <1>1, <1>2, <1>3, SidFacts DEF RowInv, RootsComeFirst

(* The actions that take a sweep further.                                    *)
LEMMA SweepSteps ==
    ASSUME RowInv, NEW p \in Procs, RequestStep(p), op'[p] \in LockedSweeps
    PROVE  \/ RotateReuse(p) \/ Deactivate(p) \/ PerformReset(p)
           \/ op'[p] = op[p] /\ (ListAll(p) \/ UpdateRows(p) \/ (Forget(p) /\ op[p] \in Atomic))
<1>. USE DEF RowInv, TypeOK, Begin, LockedSweeps
<1>1. CASE Login(p) \/ EnforceCap(p)
    BY <1>1 DEF Login, EnforceCap, Done, RequestsConsistent
<1>2. CASE \E f \in Families : Insert(p, f)
    BY <1>2 DEF Insert, RequestsConsistent
<1>3. CASE \E s \in Sids : Present(p, s) \/ Logout(p, s) \/ RevokeOthers(p, s)
    BY <1>3 DEF Present, Logout, RevokeOthers
<1>4. CASE RotateNothing(p) \/ Abort(p) \/ Commit(p)
    BY <1>4 DEF RotateNothing, Abort, Commit, Done
<1>5. CASE RotateLapsed(p) \/ RotateRow(p) \/ RevokeSessions(p)
    BY <1>5 DEF RotateLapsed, RotateRow, RevokeSessions
<1>6. CASE ListAll(p) \/ UpdateRows(p)
    <2>1. op' = op
        BY <1>6 DEF ListAll, UpdateRows
    <2>. QED BY <1>6, <2>1
<1>7. CASE Forget(p)
    BY <1>7 DEF Forget, Done
<1>. QED BY <1>1, <1>2, <1>3, <1>4, <1>5, <1>6, <1>7 DEF RequestStep

(* A sweep that holds the user's row still sees every live row of the        *)
(* families it listed: no rotation can add one, and a login adds a family.   *)
LEMMA SweepsInductive ==
    ASSUME RowInv, SweepsSeeFamilies, [Next]_vars
    PROVE  SweepsSeeFamilies'
<1>1. CASE UNCHANGED <<status, issued, request>>
    BY <1>1 DEF SweepsSeeFamilies, Live
<1>2. ASSUME NEW p \in Procs, RequestStep(p), NEW q \in Procs, op'[q] \in LockedSweeps,
             NEW s \in Live', s[1] \in FamiliesOf(list'[q])
      PROVE  /\ pc'[q] = "update" => s \in list'[q]
             /\ pc'[q] \in {"forget", "commit"} => s \in kills'[q]
    <2>1. s \in Sids /\ status'[s] = "live"
        BY DEF Live
    <2>2. CASE q # p
        <3>1. /\ op'[q] = op[q] /\ pc'[q] = pc[q] /\ list'[q] = list[q] /\ kills'[q] = kills[q]
            BY <1>2, <2>2, OthersKeep DEF RowInv
        <3>2. status[<<s[1], 1>>] # "none"
            BY <1>2, <3>1, ListedHaveRoots
        <3>3. ~Rotates(p)
            BY <1>2, <2>2, <3>1 DEF RowInv, LocksExclusive, Rotates, UserLocked
        <3>4. status[s] = "live"
            BY <1>2, <2>1, <3>2, <3>3, NewLive
        <3>. QED BY <1>2, <2>1, <3>1, <3>4, StatusKinds DEF SweepsSeeFamilies
    <2>3. CASE q = p
        <3>1. CASE RotateReuse(p)
            <4>1. sid[p] \in Sids
                BY <3>1 DEF RotateReuse, Deciding, RowInv, RequestsConsistent, Rotations
            <4>2. /\ list'[p] = {t \in Issued : t[1] = sid[p][1]}
                  /\ pc'[p] = "update" /\ status' = status
                BY <3>1 DEF RotateReuse, RowInv, TypeOK
            <4>3. s[1] = sid[p][1] /\ s \in Issued
                BY <1>2, <2>1, <2>3, <4>2, StatusKinds DEF FamiliesOf
            <4>. QED BY <2>3, <4>2, <4>3
        <3>2. CASE Deactivate(p) \/ PerformReset(p)
            BY <2>3, <3>2 DEF Deactivate, PerformReset, Begin, RowInv, TypeOK
        <3>3. CASE ListAll(p)
            BY <2>1, <2>3, <3>3, StatusKinds DEF ListAll, RowInv, TypeOK
        <3>4. CASE UpdateRows(p) /\ op[p] \in LockedSweeps
            <4>1. /\ pc[p] = "update" /\ pc'[p] = "forget" /\ list'[p] = list[p]
                  /\ status' = status /\ kills'[p] = list[p] \cap Live
                BY <3>4 DEF UpdateRows, Targets, Atomic, RowInv, TypeOK
            <4>2. s \in Live
                BY <2>1, <4>1, StatusKinds
            <4>. QED BY <1>2, <2>3, <3>4, <4>1, <4>2 DEF SweepsSeeFamilies
        <3>5. CASE Forget(p) /\ op[p] \in LockedSweeps
            <4>1. /\ pc[p] = "forget" /\ pc'[p] = "commit" /\ list'[p] = list[p]
                  /\ status' = status /\ kills'[p] = kills[p]
                BY <3>5 DEF Forget, Atomic, RowInv, TypeOK
            <4>2. s \in Live
                BY <2>1, <4>1, StatusKinds
            <4>. QED BY <1>2, <2>3, <3>5, <4>1, <4>2 DEF SweepsSeeFamilies
        <3>. QED BY <1>2, <2>3, <3>1, <3>2, <3>3, <3>4, <3>5, SweepSteps
    <2>. QED BY <2>2, <2>3
<1>3. ASSUME NEW p \in Procs, RequestStep(p) PROVE SweepsSeeFamilies'
    BY <1>2, <1>3 DEF SweepsSeeFamilies
<1>. QED BY <1>1, <1>3, RequestCases

(* A family is closed by the commit of such a sweep.                         *)
LEMMA ClosedGrows ==
    ASSUME RowInv, NEW p \in Procs, RequestStep(p), NEW f \in closed', f \notin closed
    PROVE  /\ Commit(p) /\ op[p] \in LockedSweeps /\ f \in FamiliesOf(list[p])
           /\ pc[p] = "commit" /\ status' = Revoked(kills[p])
<1>1. CASE Commit(p)
    BY <1>1 DEF Commit, Recorded, LockedSweeps
<1>2. CASE Forget(p)
    BY <1>2 DEF Forget, Recorded, Atomic
<1>3. CASE Login(p) \/ EnforceCap(p) \/ \E g \in Families : Insert(p, g)
    BY <1>3 DEF Login, EnforceCap, Insert
<1>4. CASE \E s \in Sids : Present(p, s) \/ Logout(p, s) \/ RevokeOthers(p, s)
    BY <1>4 DEF Present, Logout, RevokeOthers
<1>5. CASE RotateNothing(p) \/ RotateReuse(p) \/ RotateLapsed(p) \/ RotateRow(p) \/ Abort(p)
    BY <1>5 DEF RotateNothing, RotateReuse, RotateLapsed, RotateRow, Abort
<1>6. CASE RevokeSessions(p) \/ Deactivate(p) \/ PerformReset(p) \/ ListAll(p) \/ UpdateRows(p)
    BY <1>6 DEF RevokeSessions, Deactivate, PerformReset, ListAll, UpdateRows
<1>. QED BY <1>1, <1>2, <1>3, <1>4, <1>5, <1>6 DEF RequestStep

LEMMA ClosedCases ==
    ASSUME [Next]_vars
    PROVE  (UNCHANGED <<status, issued, request, closed, changed>>) \/ \E p \in Procs : RequestStep(p)
BY NextCases DEF vars, Fill, ReadRow, CacheExpires, Activate

(* A closed family has its first row and no live one.                        *)
LEMMA ClosedInductive ==
    ASSUME RowInv, SweepsSeeFamilies, ClosedHaveRoots, ClosedFamiliesStayClosed, [Next]_vars
    PROVE  ClosedHaveRoots' /\ ClosedFamiliesStayClosed'
<1>1. CASE UNCHANGED <<status, issued, request, closed, changed>>
    BY <1>1 DEF ClosedHaveRoots, ClosedFamiliesStayClosed
<1>2. ASSUME NEW p \in Procs, RequestStep(p) PROVE ClosedHaveRoots' /\ ClosedFamiliesStayClosed'
    <2>1. ASSUME NEW f \in closed' PROVE f \in Families /\ status[<<f, 1>>] # "none"
        BY <1>2, ClosedGrows, ListedHaveRoots DEF ClosedHaveRoots, RowInv, TypeOK
    <2>2. ClosedHaveRoots'
        <3>1. \A f \in Families : <<f, 1>> \in Sids
            BY DEF Sids
        <3>. QED BY <2>1, <3>1, RowsKeep DEF ClosedHaveRoots, RowInv
    <2>3. ASSUME NEW s \in Sids, s[1] \in closed', status'[s] = "live" PROVE FALSE
        <3>1. CASE s[1] \in closed
            <4>1. status[s] # "live"
                BY <3>1 DEF ClosedFamiliesStayClosed
            <4>2. ASSUME NEW f \in Families, s = <<f, 1>>, status[s] = "none" PROVE FALSE
                BY <2>1, <2>3, <4>2
            <4>3. CASE Rotates(p) /\ s = Successor(sid[p])
                <5>1. sid[p] \in Sids /\ status[sid[p]] = "live" /\ sid[p][1] = s[1]
                    BY <4>3, RotateEffect, SuccessorFacts DEF RowInv
                <5>. QED BY <3>1, <5>1 DEF ClosedFamiliesStayClosed
            <4>. QED BY <1>2, <2>3, <4>1, <4>2, <4>3, NewLive
        <3>2. CASE s[1] \notin closed
            <4>1. /\ op[p] \in LockedSweeps /\ s[1] \in FamiliesOf(list[p])
                  /\ pc[p] = "commit" /\ status' = Revoked(kills[p])
                BY <1>2, <2>3, <3>2, ClosedGrows
            <4>2. s \in Live /\ s \notin kills[p]
                BY <2>3, <4>1, StatusKinds DEF Revoked
            <4>. QED BY <4>1, <4>2 DEF SweepsSeeFamilies
        <3>. QED BY <3>1, <3>2
    <2>. QED BY <2>2, <2>3 DEF ClosedFamiliesStayClosed
<1>. QED BY <1>1, <1>2, ClosedCases

-----------------------------------------------------------------------------
(* The password change *)

(* A sweep of a password change sees every live row: it keeps rotations and  *)
(* logins out.                                                               *)
LEMMA PasswordSweepsInductive ==
    ASSUME RowInv, PasswordSweepsSeeAll, [Next]_vars
    PROVE  PasswordSweepsSeeAll'
<1>1. CASE UNCHANGED <<status, issued, request>>
    BY <1>1 DEF PasswordSweepsSeeAll, Live
<1>2. ASSUME NEW p \in Procs, RequestStep(p), NEW q \in Procs, op'[q] = "password",
             NEW s \in Live'
      PROVE  /\ pc'[q] = "update" => s \in list'[q]
             /\ pc'[q] \in {"forget", "commit"} => s \in kills'[q]
    <2>1. s \in Sids /\ status'[s] = "live"
        BY DEF Live
    <2>2. CASE q # p
        <3>1. /\ op'[q] = op[q] /\ pc'[q] = pc[q] /\ list'[q] = list[q] /\ kills'[q] = kills[q]
            BY <1>2, <2>2, OthersKeep DEF RowInv
        <3>2. \A f \in Families : ~Insert(p, f)
            BY <1>2, <3>1 DEF Insert, ForUpdate, UserLocked, LockedSweeps
        <3>3. ~Rotates(p)
            BY <1>2, <2>2, <3>1 DEF RowInv, LocksExclusive, Rotates, UserLocked, LockedSweeps
        <3>4. s \in Live
            BY <1>2, <2>1, <3>2, <3>3, NewLive, StatusKinds
        <3>. QED BY <1>2, <3>1, <3>4 DEF PasswordSweepsSeeAll
    <2>3. CASE q = p
        <3>1. op'[p] \in LockedSweeps
            BY <1>2, <2>3 DEF LockedSweeps
        <3>2. CASE RotateReuse(p) \/ Deactivate(p) \/ PerformReset(p)
            BY <1>2, <2>3, <3>2 DEF RotateReuse, Deactivate, PerformReset, Begin, RowInv, TypeOK
        <3>3. CASE ListAll(p)
            BY <2>1, <2>3, <3>3, StatusKinds DEF ListAll, RowInv, TypeOK
        <3>4. CASE UpdateRows(p) /\ op'[p] = op[p]
            <4>1. /\ pc[p] = "update" /\ pc'[p] = "forget" /\ status' = status
                  /\ kills'[p] = list[p] \cap Live
                BY <1>2, <2>3, <3>4 DEF UpdateRows, Targets, Atomic, LockedSweeps, RowInv, TypeOK
            <4>2. s \in Live
                BY <2>1, <4>1, StatusKinds
            <4>. QED BY <1>2, <2>3, <3>4, <4>1, <4>2 DEF PasswordSweepsSeeAll
        <3>5. CASE Forget(p) /\ op[p] \in Atomic /\ op'[p] = op[p]
            <4>1. /\ pc[p] = "forget" /\ pc'[p] = "commit" /\ status' = status /\ kills'[p] = kills[p]
                BY <3>5 DEF Forget, RowInv, TypeOK
            <4>2. s \in Live
                BY <2>1, <4>1, StatusKinds
            <4>. QED BY <1>2, <2>3, <3>5, <4>1, <4>2 DEF PasswordSweepsSeeAll
        <3>. QED BY <1>2, <3>1, <3>2, <3>3, <3>4, <3>5, SweepSteps
    <2>. QED BY <2>2, <2>3
<1>3. ASSUME NEW p \in Procs, RequestStep(p) PROVE PasswordSweepsSeeAll'
    BY <1>2, <1>3 DEF PasswordSweepsSeeAll
<1>. QED BY <1>1, <1>3, RequestCases

(* The moment of a password change is written by its commit.                 *)
LEMMA ChangedBy ==
    ASSUME RowInv, NEW p \in Procs, RequestStep(p)
    PROVE  \/ changed' = changed
           \/ /\ op[p] = "password" /\ pc[p] = "commit"
              /\ status' = Revoked(kills[p]) /\ issued' = issued
<1>1. CASE Commit(p)
    BY <1>1 DEF Commit
<1>2. CASE Forget(p) \/ UpdateRows(p) \/ Abort(p)
    BY <1>2 DEF Forget, UpdateRows, Abort
<1>3. CASE Login(p) \/ EnforceCap(p) \/ \E f \in Families : Insert(p, f)
    BY <1>3 DEF Login, EnforceCap, Insert
<1>4. CASE \E s \in Sids : Present(p, s) \/ Logout(p, s) \/ RevokeOthers(p, s)
    BY <1>4 DEF Present, Logout, RevokeOthers
<1>5. CASE RotateNothing(p) \/ RotateReuse(p) \/ RotateLapsed(p) \/ RotateRow(p)
    BY <1>5 DEF RotateNothing, RotateReuse, RotateLapsed, RotateRow
<1>6. CASE RevokeSessions(p) \/ Deactivate(p) \/ PerformReset(p) \/ ListAll(p)
    BY <1>6 DEF RevokeSessions, Deactivate, PerformReset, ListAll
<1>. QED BY <1>1, <1>2, <1>3, <1>4, <1>5, <1>6 DEF RequestStep

(* A row keeps the moment it was issued at.                                  *)
LEMMA IssuedKeeps ==
    ASSUME RowInv, NEW p \in Procs, RequestStep(p), NEW s \in Sids, status[s] # "none"
    PROVE  issued'[s] = issued[s]
<1>1. ASSUME NEW f \in Families, Insert(p, f) PROVE issued'[s] = issued[s]
    BY <1>1, InsertEffect DEF RowInv
<1>2. CASE Rotates(p)
    BY <1>2, RotateEffect DEF RowInv
<1>3. ASSUME NEW K \in SUBSET Sids, Revokes(p, K) PROVE issued'[s] = issued[s]
    BY <1>3 DEF Revokes
<1>. QED BY <1>1, <1>2, <1>3, RowCases DEF RowInv

(* The action that starts a rotation, or takes it further.                   *)
LEMMA RotationSteps ==
    ASSUME RowInv, NEW p \in Procs, RequestStep(p), op'[p] = "successor"
    PROVE  sid'[p] = sid[p] /\ (op[p] = "successor" \/ RotateRow(p))
<1>. USE DEF RowInv, TypeOK, Begin
<1>1. CASE Login(p) \/ EnforceCap(p)
    BY <1>1 DEF Login, EnforceCap, Done
<1>2. CASE \E f \in Families : Insert(p, f)
    BY <1>2 DEF Insert
<1>3. CASE \E s \in Sids : Present(p, s) \/ Logout(p, s) \/ RevokeOthers(p, s)
    BY <1>3 DEF Present, Logout, RevokeOthers
<1>4. CASE RotateNothing(p) \/ Abort(p) \/ Commit(p)
    BY <1>4 DEF RotateNothing, Abort, Commit, Done
<1>5. CASE RotateLapsed(p) \/ RotateReuse(p) \/ RevokeSessions(p) \/ Deactivate(p) \/ PerformReset(p)
    BY <1>5 DEF RotateLapsed, RotateReuse, RevokeSessions, Deactivate, PerformReset
<1>6. CASE ListAll(p) \/ UpdateRows(p)
    BY <1>6 DEF ListAll, UpdateRows
<1>7. CASE Forget(p)
    BY <1>7 DEF Forget, Done
<1>8. CASE RotateRow(p)
    <2>1. sid' = sid
        BY <1>8 DEF RotateRow
    <2>. QED BY <1>8, <2>1
<1>. QED BY <1>1, <1>2, <1>3, <1>4, <1>5, <1>6, <1>7, <1>8 DEF RequestStep

(* A rotation in flight is of a login made since the last password change.   *)
LEMMA RecentInductive ==
    ASSUME RowInv, RotationsAreRecent, PasswordChangeEndsLogins, [Next]_vars
    PROVE  RotationsAreRecent'
<1>1. CASE UNCHANGED <<status, issued, request, closed, changed>>
    BY <1>1 DEF RotationsAreRecent
<1>2. ASSUME NEW p \in Procs, RequestStep(p), NEW q \in Procs, op'[q] = "successor"
      PROVE  issued'[Root(sid'[q])] >= changed'
    <2>1. CASE op[q] = "successor" /\ sid'[q] = sid[q]
        <3>1. sid[q] \in Sids /\ status[sid[q]] = "live"
            BY <2>1, StatusKinds DEF RowInv, RowsLocked
        <3>2. Root(sid[q]) \in Sids /\ status[Root(sid[q])] # "none"
            BY <3>1, SidFacts DEF RowInv, RootsComeFirst
        <3>3. changed' = changed
            BY <1>2, <2>1, ChangedBy DEF RowInv, LocksExclusive, UserLocked, LockedSweeps
        <3>. QED BY <1>2, <2>1, <3>2, <3>3, IssuedKeeps DEF RotationsAreRecent
    <2>2. CASE q = p /\ RotateRow(p)
        <3>1. /\ sid[p] \in Sids /\ status[sid[p]] = "live" /\ issued[sid[p]] >= changed
              /\ UNCHANGED <<issued, changed, sid>>
            BY <2>2 DEF RotateRow, Deciding, MayRotate, RowInv, RequestsConsistent, Rotations
        <3>2. issued[Root(sid[p])] \in Nat /\ issued[sid[p]] \in Nat /\ changed \in Nat
            BY <3>1, SidFacts DEF RowInv, TypeOK
        <3>3. ~(issued[Root(sid[p])] < changed)
            BY <3>1, <3>2 DEF PasswordChangeEndsLogins, Root
        <3>. QED BY <2>2, <3>1, <3>2, <3>3
    <2>. QED BY <1>2, <2>1, <2>2, OthersKeep, RotationSteps DEF RowInv
<1>. QED BY <1>1, <1>2, ClosedCases DEF RotationsAreRecent

(* No live row is newer than the password of a login that is older.          *)
LEMMA PasswordInductive ==
    ASSUME RowInv, PasswordSweepsSeeAll, RotationsAreRecent, PasswordChangeEndsLogins, [Next]_vars
    PROVE  PasswordChangeEndsLogins'
<1>1. CASE UNCHANGED <<status, issued, request, closed, changed>>
    BY <1>1 DEF PasswordChangeEndsLogins
<1>2. ASSUME NEW p \in Procs, RequestStep(p), NEW s \in Sids,
             issued'[Root(s)] < changed', status'[s] = "live"
      PROVE  issued'[s] < changed'
    <2>1. CASE changed' # changed
        <3>1. Live \subseteq kills[p] /\ status' = Revoked(kills[p])
            BY <1>2, <2>1, ChangedBy DEF PasswordSweepsSeeAll
        <3>. QED BY <1>2, <3>1, StatusKinds DEF Revoked
    <2>2. CASE changed' = changed /\ status[s] = "live"
        <3>1. Root(s) \in Sids /\ status[Root(s)] # "none"
            BY <2>2, SidFacts DEF RowInv, RootsComeFirst
        <3>2. issued'[Root(s)] = issued[Root(s)] /\ issued'[s] = issued[s]
            BY <1>2, <2>2, <3>1, IssuedKeeps
        <3>. QED BY <1>2, <2>2, <3>2 DEF PasswordChangeEndsLogins, Root
    <2>3. CASE changed' = changed /\ status[s] # "live"
        <3>1. ASSUME NEW f \in Families, s = <<f, 1>> PROVE Root(s) = s
            BY <3>1 DEF Root
        <3>2. CASE Rotates(p) /\ s = Successor(sid[p])
            <4>1. /\ sid[p] \in Sids /\ Root(s) = Root(sid[p]) /\ op[p] = "successor"
                  /\ status[sid[p]] = "live"
                <5>1. sid[p] \in Sids /\ sid[p][2] < MaxGen /\ status[sid[p]] = "live"
                    BY <3>2, RotateEffect DEF RowInv
                <5>2. op[p] = "successor"
                    BY <3>2 DEF Rotates
                <5>. QED BY <3>2, <5>1, <5>2, SuccessorFacts
            <4>2. issued'[Root(s)] = issued[Root(s)] /\ issued[Root(s)] \in Nat /\ changed \in Nat
                BY <1>2, <4>1, IssuedKeeps, SidFacts DEF RowInv, RootsComeFirst, TypeOK
            <4>. QED BY <1>2, <2>3, <4>1, <4>2 DEF RotationsAreRecent
        <3>. QED BY <1>2, <2>3, <3>1, <3>2, NewLive
    <2>. QED BY <2>1, <2>2, <2>3
<1>. QED BY <1>1, <1>2, ClosedCases DEF PasswordChangeEndsLogins, Root

-----------------------------------------------------------------------------
(* Theorems *)

(* The inductive invariant holds at first ...                                *)
LEMMA InitHolds ==
    ASSUME Init
    PROVE  IInv
<1>1. TypeOK
    BY DEF Init, TypeOK, Statuses, Ops, Phases
<1>2. RequestsConsistent /\ LocksExclusive /\ RowsLocked
    BY DEF Init, RequestsConsistent, LocksExclusive, RowsLocked, Holds, Rotations, UserLocked, LockedSweeps
<1>3. ChainHasOneTip /\ RootsComeFirst
    BY SuccessorFacts, SidFacts DEF Init, ChainHasOneTip, RootsComeFirst
<1>4. SweepsSeeFamilies /\ ClosedHaveRoots /\ ClosedFamiliesStayClosed
    BY DEF Init, SweepsSeeFamilies, ClosedHaveRoots, ClosedFamiliesStayClosed, LockedSweeps
<1>5. PasswordSweepsSeeAll /\ RotationsAreRecent /\ PasswordChangeEndsLogins
    BY DEF Init, PasswordSweepsSeeAll, RotationsAreRecent, PasswordChangeEndsLogins
<1>. QED BY <1>1, <1>2, <1>3, <1>4, <1>5 DEF IInv

(* ... and after every step.                                                 *)
LEMMA StepHolds ==
    ASSUME IInv, [Next]_vars
    PROVE  IInv'
<1>1. RowInv
    BY DEF IInv, RowInv
<1>2. RowInv'
    BY <1>1, RowInvInductive
<1>. QED BY <1>1, <1>2, SweepsInductive, ClosedInductive, PasswordSweepsInductive,
            RecentInductive, PasswordInductive DEF IInv, RowInv

(* The inductive invariant holds of every state of users/tokens.py, however  *)
(* logins, refreshes and revocations interleave or are rolled back.          *)
THEOREM Inductive == Spec => []IInv
<1>1. Init => IInv
    BY InitHolds
<1>2. IInv /\ [Next]_vars => IInv'
    BY StepHolds
<1>. QED BY <1>1, <1>2, PTL DEF Spec

(* Every variable keeps its type.                                            *)
THEOREM TypeCorrect == Spec => []TypeOK
<1>1. IInv => TypeOK
    BY DEF IInv
<1>. QED BY <1>1, Inductive, PTL

(* Rotation leaves a family one working end: rotate() never gives a token    *)
(* two successors, and tabs that refresh at once converge.                   *)
THEOREM OneTip == Spec => []ChainHasOneTip
<1>1. IInv => ChainHasOneTip
    BY DEF IInv
<1>. QED BY <1>1, Inductive, PTL

(* What reuse detection, deactivation or a password change ended stays       *)
(* ended: no refresh in flight revives it.                                   *)
THEOREM SweepsAreFinal == Spec => []ClosedFamiliesStayClosed
<1>1. IInv => ClosedFamiliesStayClosed
    BY DEF IInv
<1>. QED BY <1>1, Inductive, PTL

(* perform_reset() leaves no usable session of an earlier login.             *)
THEOREM PasswordEndsSessions == Spec => []PasswordChangeEndsLogins
<1>1. IInv => PasswordChangeEndsLogins
    BY DEF IInv
<1>. QED BY <1>1, Inductive, PTL

(* No step of any process brings a rotated or revoked row back.              *)
THEOREM Finality == Spec => RevocationIsFinal
<1>1. IInv /\ [Next]_vars =>
          [\A s \in Sids : status[s] \in {"rotated", "revoked"} => status'[s] = status[s]]_vars
    BY RowsKeep DEF IInv
<1>. QED BY <1>1, Inductive, PTL DEF Spec, RevocationIsFinal
=============================================================================
