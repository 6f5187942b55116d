---------------------------- MODULE SignInProofs ----------------------------
(* The inductive invariant of the second step of a login, and the properties *)
(* that follow from it, for any processes, tokens, devices, steps and        *)
(* threshold.                                                                *)
EXTENDS SignInProperties, FiniteSetTheorems, TLAPS

USE BoundsAssumption, NoneAssumption, ProcsAssumption DEF enrolment, tokens, request, history

(* The kinds of step.                                                        *)
LEMMA NextCases ==
    ASSUME [Next]_vars
    PROVE  \/ UNCHANGED vars
           \/ \E p \in Procs : ProcStep(p)
           \/ NextStep \/ AgeOut
           \/ \E n \in Nonces : TokenExpires(n) \/ BurnExpires(n)
BY DEF Next

(* A TOTP code, a recovery code and a wrong code are told apart.             *)
LEMMA CodeKinds ==
    /\ \A c \in Totp : c \in Codes /\ c \notin Recovery /\ c # Wrong
                       /\ c.device \in Devices /\ c.step \in Steps
    /\ \A c \in Recovery : c \in Codes /\ c # Wrong /\ c.device \in Devices
    /\ Wrong \in Codes
BY DEF Codes, Totp, Recovery, Wrong

(* What verify_totp() asks of a code.                                        *)
LEMMA VerifiedIsTotp ==
    ASSUME NEW c, Verified(c)
    PROVE  c \in Totp /\ device[c.device] = "confirmed" /\ c.step > last[c.device]
BY DEF Verified

-----------------------------------------------------------------------------
(* Typing.                                                                   *)

(* A process goes to a place, alone.                                         *)
LEMMA GotoTyped ==
    ASSUME TypeOK, NEW p \in Procs, NEW place \in Places, Goto(p, place)
    PROVE  pc' \in [Procs -> Places] /\ pc'[p] = place /\ \A q \in Procs \ {p} : pc'[q] = pc[q]
BY DEF TypeOK, Goto

(* A process answers its request and forgets it, alone.                      *)
LEMMA DoneTyped ==
    ASSUME TypeOK, NEW p \in Procs, Done(p)
    PROVE  /\ pc' \in [Procs -> Places] /\ nonce' \in [Procs -> Nonces \cup {None}]
           /\ code' \in [Procs -> Codes]
           /\ pc'[p] = "idle" /\ nonce'[p] = None /\ code'[p] = Wrong
           /\ \A q \in Procs \ {p} : /\ pc'[q] = pc[q] /\ nonce'[q] = nonce[q]
                                     /\ code'[q] = code[q]
BY CodeKinds DEF TypeOK, Done, Goto, Places

(* Accepting a code keeps the count of accepted codes typed.                 *)
LEMMA AcceptTyped ==
    ASSUME TypeOK, NEW c \in Codes, Accept(c)
    PROVE  accepted' \in [Codes -> Nat]
BY DEF TypeOK, Accept

(* Every step keeps the types.                                               *)
LEMMA TypeInductive ==
    ASSUME TypeOK, RequestsConsistent, RowsLocked, [Next]_vars
    PROVE  TypeOK'
<1>1. CASE UNCHANGED vars
    BY <1>1 DEF vars, TypeOK
<1>2. ASSUME NEW p \in Procs, Login(p) \/ BadPassword(p) \/ NoSecondStep(p) PROVE TypeOK'
    BY <1>2, GotoTyped DEF Login, BadPassword, NoSecondStep, TypeOK, Places
<1>3. ASSUME NEW p \in Procs, Challenge(p) PROVE TypeOK'
    BY <1>3, DoneTyped DEF Challenge, TypeOK, RowsLocked
<1>4. ASSUME NEW p \in Procs, RecordFailure(p) \/ RecordSuccess(p) PROVE TypeOK'
    BY <1>4, DoneTyped DEF RecordFailure, RecordSuccess, TypeOK, RowsLocked
<1>5. ASSUME NEW p \in Procs, ReadToken(p) PROVE TypeOK'
    BY <1>5, GotoTyped DEF ReadToken, TypeOK, Places
<1>6. ASSUME NEW p \in Procs, CheckLock(p) PROVE TypeOK'
    <2>1. CASE Done(p)
        BY <1>6, <2>1, DoneTyped DEF CheckLock, TypeOK, RowsLocked
    <2>2. CASE Goto(p, "totp") /\ UNCHANGED <<nonce, code>>
        BY <1>6, <2>2, GotoTyped DEF CheckLock, TypeOK, Places
    <2>. QED BY <1>6, <2>1, <2>2 DEF CheckLock
<1>7. ASSUME NEW p \in Procs, AcceptTotp(p) PROVE TypeOK'
    <2>1. code[p] \in Totp
        BY <1>7, VerifiedIsTotp DEF AcceptTotp
    <2>2. accepted' \in [Codes -> Nat]
        BY <1>7, <2>1, AcceptTyped, CodeKinds DEF AcceptTotp
    <2>3. last' \in [Devices -> {0} \cup Steps]
        BY <1>7, <2>1, CodeKinds DEF AcceptTotp, TypeOK
    <2>. QED BY <1>7, <2>2, <2>3, GotoTyped DEF AcceptTotp, TypeOK, Places
<1>8. ASSUME NEW p \in Procs, RefuseTotp(p) \/ RefuseCode(p) PROVE TypeOK'
    BY <1>8, GotoTyped DEF RefuseTotp, RefuseCode, TypeOK, Places
<1>9. ASSUME NEW p \in Procs, AcceptRecoveryCode(p) PROVE TypeOK'
    <2>1. accepted' \in [Codes -> Nat]
        BY <1>9, AcceptTyped DEF AcceptRecoveryCode, TypeOK
    <2>2. recovery' \subseteq Recovery
        BY <1>9 DEF AcceptRecoveryCode, Left, TypeOK
    <2>. QED BY <1>9, <2>1, <2>2, GotoTyped DEF AcceptRecoveryCode, TypeOK, Places
<1>10. ASSUME NEW p \in Procs, BurnToken(p) PROVE TypeOK'
    <2>1. burned' \subseteq Nonces
        BY <1>10 DEF BurnToken, TypeOK, RequestsConsistent
    <2>2. CASE Done(p)
        BY <1>10, <2>1, <2>2, DoneTyped DEF BurnToken, TypeOK, RowsLocked
    <2>3. CASE Goto(p, "issue") /\ UNCHANGED <<nonce, code>>
        BY <1>10, <2>1, <2>3, GotoTyped DEF BurnToken, TypeOK, Places
    <2>. QED BY <1>10, <2>2, <2>3 DEF BurnToken
<1>11. ASSUME NEW p \in Procs, IssuePair(p) PROVE TypeOK'
    <2>1. opened' \in [Nonces -> Nat]
        BY <1>11 DEF IssuePair, TypeOK
    <2>. QED BY <1>11, <2>1, GotoTyped DEF IssuePair, TypeOK, Places
<1>12. ASSUME NEW p \in Procs, BeginSetup(p) PROVE TypeOK'
    BY <1>12, GotoTyped DEF BeginSetup, TypeOK, Places
<1>13. ASSUME NEW p \in Procs, ReplacePending(p) \/ Disable(p) PROVE TypeOK'
    BY <1>13, GotoTyped DEF ReplacePending, Disable, In, TypeOK, Places
<1>14. ASSUME NEW p \in Procs, CreateDevice(p) PROVE TypeOK'
    <2>1. device' \in [Devices -> States]
        BY <1>14 DEF CreateDevice, TypeOK, States
    <2>. QED BY <1>14, <2>1, DoneTyped DEF CreateDevice, TypeOK, RowsLocked
<1>15. ASSUME NEW p \in Procs, ConfirmSetup(p) PROVE TypeOK'
    BY <1>15, GotoTyped DEF ConfirmSetup, In, TypeOK, Places
<1>16. ASSUME NEW p \in Procs, CommitConfirm(p) PROVE TypeOK'
    <2>1. PICK d \in doomed[p], s \in Steps :
              /\ device' = [device EXCEPT ![d] = "confirmed"]
              /\ last' = [last EXCEPT ![d] = s]
              /\ accepted' = [accepted EXCEPT
                                  ![[kind |-> "totp", device |-> d, step |-> s]] = @ + 1]
              /\ recovery' = (recovery \ claimed[p]) \cup FreshCodes(d)
        BY <1>16 DEF CommitConfirm
    <2>2. d \in Devices /\ [kind |-> "totp", device |-> d, step |-> s] \in Codes
        BY DEF TypeOK, Codes, Totp
    <2>3. /\ device' \in [Devices -> States] /\ last' \in [Devices -> {0} \cup Steps]
          /\ accepted' \in [Codes -> Nat]
        BY <2>1, <2>2 DEF TypeOK, States
    <2>4. recovery' \subseteq Recovery
        BY <2>1 DEF FreshCodes, TypeOK
    <2>. QED BY <1>16, <2>3, <2>4, DoneTyped DEF CommitConfirm, TypeOK
<1>17. ASSUME NEW p \in Procs, CommitDisable(p) PROVE TypeOK'
    <2>1. device' \in [Devices -> States] /\ recovery' \subseteq Recovery
        BY <1>17 DEF CommitDisable, Kept, TypeOK, States
    <2>. QED BY <1>17, <2>1, DoneTyped DEF CommitDisable, TypeOK, RowsLocked
<1>18. ASSUME NEW p \in Procs, Abort(p) PROVE TypeOK'
    BY <1>18, DoneTyped DEF Abort, TypeOK
<1>19. CASE NextStep \/ AgeOut
    BY <1>19 DEF NextStep, AgeOut, TypeOK, Steps
<1>20. ASSUME NEW n \in Nonces, TokenExpires(n) \/ BurnExpires(n) PROVE TypeOK'
    BY <1>20 DEF TokenExpires, BurnExpires, TypeOK
<1>. QED
    BY <1>1, <1>2, <1>3, <1>4, <1>5, <1>6, <1>7, <1>8, <1>9, <1>10, <1>11, <1>12, <1>13,
       <1>14, <1>15, <1>16, <1>17, <1>18, <1>19, <1>20, NextCases DEF ProcStep

-----------------------------------------------------------------------------
(* Requests and rows.                                                        *)

(* A process has a token in the code step only.                              *)
LEMMA RequestsInductive ==
    ASSUME TypeOK, RequestsConsistent, [Next]_vars
    PROVE  RequestsConsistent'
<1>. USE DEF RequestsConsistent, TypeOK
<1>1. CASE UNCHANGED vars
    BY <1>1 DEF vars
<1>2. ASSUME NEW p \in Procs, Done(p) PROVE RequestsConsistent'
    BY <1>2, DoneTyped
<1>3. ASSUME NEW p \in Procs,
             \/ Login(p) \/ BadPassword(p) \/ NoSecondStep(p) \/ BeginSetup(p)
             \/ ReplacePending(p) \/ ConfirmSetup(p) \/ Disable(p)
      PROVE  RequestsConsistent'
    BY <1>3 DEF Login, BadPassword, NoSecondStep, BeginSetup, ReplacePending, ConfirmSetup,
                Disable, Goto
<1>4. ASSUME NEW p \in Procs, ReadToken(p) PROVE RequestsConsistent'
    BY <1>4 DEF ReadToken, Goto
<1>5. ASSUME NEW p \in Procs, CheckLock(p) PROVE RequestsConsistent'
    BY <1>5, <1>2 DEF CheckLock, Goto
<1>6. ASSUME NEW p \in Procs,
             \/ AcceptTotp(p) \/ RefuseTotp(p) \/ AcceptRecoveryCode(p) \/ RefuseCode(p)
             \/ IssuePair(p)
      PROVE  RequestsConsistent'
    BY <1>6 DEF AcceptTotp, RefuseTotp, AcceptRecoveryCode, RefuseCode, IssuePair, Goto
<1>7. ASSUME NEW p \in Procs, BurnToken(p) PROVE RequestsConsistent'
    BY <1>7, <1>2 DEF BurnToken, Goto
<1>8. ASSUME NEW p \in Procs,
             \/ Challenge(p) \/ RecordFailure(p) \/ RecordSuccess(p) \/ CreateDevice(p)
             \/ CommitConfirm(p) \/ CommitDisable(p) \/ Abort(p)
      PROVE  RequestsConsistent'
    BY <1>8, <1>2 DEF Challenge, RecordFailure, RecordSuccess, CreateDevice, CommitConfirm,
                      CommitDisable, Abort
<1>9. CASE NextStep \/ AgeOut
    BY <1>9 DEF NextStep, AgeOut
<1>10. ASSUME NEW n \in Nonces, TokenExpires(n) \/ BurnExpires(n)
       PROVE  RequestsConsistent'
    BY <1>10 DEF TokenExpires, BurnExpires
<1>. QED
    BY <1>1, <1>3, <1>4, <1>5, <1>6, <1>7, <1>8, <1>9, <1>10, NextCases DEF ProcStep

(* A step of a process that is in no transaction before it.                  *)
LEMMA OutsideRows ==
    ASSUME TypeOK, RowsLocked, NEW p \in Procs, pc[p] \notin {"create", "confirm", "disable"},
           NEW place \in Places, Done(p) \/ Goto(p, place),
           UNCHANGED <<device, doomed, claimed>>
    PROVE  RowsLocked'
<1>1. \A q \in Procs \ {p} : pc'[q] = pc[q]
    BY DoneTyped, GotoTyped
<1>2. doomed[p] = {} /\ claimed[p] = {}
    BY DEF RowsLocked
<1>. QED BY <1>1, <1>2 DEF RowsLocked

(* A transaction locks rows that nobody has locked.                          *)
LEMMA LockRows ==
    ASSUME TypeOK, RowsLocked, NEW p \in Procs, pc[p] \notin {"create", "confirm", "disable"},
           NEW rows \in SUBSET (Devices \ LockedDevices(p)),
           doomed' = [doomed EXCEPT ![p] = rows],
           NEW place \in {"create", "confirm", "disable"}, Goto(p, place),
           \A d \in rows : device[d] = "pending" \/ (device[d] = "confirmed" /\ place = "disable"),
           device' = device,
           \/ claimed' = claimed
           \/ place = "confirm" /\ claimed' = [claimed EXCEPT ![p] = recovery]
    PROVE  RowsLocked'
<1>1. \A q \in Procs \ {p} : pc'[q] = pc[q] /\ doomed'[q] = doomed[q] /\ claimed'[q] = claimed[q]
    BY DEF TypeOK, Goto
<1>2. pc'[p] = place /\ doomed'[p] = rows
    BY DEF TypeOK, Goto
<1>3. claimed'[p] # {} => place = "confirm"
    BY DEF TypeOK, RowsLocked
<1>4. \A q \in Procs \ {p} : doomed[q] \cap rows = {}
    BY DEF LockedDevices
<1>. QED BY <1>1, <1>2, <1>3, <1>4 DEF RowsLocked

(* A transaction ends: only its own rows change.                             *)
LEMMA EndRows ==
    ASSUME TypeOK, RowsLocked, NEW p \in Procs, Done(p),
           doomed' = [doomed EXCEPT ![p] = {}], claimed'[p] = {},
           \A q \in Procs \ {p} : claimed'[q] = claimed[q],
           \A d \in Devices \ doomed[p] :
               device'[d] = device[d] \/ device[d] = "none"
    PROVE  RowsLocked'
<1>1. \A q \in Procs \ {p} : pc'[q] = pc[q] /\ doomed'[q] = doomed[q]
    BY DoneTyped DEF TypeOK
<1>2. doomed'[p] = {}
    BY DEF TypeOK
<1>3. \A q \in Procs \ {p} : \A d \in doomed[q] : device'[d] = device[d]
    BY DEF RowsLocked, TypeOK
<1>. QED BY <1>1, <1>2, <1>3 DEF RowsLocked

(* Rows under a transaction stay as it read them.                            *)
LEMMA RowsInductive ==
    ASSUME TypeOK, RowsLocked, [Next]_vars
    PROVE  RowsLocked'
<1>1. CASE UNCHANGED vars
    BY <1>1 DEF vars, RowsLocked
<1>2. ASSUME NEW p \in Procs,
             \/ Login(p) \/ BadPassword(p) \/ Challenge(p) \/ NoSecondStep(p)
             \/ RecordFailure(p) \/ RecordSuccess(p) \/ BeginSetup(p)
      PROVE  RowsLocked'
    BY <1>2, OutsideRows DEF Login, BadPassword, Challenge, NoSecondStep, RecordFailure,
                             RecordSuccess, BeginSetup, Places
<1>3. ASSUME NEW p \in Procs,
             \/ ReadToken(p) \/ CheckLock(p) \/ AcceptTotp(p) \/ RefuseTotp(p)
             \/ AcceptRecoveryCode(p) \/ RefuseCode(p) \/ BurnToken(p) \/ IssuePair(p)
      PROVE  RowsLocked'
    BY <1>3, OutsideRows DEF ReadToken, CheckLock, AcceptTotp, RefuseTotp,
                             AcceptRecoveryCode, RefuseCode, BurnToken, IssuePair, Places
<1>4. ASSUME NEW p \in Procs, ReplacePending(p) PROVE RowsLocked'
    <2>1. In("pending") \in SUBSET (Devices \ LockedDevices(p))
        BY <1>4 DEF ReplacePending, In
    <2>. QED BY <1>4, <2>1, LockRows DEF ReplacePending, In
<1>5. ASSUME NEW p \in Procs, ConfirmSetup(p) PROVE RowsLocked'
    <2>1. PICK d \in In("pending") \ LockedDevices(p) : doomed' = [doomed EXCEPT ![p] = {d}]
        BY <1>5 DEF ConfirmSetup
    <2>2. {d} \in SUBSET (Devices \ LockedDevices(p)) /\ device[d] = "pending"
        BY DEF In
    <2>3. /\ pc[p] = "idle" /\ Goto(p, "confirm") /\ device' = device
          /\ claimed' = [claimed EXCEPT ![p] = recovery]
        BY <1>5 DEF ConfirmSetup
    <2>. QED BY <2>1, <2>2, <2>3, LockRows
<1>6. ASSUME NEW p \in Procs, Disable(p) PROVE RowsLocked'
    <2>1. In("pending") \cup In("confirmed") \in SUBSET (Devices \ LockedDevices(p))
        BY <1>6 DEF Disable, In
    <2>. QED BY <1>6, <2>1, LockRows DEF Disable, In
<1>7. ASSUME NEW p \in Procs, CreateDevice(p) PROVE RowsLocked'
    <2>1. claimed[p] = {}
        BY <1>7 DEF CreateDevice, RowsLocked
    <2>2. \A d \in Devices \ doomed[p] : device'[d] = device[d] \/ device[d] = "none"
        BY <1>7 DEF CreateDevice, In
    <2>. QED BY <1>7, <2>1, <2>2, EndRows DEF CreateDevice
<1>8. ASSUME NEW p \in Procs, CommitConfirm(p) PROVE RowsLocked'
    <2>1. \A d \in Devices \ doomed[p] : device'[d] = device[d]
        BY <1>8 DEF CommitConfirm, TypeOK
    <2>2. claimed'[p] = {} /\ \A q \in Procs \ {p} : claimed'[q] = claimed[q]
        BY <1>8 DEF CommitConfirm, TypeOK
    <2>. QED BY <1>8, <2>1, <2>2, EndRows DEF CommitConfirm
<1>9. ASSUME NEW p \in Procs, CommitDisable(p) PROVE RowsLocked'
    <2>1. claimed[p] = {}
        BY <1>9 DEF CommitDisable, RowsLocked
    <2>2. \A d \in Devices \ doomed[p] : device'[d] = device[d]
        BY <1>9 DEF CommitDisable
    <2>. QED BY <1>9, <2>1, <2>2, EndRows DEF CommitDisable
<1>10. ASSUME NEW p \in Procs, Abort(p) PROVE RowsLocked'
    <2>1. claimed'[p] = {} /\ \A q \in Procs \ {p} : claimed'[q] = claimed[q]
        BY <1>10 DEF Abort, TypeOK
    <2>. QED BY <1>10, <2>1, EndRows DEF Abort
<1>11. CASE NextStep \/ AgeOut
    BY <1>11 DEF NextStep, AgeOut, RowsLocked
<1>12. ASSUME NEW n \in Nonces, TokenExpires(n) \/ BurnExpires(n) PROVE RowsLocked'
    BY <1>12 DEF TokenExpires, BurnExpires, RowsLocked
<1>. QED
    BY <1>1, <1>2, <1>3, <1>4, <1>5, <1>6, <1>7, <1>8, <1>9, <1>10, <1>11, <1>12, NextCases
    DEF ProcStep

-----------------------------------------------------------------------------
(* Codes.                                                                    *)
CodeInv == LastUsed /\ RecoverySpent /\ CodesNeedTheirDevice /\ CodeWorksOnce

(* The steps that touch what codes depend on.                                *)
LEMMA CodeSteps ==
    ASSUME [Next]_vars
    PROVE  \/ UNCHANGED <<device, last, recovery, accepted>>
           \/ \E p \in Procs : \/ AcceptTotp(p) \/ AcceptRecoveryCode(p) \/ CreateDevice(p)
                              \/ CommitConfirm(p) \/ CommitDisable(p)
<1>1. CASE UNCHANGED vars
    BY <1>1 DEF vars
<1>2. ASSUME NEW p \in Procs,
             \/ Login(p) \/ BadPassword(p) \/ Challenge(p) \/ NoSecondStep(p)
             \/ RecordFailure(p) \/ ReadToken(p) \/ CheckLock(p) \/ RefuseTotp(p)
             \/ RefuseCode(p) \/ BurnToken(p) \/ IssuePair(p) \/ RecordSuccess(p)
             \/ BeginSetup(p) \/ ReplacePending(p) \/ ConfirmSetup(p) \/ Disable(p) \/ Abort(p)
      PROVE  UNCHANGED <<device, last, recovery, accepted>>
    BY <1>2 DEF Login, BadPassword, Challenge, NoSecondStep, RecordFailure, ReadToken,
                CheckLock, RefuseTotp, RefuseCode, BurnToken, IssuePair, RecordSuccess,
                BeginSetup, ReplacePending, ConfirmSetup, Disable, Abort
<1>3. CASE NextStep \/ AgeOut
    BY <1>3 DEF NextStep, AgeOut
<1>4. ASSUME NEW n \in Nonces, TokenExpires(n) \/ BurnExpires(n)
      PROVE  UNCHANGED <<device, last, recovery, accepted>>
    BY <1>4 DEF TokenExpires, BurnExpires
<1>. QED
    BY <1>1, <1>2, <1>3, <1>4, NextCases DEF ProcStep

(* Accepting a code counts that code alone.                                  *)
LEMMA AcceptCounts ==
    ASSUME TypeOK, NEW c \in Codes, Accept(c)
    PROVE  /\ accepted'[c] = accepted[c] + 1 /\ accepted[c] \in Nat
           /\ \A e \in Codes \ {c} : accepted'[e] = accepted[e]
BY DEF TypeOK, Accept

(* What AcceptTotp and CommitConfirm have in common: a code of a step later  *)
(* than the device's last becomes the last, and counts.                      *)
LEMMA TotpCounts ==
    ASSUME TypeOK, LastUsed, CodeWorksOnce,
           NEW c \in Totp, c.step > last[c.device], Accept(c),
           last' = [last EXCEPT ![c.device] = c.step]
    PROVE  /\ \A e \in Totp : accepted'[e] > 0 => e.step <= last'[e.device]
           /\ CodeWorksOnce'
           /\ \A e \in Totp : e.device = c.device /\ e.step >= c.step => accepted[e] = 0
           /\ \A e \in Codes \ {c} : accepted'[e] = accepted[e]
<1>1. /\ c.device \in Devices /\ c.step \in Nat /\ last[c.device] \in Nat
      /\ \A e \in Totp : e \in Codes /\ e.device \in Devices /\ e.step \in Nat
    BY CodeKinds DEF TypeOK, Steps
<1>2. /\ accepted'[c] = accepted[c] + 1 /\ accepted[c] \in Nat
      /\ \A e \in Codes \ {c} : accepted'[e] = accepted[e]
    BY <1>1, AcceptCounts
<1>3. /\ last'[c.device] = c.step
      /\ \A d \in Devices \ {c.device} : last'[d] = last[d]
      /\ \A d \in Devices : last[d] \in Nat
    BY <1>1 DEF TypeOK, Steps
<1>4. \A e \in Totp : e.device = c.device /\ e.step >= c.step => accepted[e] = 0
    BY <1>1 DEF LastUsed, TypeOK
<1>5. accepted'[c] = 1
    BY <1>1, <1>2, <1>4
<1>6. ASSUME NEW e \in Totp, accepted'[e] > 0
      PROVE  e.step <= last'[e.device]
    <2>1. CASE e = c
        BY <2>1, <1>1, <1>3
    <2>2. CASE e # c
        <3>1. e.step <= last[e.device]
            BY <1>1, <1>2, <1>6, <2>2 DEF LastUsed
        <3>2. last[e.device] <= last'[e.device]
            BY <1>1, <1>3
        <3>. QED BY <3>1, <3>2, <1>1, <1>3
    <2>. QED BY <2>1, <2>2
<1>. QED
    BY <1>2, <1>4, <1>5, <1>6 DEF CodeWorksOnce

(* _accept_totp().                                                           *)
LEMMA AcceptTotpStep ==
    ASSUME TypeOK, CodeInv, NEW p \in Procs, AcceptTotp(p)
    PROVE  CodeInv'
<1>. DEFINE c == code[p]
<1>1. /\ c \in Totp /\ device[c.device] = "confirmed" /\ c.step > last[c.device]
      /\ Accept(c) /\ last' = [last EXCEPT ![c.device] = c.step]
      /\ UNCHANGED <<device, recovery>>
    BY VerifiedIsTotp DEF AcceptTotp
<1>. HIDE DEF c
<1>2. /\ \A e \in Totp : accepted'[e] > 0 => e.step <= last'[e.device]
      /\ CodeWorksOnce'
      /\ \A e \in Codes \ {c} : accepted'[e] = accepted[e]
    BY <1>1, TotpCounts DEF CodeInv
<1>3. \A d \in Devices : device[d] \in {"none", "pending"} => last'[d] = last[d]
    BY <1>1, CodeKinds DEF TypeOK
<1>4. LastUsed'
    BY <1>1, <1>2, <1>3 DEF CodeInv, LastUsed
<1>5. RecoverySpent'
    BY <1>1, <1>2, CodeKinds DEF CodeInv, RecoverySpent
<1>. QED BY <1>1, <1>2, <1>4, <1>5 DEF CodeInv, CodesNeedTheirDevice

(* _accept_recovery_code().                                                  *)
LEMMA AcceptRecoveryStep ==
    ASSUME TypeOK, CodeInv, NEW p \in Procs, AcceptRecoveryCode(p)
    PROVE  CodeInv'
<1>. DEFINE c == code[p]
<1>1. /\ c \in recovery /\ recovery' = recovery \ {c} /\ Accept(c)
      /\ UNCHANGED <<device, last>>
    BY DEF AcceptRecoveryCode, Left
<1>2. c \in Recovery /\ c \in Codes
    BY <1>1, CodeKinds DEF TypeOK
<1>. HIDE DEF c
<1>3. /\ accepted'[c] = accepted[c] + 1 /\ accepted[c] \in Nat
      /\ \A e \in Codes \ {c} : accepted'[e] = accepted[e]
    BY <1>1, <1>2, AcceptCounts
<1>4. accepted[c] = 0 /\ device[c.device] = "confirmed"
    BY <1>1, <1>2, <1>3 DEF CodeInv, RecoverySpent, CodesNeedTheirDevice
<1>5. LastUsed'
    BY <1>1, <1>2, <1>3, CodeKinds DEF CodeInv, LastUsed
<1>6. RecoverySpent'
    BY <1>1, <1>2, <1>3, <1>4, CodeKinds DEF CodeInv, RecoverySpent
<1>7. CodeWorksOnce'
    BY <1>3, <1>4 DEF CodeInv, CodeWorksOnce
<1>. QED BY <1>1, <1>5, <1>6, <1>7 DEF CodeInv, CodesNeedTheirDevice

(* A new device has no codes, and what it replaces had none.                 *)
LEMMA CreateDeviceStep ==
    ASSUME TypeOK, RowsLocked, CodeInv, NEW p \in Procs, CreateDevice(p)
    PROVE  CodeInv'
<1>1. PICK d \in In("none") :
          device' = [e \in Devices |-> IF e = d THEN "pending"
                                       ELSE IF e \in doomed[p] THEN "gone" ELSE device[e]]
    BY DEF CreateDevice
<1>2. \A e \in doomed[p] : device[e] = "pending"
    BY DEF CreateDevice, RowsLocked
<1>3. d \in Devices /\ device[d] = "none"
    BY DEF In
<1>4. \A e \in Devices :
          /\ device[e] \notin {"none", "pending"} => device'[e] = device[e]
          /\ device'[e] \in {"none", "pending"} => device[e] \in {"none", "pending"}
    BY <1>1, <1>2, <1>3
<1>5. UNCHANGED <<last, recovery, accepted>>
    BY DEF CreateDevice
<1>6. CodesNeedTheirDevice'
    BY <1>4, <1>5, CodeKinds DEF CodeInv, CodesNeedTheirDevice, TypeOK
<1>7. LastUsed'
    BY <1>4, <1>5 DEF CodeInv, LastUsed
<1>8. RecoverySpent'
    BY <1>4, <1>5, CodeKinds DEF CodeInv, RecoverySpent
<1>. QED BY <1>5, <1>6, <1>7, <1>8 DEF CodeInv, CodeWorksOnce

(* The device that is confirmed was pending: no code of it was ever used.    *)
LEMMA CommitConfirmStep ==
    ASSUME TypeOK, RowsLocked, CodeInv, NEW p \in Procs, CommitConfirm(p)
    PROVE  CodeInv'
<1>1. PICK d \in doomed[p], s \in Steps :
          /\ device' = [device EXCEPT ![d] = "confirmed"]
          /\ last' = [last EXCEPT ![d] = s]
          /\ accepted' = [accepted EXCEPT ![[kind |-> "totp", device |-> d, step |-> s]] = @ + 1]
          /\ recovery' = (recovery \ claimed[p]) \cup FreshCodes(d)
    BY DEF CommitConfirm
<1>. DEFINE c == [kind |-> "totp", device |-> d, step |-> s]
<1>2. d \in Devices /\ device[d] = "pending" /\ last[d] = 0 /\ s > 0
    BY DEF CommitConfirm, RowsLocked, TypeOK, CodeInv, LastUsed, Steps
<1>3. c \in Totp /\ c.device = d /\ c.step = s /\ Accept(c)
    BY <1>1, <1>2 DEF Totp, Accept
<1>. HIDE DEF c
<1>4. /\ \A e \in Totp : accepted'[e] > 0 => e.step <= last'[e.device]
      /\ CodeWorksOnce'
      /\ \A e \in Codes \ {c} : accepted'[e] = accepted[e]
    BY <1>1, <1>2, <1>3, TotpCounts DEF CodeInv
<1>5. /\ device'[d] = "confirmed" /\ \A e \in Devices \ {d} : device'[e] = device[e]
      /\ \A e \in Devices \ {d} : last'[e] = last[e]
    BY <1>1, <1>2 DEF TypeOK
<1>6. LastUsed'
    BY <1>4, <1>5 DEF CodeInv, LastUsed
<1>7. \A e \in Recovery : accepted'[e] = accepted[e] /\ e.device \in Devices
    BY <1>3, <1>4, CodeKinds
<1>8. RecoverySpent'
    BY <1>1, <1>2, <1>5, <1>7 DEF CodeInv, RecoverySpent, FreshCodes
<1>9. CodesNeedTheirDevice'
    BY <1>1, <1>5, CodeKinds DEF CodeInv, CodesNeedTheirDevice, FreshCodes, TypeOK
<1>. QED BY <1>4, <1>6, <1>8, <1>9 DEF CodeInv

(* disable() leaves no recovery code.                                        *)
LEMMA CommitDisableStep ==
    ASSUME TypeOK, CodeInv, NEW p \in Procs, CommitDisable(p)
    PROVE  CodeInv'
<1>1. recovery' = {} /\ UNCHANGED <<last, accepted>>
    BY DEF CommitDisable, Kept
<1>2. \A d \in Devices : device'[d] = device[d] \/ device'[d] = "gone"
    BY DEF CommitDisable
<1>3. LastUsed'
    BY <1>1, <1>2 DEF CodeInv, LastUsed
<1>4. RecoverySpent'
    BY <1>1, <1>2, CodeKinds DEF CodeInv, RecoverySpent
<1>. QED BY <1>1, <1>3, <1>4 DEF CodeInv, CodesNeedTheirDevice, CodeWorksOnce

(* Codes are good once under every step.                                     *)
LEMMA CodesInductive ==
    ASSUME TypeOK, RowsLocked, CodeInv, [Next]_vars
    PROVE  CodeInv'
<1>1. CASE UNCHANGED <<device, last, recovery, accepted>>
    BY <1>1 DEF CodeInv, LastUsed, RecoverySpent, CodesNeedTheirDevice, CodeWorksOnce
<1>. QED
    BY <1>1, CodeSteps, AcceptTotpStep, AcceptRecoveryStep, CreateDeviceStep,
       CommitConfirmStep, CommitDisableStep

-----------------------------------------------------------------------------
(* Tokens.                                                                   *)
TokenInv == BurnsBind /\ TokenOpensOneSession

(* A step of one process that neither reads a token nor opens a session, and *)
(* is not about to open one with a token unless it was before.               *)
LEMMA QuietToken ==
    ASSUME TypeOK, TokenInv, NEW p \in Procs,
           UNCHANGED <<issued, spent, burned, opened>>,
           \A q \in Procs \ {p} : pc'[q] = pc[q] /\ nonce'[q] = nonce[q],
           nonce'[p] \in {nonce[p], None},
           pc'[p] = "issue" => nonce'[p] = None
    PROVE  TokenInv'
<1>1. \A q \in Procs : \A n \in Nonces : nonce'[q] = n => nonce[q] = n
    OBVIOUS
<1>2. \A q \in Procs : pc'[q] = "issue" /\ nonce'[q] # None =>
          q # p /\ pc[q] = "issue" /\ nonce'[q] = nonce[q]
    OBVIOUS
<1>3. BurnsBind'
    BY <1>1, <1>2 DEF TokenInv, BurnsBind
<1>. QED BY <1>3 DEF TokenInv, TokenOpensOneSession

(* A request that ends opens nothing.                                        *)
LEMMA DoneToken ==
    ASSUME TypeOK, TokenInv, NEW p \in Procs, Done(p), UNCHANGED <<issued, spent, burned, opened>>
    PROVE  TokenInv'
BY QuietToken, DoneTyped

(* Nor does a move elsewhere.                                                *)
LEMMA GotoToken ==
    ASSUME TypeOK, TokenInv, NEW p \in Procs, NEW place \in Places, Goto(p, place),
           place = "issue" => nonce[p] = None,
           UNCHANGED <<issued, spent, burned, opened, nonce>>
    PROVE  TokenInv'
BY QuietToken, GotoTyped

(* A new token was never issued before.                                      *)
LEMMA ChallengeStep ==
    ASSUME TypeOK, TokenInv, NEW p \in Procs, Challenge(p)
    PROVE  TokenInv'
<1>1. PICK n \in Nonces \ (issued \cup spent) : issued' = issued \cup {n}
    BY DEF Challenge
<1>2. UNCHANGED <<spent, burned, opened>> /\ Done(p)
    BY DEF Challenge
<1>3. issued' \cap spent' = {}
    BY <1>1, <1>2 DEF TokenInv, BurnsBind
<1>4. \A q \in Procs : /\ pc'[q] = "issue" => pc[q] = "issue" /\ nonce'[q] = nonce[q]
                      /\ nonce'[q] \in {nonce[q], None}
    BY <1>2, DoneTyped
<1>5. BurnsBind'
    BY <1>2, <1>3, <1>4 DEF TokenInv, BurnsBind
<1>. QED BY <1>2, <1>5 DEF TokenInv, TokenOpensOneSession

(* A token that is read has opened nothing, or is burned.                    *)
LEMMA ReadTokenStep ==
    ASSUME TypeOK, TokenInv, NEW p \in Procs, ReadToken(p)
    PROVE  TokenInv'
<1>1. PICK n \in issued \ burned : nonce' = [nonce EXCEPT ![p] = n]
    BY DEF ReadToken
<1>2. UNCHANGED <<issued, spent, burned, opened>> /\ Goto(p, "locked")
    BY DEF ReadToken
<1>3. n \notin spent /\ n \in Nonces
    BY <1>1 DEF TokenInv, BurnsBind, TypeOK
<1>4. \A q \in Procs : pc'[q] = "issue" => q # p /\ pc[q] = "issue" /\ nonce'[q] = nonce[q]
    BY <1>1, <1>2, GotoTyped DEF Places, TypeOK
<1>5. \A q \in Procs : nonce'[q] \in {nonce[q], n}
    BY <1>1 DEF TypeOK
<1>6. BurnsBind'
    BY <1>2, <1>3, <1>4, <1>5 DEF TokenInv, BurnsBind
<1>. QED BY <1>2, <1>6 DEF TokenInv, TokenOpensOneSession

(* Of the processes that hold one token, one finds it unburned.              *)
LEMMA BurnTokenStep ==
    ASSUME TypeOK, RequestsConsistent, TokenInv, NEW p \in Procs, BurnToken(p)
    PROVE  TokenInv'
<1>. DEFINE n == nonce[p]
<1>1. /\ n \in Nonces /\ burned' = burned \cup {n} /\ UNCHANGED <<issued, spent, opened>>
    BY DEF BurnToken, RequestsConsistent
<1>2. CASE Done(p)
    <2>1. \A q \in Procs : /\ pc'[q] = "issue" => pc[q] = "issue" /\ nonce'[q] = nonce[q]
                          /\ nonce'[q] \in {nonce[q], None}
        BY <1>2, DoneTyped
    <2>2. BurnsBind'
        BY <1>1, <2>1 DEF TokenInv, BurnsBind
    <2>. QED BY <1>1, <2>2 DEF TokenInv, TokenOpensOneSession
<1>3. CASE n \notin burned /\ Goto(p, "issue") /\ UNCHANGED nonce
    <2>1. opened[n] = 0
        BY <1>1, <1>3 DEF TokenInv, BurnsBind, TypeOK
    <2>2. \A q \in Procs : ~(pc[q] = "issue" /\ nonce[q] = n)
        BY <1>1, <1>3 DEF TokenInv, BurnsBind
    <2>3. \A q \in Procs \ {p} : pc'[q] = pc[q] /\ nonce'[q] = nonce[q]
        BY <1>3, GotoTyped DEF Places
    <2>4. BurnsBind'
        BY <1>1, <1>3, <2>1, <2>2, <2>3 DEF TokenInv, BurnsBind
    <2>. QED BY <1>1, <2>4 DEF TokenInv, TokenOpensOneSession
<1>. QED BY <1>2, <1>3 DEF BurnToken, Burns

(* The one process that burned a token opens the one session.                *)
LEMMA IssuePairStep ==
    ASSUME TypeOK, TokenInv, NEW p \in Procs, IssuePair(p)
    PROVE  TokenInv'
<1>1. UNCHANGED <<issued, spent, burned, nonce>> /\ Goto(p, "record")
    BY DEF IssuePair
<1>2. \A q \in Procs : pc'[q] = "issue" => q # p /\ pc[q] = "issue"
    BY <1>1, GotoTyped DEF Places
<1>3. CASE nonce[p] = None
    BY <1>1, <1>3, GotoToken DEF IssuePair, Places
<1>4. CASE nonce[p] # None
    <2>. DEFINE n == nonce[p]
    <2>1. n \in Nonces /\ n \in burned /\ opened[n] = 0
        BY <1>4 DEF IssuePair, TokenInv, BurnsBind, TypeOK
    <2>2. opened'[n] = 1 /\ \A m \in Nonces \ {n} : opened'[m] = opened[m]
        BY <1>4, <2>1 DEF IssuePair, TypeOK
    <2>3. \A q \in Procs \ {p} : ~(pc[q] = "issue" /\ nonce[q] = n)
        BY <1>4 DEF IssuePair, TokenInv, BurnsBind
    <2>4. ASSUME NEW q \in Procs, pc'[q] = "issue", nonce'[q] # None
          PROVE  /\ nonce'[q] \in burned' /\ opened'[nonce'[q]] = 0
                 /\ \A r \in Procs \ {q} : ~(pc'[r] = "issue" /\ nonce'[r] = nonce'[q])
        <3>1. q # p /\ pc[q] = "issue" /\ nonce'[q] = nonce[q] /\ nonce[q] # n
            BY <1>1, <1>2, <2>3, <2>4
        <3>2. nonce[q] \in burned /\ opened[nonce[q]] = 0 /\ nonce[q] \in Nonces
            BY <2>4, <3>1 DEF TokenInv, BurnsBind, TypeOK
        <3>3. \A r \in Procs \ {q} : ~(pc[r] = "issue" /\ nonce[r] = nonce[q])
            BY <2>4, <3>1 DEF TokenInv, BurnsBind
        <3>. QED BY <1>1, <1>2, <2>2, <3>1, <3>2, <3>3
    <2>5. \A m \in Nonces : opened'[m] > 0 =>
              m \in burned' \/ (m \in spent' /\ \A q \in Procs : nonce'[q] # m)
        BY <1>1, <2>1, <2>2 DEF TokenInv, BurnsBind
    <2>6. BurnsBind'
        BY <1>1, <2>4, <2>5 DEF TokenInv, BurnsBind
    <2>. QED BY <2>2, <2>6 DEF TokenInv, TokenOpensOneSession
<1>. QED BY <1>3, <1>4

(* Tokens are good once under every step.                                    *)
LEMMA TokensInductive ==
    ASSUME TypeOK, RequestsConsistent, TokenInv, [Next]_vars
    PROVE  TokenInv'
<1>1. CASE UNCHANGED vars
    BY <1>1 DEF vars, TokenInv, BurnsBind, TokenOpensOneSession
<1>2. ASSUME NEW p \in Procs, Login(p) \/ BadPassword(p) \/ NoSecondStep(p) PROVE TokenInv'
    BY <1>2, GotoToken DEF Login, BadPassword, NoSecondStep, RequestsConsistent, Places
<1>3. ASSUME NEW p \in Procs, RefuseTotp(p) \/ AcceptTotp(p) \/ AcceptRecoveryCode(p)
                             \/ RefuseCode(p)
      PROVE  TokenInv'
    BY <1>3, GotoToken DEF RefuseTotp, AcceptTotp, AcceptRecoveryCode, RefuseCode, Places
<1>4. ASSUME NEW p \in Procs, BeginSetup(p) \/ ReplacePending(p) \/ ConfirmSetup(p) \/ Disable(p)
      PROVE  TokenInv'
    BY <1>4, GotoToken DEF BeginSetup, ReplacePending, ConfirmSetup, Disable, Places
<1>5. ASSUME NEW p \in Procs, RecordFailure(p) \/ RecordSuccess(p) \/ CreateDevice(p)
                             \/ CommitConfirm(p) \/ CommitDisable(p) \/ Abort(p)
      PROVE  TokenInv'
    BY <1>5, DoneToken DEF RecordFailure, RecordSuccess, CreateDevice, CommitConfirm,
                           CommitDisable, Abort
<1>6. ASSUME NEW p \in Procs, CheckLock(p) PROVE TokenInv'
    BY <1>6, DoneToken, GotoToken DEF CheckLock, Places
<1>7. CASE NextStep \/ AgeOut
    BY <1>7 DEF NextStep, AgeOut, TokenInv, BurnsBind, TokenOpensOneSession
<1>8. ASSUME NEW n \in Nonces, TokenExpires(n) PROVE TokenInv'
    BY <1>8 DEF TokenExpires, TokenInv, BurnsBind, TokenOpensOneSession
<1>9. ASSUME NEW n \in Nonces, BurnExpires(n) PROVE TokenInv'
    <2>1. /\ n \in spent /\ (\A p \in Procs : nonce[p] # n) /\ burned' = burned \ {n}
          /\ UNCHANGED <<issued, spent, pc, nonce, opened>>
        BY <1>9 DEF BurnExpires
    <2>2. BurnsBind'
        BY <2>1 DEF TokenInv, BurnsBind
    <2>. QED BY <2>1, <2>2 DEF TokenInv, TokenOpensOneSession
<1>. QED
    BY <1>1, <1>2, <1>3, <1>4, <1>5, <1>6, <1>7, <1>8, <1>9, ChallengeStep, ReadTokenStep,
       BurnTokenStep, IssuePairStep, NextCases DEF ProcStep

-----------------------------------------------------------------------------
(* The lockout.                                                              *)
LEMMA ProcsFinite == Cardinality(Procs) \in Nat
BY FS_CardinalityType

(* Some of the processes are finitely many.                                  *)
LEMMA GuessingFinite ==
    ASSUME NEW S \in SUBSET Procs
    PROVE  IsFiniteSet(S) /\ Cardinality(S) \in Nat /\ Cardinality(S) <= Cardinality(Procs)
BY FS_Subset, FS_CardinalityType

(* No more processes guess than before, and no more failures are recorded.   *)
LEMMA FewerGuess ==
    ASSUME TypeOK, GuessesBounded, Guessing' \subseteq Guessing,
           failures' \in Nat, failures' <= failures
    PROVE  GuessesBounded'
<1>1. Guessing \in SUBSET Procs /\ Guessing' \in SUBSET Guessing
    BY DEF Guessing
<1>2. Cardinality(Guessing') <= Cardinality(Guessing)
    BY <1>1, GuessingFinite, FS_Subset
<1>3. /\ Cardinality(Guessing) \in Nat /\ Cardinality(Guessing') \in Nat
      /\ Guessing' \in SUBSET Procs
    BY <1>1, GuessingFinite
<1>. QED BY <1>2, <1>3, ProcsFinite DEF GuessesBounded, TypeOK

(* A process starts to guess while the lock is open.                         *)
LEMMA StartsGuess ==
    ASSUME TypeOK, ~IsLocked, Guessing' \in SUBSET Procs, failures' = failures
    PROVE  GuessesBounded'
<1>1. failures < Threshold
    BY DEF IsLocked, TypeOK
<1>2. Cardinality(Guessing') \in Nat /\ Cardinality(Guessing') <= Cardinality(Procs)
    BY GuessingFinite
<1>. QED BY <1>1, <1>2, ProcsFinite DEF GuessesBounded, TypeOK

(* A failure is recorded by a process that guesses no more.                  *)
LEMMA RecordFailureStep ==
    ASSUME TypeOK, GuessesBounded, NEW p \in Procs, RecordFailure(p)
    PROVE  GuessesBounded'
<1>1. p \in Guessing /\ Guessing' = Guessing \ {p} /\ failures' = failures + 1
    BY DoneTyped DEF RecordFailure, Guessing
<1>2. Guessing \in SUBSET Procs
    BY DEF Guessing
<1>3. Cardinality(Guessing') = Cardinality(Guessing) - 1 /\ Cardinality(Guessing) \in Nat
    BY <1>1, <1>2, GuessingFinite, FS_RemoveElement
<1>. QED BY <1>1, <1>3, ProcsFinite DEF GuessesBounded, TypeOK

(* Failures and guesses under way stay within the bound under every step.    *)
LEMMA GuessesInductive ==
    ASSUME TypeOK, GuessesBounded, [Next]_vars
    PROVE  GuessesBounded'
<1>0. Guessing' \in SUBSET Procs /\ failures \in Nat
    BY DEF Guessing, TypeOK
<1>1. CASE UNCHANGED vars
    BY <1>1, <1>0, FewerGuess DEF vars, Guessing
<1>2. ASSUME NEW p \in Procs, Login(p) PROVE GuessesBounded'
    BY <1>2, <1>0, StartsGuess DEF Login
<1>3. ASSUME NEW p \in Procs, CheckLock(p) PROVE GuessesBounded'
    <2>1. CASE IsLocked
        <3>1. Guessing' \subseteq Guessing /\ failures' = failures
            BY <1>3, <2>1, DoneTyped DEF CheckLock, Guessing
        <3>. QED BY <1>0, <3>1, FewerGuess
    <2>2. CASE ~IsLocked
        BY <1>3, <2>2, <1>0, StartsGuess DEF CheckLock
    <2>. QED BY <2>1, <2>2
<1>4. ASSUME NEW p \in Procs,
             \/ Challenge(p) \/ RecordSuccess(p) \/ CreateDevice(p) \/ CommitConfirm(p)
             \/ CommitDisable(p) \/ Abort(p)
      PROVE  GuessesBounded'
    <2>1. Done(p) /\ failures' \in {failures, 0}
        BY <1>4 DEF Challenge, RecordSuccess, CreateDevice, CommitConfirm, CommitDisable, Abort
    <2>2. Guessing' \subseteq Guessing
        BY <2>1, DoneTyped DEF Guessing
    <2>. QED BY <1>0, <2>1, <2>2, FewerGuess
<1>5. ASSUME NEW p \in Procs, NEW place \in Places, Goto(p, place), UNCHANGED failures,
             \/ pc[p] \in {"password", "totp", "recovery", "failed"}
             \/ place \notin {"password", "totp", "recovery", "failed"}
      PROVE  GuessesBounded'
    <2>1. Guessing' \subseteq Guessing
        BY <1>5, GotoTyped DEF Guessing
    <2>. QED BY <1>0, <1>5, <2>1, FewerGuess
<1>6. ASSUME NEW p \in Procs,
             \/ BadPassword(p) \/ NoSecondStep(p) \/ ReadToken(p) \/ AcceptTotp(p)
             \/ RefuseTotp(p) \/ AcceptRecoveryCode(p) \/ RefuseCode(p) \/ IssuePair(p)
      PROVE  GuessesBounded'
    BY <1>5, <1>6 DEF BadPassword, NoSecondStep, ReadToken, AcceptTotp, RefuseTotp,
                      AcceptRecoveryCode, RefuseCode, IssuePair, Places
<1>7. ASSUME NEW p \in Procs, BurnToken(p) PROVE GuessesBounded'
    <2>1. CASE Done(p)
        <3>1. Guessing' \subseteq Guessing /\ failures' = failures
            BY <1>7, <2>1, DoneTyped DEF BurnToken, Guessing
        <3>. QED BY <1>0, <3>1, FewerGuess
    <2>2. CASE Goto(p, "issue")
        BY <1>5, <1>7, <2>2 DEF BurnToken, Places
    <2>. QED BY <1>7, <2>1, <2>2 DEF BurnToken
<1>8. ASSUME NEW p \in Procs, BeginSetup(p) \/ ReplacePending(p) \/ ConfirmSetup(p) \/ Disable(p)
      PROVE  GuessesBounded'
    BY <1>5, <1>8 DEF BeginSetup, ReplacePending, ConfirmSetup, Disable, Places
<1>9. CASE NextStep \/ AgeOut
    <2>1. Guessing' = Guessing /\ failures' \in Nat /\ failures' <= failures
        BY <1>0, <1>9 DEF NextStep, AgeOut, Guessing
    <2>. QED BY <2>1, FewerGuess
<1>10. ASSUME NEW n \in Nonces, TokenExpires(n) \/ BurnExpires(n) PROVE GuessesBounded'
    <2>1. Guessing' = Guessing /\ failures' = failures
        BY <1>10 DEF TokenExpires, BurnExpires, Guessing
    <2>. QED BY <1>0, <2>1, FewerGuess
<1>. QED
    BY <1>1, <1>2, <1>3, <1>4, <1>6, <1>7, <1>8, <1>9, <1>10, RecordFailureStep, NextCases
    DEF ProcStep

-----------------------------------------------------------------------------
(* The theorems.                                                             *)

(* The inductive invariant holds at first ...                                *)
LEMMA InitHolds ==
    ASSUME Init
    PROVE  IInv
<1>1. TypeOK
    BY CodeKinds DEF Init, TypeOK, Steps, Places, States
<1>2. RequestsConsistent /\ RowsLocked /\ LastUsed /\ RecoverySpent
    BY CodeKinds DEF Init, RequestsConsistent, RowsLocked, LastUsed, RecoverySpent
<1>3. CodesNeedTheirDevice /\ CodeWorksOnce /\ BurnsBind /\ TokenOpensOneSession
    BY DEF Init, CodesNeedTheirDevice, CodeWorksOnce, BurnsBind, TokenOpensOneSession
<1>4. GuessesBounded
    <2>1. Guessing = {} /\ failures = 0
        BY DEF Init, Guessing
    <2>. QED BY <2>1, FS_EmptySet, ProcsFinite DEF GuessesBounded
<1>. QED BY <1>1, <1>2, <1>3, <1>4 DEF IInv

(* ... and after every step.                                                 *)
LEMMA StepHolds ==
    ASSUME IInv, [Next]_vars
    PROVE  IInv'
BY TypeInductive, RequestsInductive, RowsInductive, CodesInductive, TokensInductive,
   GuessesInductive DEF IInv, CodeInv, TokenInv

(* The inductive invariant holds of every state of users/services/mfa.py and *)
(* auth.py, however requests interleave.                                     *)
THEOREM Inductive == Spec => []IInv
<1>1. Init => IInv
    BY InitHolds
<1>2. IInv /\ [Next]_vars => IInv'
    BY StepHolds
<1>. QED BY <1>1, <1>2, PTL DEF Spec

(* Every variable keeps its type.                                            *)
THEOREM TypeCorrect == Spec => []TypeOK
<1>1. IInv => TypeOK
    BY DEF IInv
<1>. QED BY <1>1, Inductive, PTL

(* A TOTP code and a recovery code are each accepted at most once.           *)
THEOREM CodesOnce == Spec => []CodeWorksOnce
<1>1. IInv => CodeWorksOnce
    BY DEF IInv
<1>. QED BY <1>1, Inductive, PTL

(* A login token opens at most one session.                                  *)
THEOREM TokensOnce == Spec => []TokenOpensOneSession
<1>1. IInv => TokenOpensOneSession
    BY DEF IInv
<1>. QED BY <1>1, Inductive, PTL

(* No recovery code outlives the enrolment it was issued with.               *)
THEOREM CodesFollowDevices == Spec => []CodesNeedTheirDevice
<1>1. IInv => CodesNeedTheirDevice
    BY DEF IInv
<1>. QED BY <1>1, Inductive, PTL

(* The lock overshoots its threshold by less than one failure per process.   *)
THEOREM LockHolds == Spec => []BurstBounded
<1>1. ASSUME IInv PROVE BurstBounded
    <2>1. Cardinality(Guessing) \in Nat
        BY GuessingFinite DEF Guessing
    <2>. QED BY <1>1, <2>1, ProcsFinite DEF IInv, GuessesBounded, BurstBounded, TypeOK
<1>. QED BY <1>1, Inductive, PTL

(* A step of a device that was used, or passed, is never accepted again.     *)
LEMMA AcceptedIsNew ==
    ASSUME IInv, [Next]_vars, NEW c \in Totp, accepted'[c] > accepted[c],
           NEW e \in Totp, e.device = c.device, e.step >= c.step
    PROVE  accepted[e] = 0
<1>1. TypeOK /\ RowsLocked /\ LastUsed /\ CodeWorksOnce
    BY DEF IInv
<1>2. accepted[c] \in Nat /\ c \in Codes
    BY <1>1, CodeKinds DEF TypeOK
<1>3. ASSUME NEW p \in Procs, AcceptTotp(p) PROVE accepted[e] = 0
    <2>. DEFINE x == code[p]
    <2>1. /\ x \in Totp /\ x.step > last[x.device] /\ Accept(x)
          /\ last' = [last EXCEPT ![x.device] = x.step]
        BY <1>3, VerifiedIsTotp DEF AcceptTotp
    <2>. HIDE DEF x
    <2>2. /\ \A y \in Totp : y.device = x.device /\ y.step >= x.step => accepted[y] = 0
          /\ \A y \in Codes \ {x} : accepted'[y] = accepted[y]
        BY <1>1, <2>1, TotpCounts
    <2>3. c = x
        BY <1>2, <2>2
    <2>. QED BY <2>2, <2>3
<1>4. ASSUME NEW p \in Procs, CommitConfirm(p) PROVE accepted[e] = 0
    <2>1. PICK d \in doomed[p], s \in Steps :
              /\ last' = [last EXCEPT ![d] = s]
              /\ accepted' = [accepted EXCEPT
                                  ![[kind |-> "totp", device |-> d, step |-> s]] = @ + 1]
        BY <1>4 DEF CommitConfirm
    <2>. DEFINE x == [kind |-> "totp", device |-> d, step |-> s]
    <2>2. d \in Devices /\ last[d] = 0 /\ s > 0
        BY <1>1, <1>4 DEF CommitConfirm, RowsLocked, TypeOK, LastUsed, Steps
    <2>3. x \in Totp /\ x.device = d /\ x.step = s /\ Accept(x)
        BY <2>1, <2>2 DEF Totp, Accept
    <2>. HIDE DEF x
    <2>4. /\ \A y \in Totp : y.device = x.device /\ y.step >= x.step => accepted[y] = 0
          /\ \A y \in Codes \ {x} : accepted'[y] = accepted[y]
        BY <1>1, <2>1, <2>2, <2>3, TotpCounts
    <2>5. c = x
        BY <1>2, <2>4
    <2>. QED BY <2>4, <2>5
<1>5. ASSUME NEW p \in Procs, AcceptRecoveryCode(p) PROVE FALSE
    <2>1. code[p] \in Recovery /\ Accept(code[p])
        BY <1>1, <1>5 DEF AcceptRecoveryCode, TypeOK
    <2>. QED BY <1>1, <1>2, <2>1, AcceptCounts, CodeKinds
<1>6. ASSUME NEW p \in Procs, CreateDevice(p) \/ CommitDisable(p) PROVE FALSE
    BY <1>2, <1>6 DEF CreateDevice, CommitDisable
<1>. QED
    BY <1>2, <1>3, <1>4, <1>5, <1>6, CodeSteps

(* The replay guard of users/mfa.py is monotonic under every interleaving.   *)
THEOREM ReplayGuardHolds == Spec => NoReplay
<1>1. IInv /\ [Next]_vars =>
          [\A c \in Totp : accepted'[c] > accepted[c] =>
              \A e \in Totp : e.device = c.device /\ e.step >= c.step => accepted[e] = 0]_vars
    BY AcceptedIsNew
<1>. QED BY <1>1, Inductive, PTL DEF Spec, NoReplay
=============================================================================
