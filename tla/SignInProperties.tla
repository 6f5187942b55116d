-------------------------- MODULE SignInProperties --------------------------
(* What must be true of signing in with a second step.                       *)
EXTENDS SignIn

(* Every variable has its type, and an idle process keeps nothing of its     *)
(* last request.                                                             *)
TypeOK ==
    /\ clock \in Steps
    /\ device \in [Devices -> States]
    /\ last \in [Devices -> {0} \cup Steps]
    /\ recovery \subseteq Recovery
    /\ issued \subseteq Nonces /\ spent \subseteq Nonces /\ burned \subseteq Nonces
    /\ failures \in Nat
    /\ pc \in [Procs -> Places]
    /\ nonce \in [Procs -> Nonces \cup {None}]
    /\ code \in [Procs -> Codes]
    /\ doomed \in [Procs -> SUBSET Devices]
    /\ claimed \in [Procs -> SUBSET Recovery]
    /\ accepted \in [Codes -> Nat]
    /\ opened \in [Nonces -> Nat]
    /\ \A p \in Procs : pc[p] = "idle" =>
          nonce[p] = None /\ code[p] = Wrong /\ doomed[p] = {} /\ claimed[p] = {}

(* "Single-use": a recovery code and a TOTP code are each accepted once,     *)
(* whoever presents them, in whatever requests, at once or later.            *)
CodeWorksOnce == \A c \in Codes : accepted[c] <= 1

(* users/mfa.py: never a step at or before the last one used.  Once a code   *)
(* of a step was accepted, the codes of that and every earlier step are dead. *)
NoReplay ==
    [][\A c \in Totp : accepted'[c] > accepted[c] =>
          \A e \in Totp : e.device = c.device /\ e.step >= c.step => accepted[e] = 0]_vars

(* issue_mfa_token(): "good for one POST".  A login token opens at most one  *)
(* session, although several requests may pass read_mfa_token() with it.     *)
TokenOpensOneSession == \A n \in Nonces : opened[n] <= 1

(* The lock is checked before the secret and the failure recorded after it:  *)
(* requests under way when the threshold is reached still count, but no more *)
(* than one for each process.                                                *)
BurstBounded == failures + 1 <= Threshold + Cardinality(Procs)

(* Recovery codes are left only to a device that is enrolled: none outlives  *)
(* disable(), nor the enrolment that a confirmation replaced.                *)
CodesNeedTheirDevice == \A c \in recovery : device[c.device] = "confirmed"

-----------------------------------------------------------------------------
(* The strengthening that makes these inductive.                             *)

(* Where a token is at hand: only in the code step.                          *)
RequestsConsistent ==
    \A p \in Procs :
        /\ pc[p] \in {"locked", "totp", "recovery", "burn"} => nonce[p] \in Nonces
        /\ pc[p] \in {"password", "setup", "create", "confirm", "disable"} => nonce[p] = None

(* The rows a transaction deletes or confirms are as it read them, and no    *)
(* other transaction's.                                                      *)
RowsLocked ==
    /\ \A p \in Procs : doomed[p] # {} => pc[p] \in {"create", "confirm", "disable"}
    /\ \A p \in Procs : claimed[p] # {} => pc[p] = "confirm"
    /\ \A p \in Procs : \A d \in doomed[p] :
          device[d] = "pending" \/ (device[d] = "confirmed" /\ pc[p] = "disable")
    /\ \A p, q \in Procs : p # q => doomed[p] \cap doomed[q] = {}

(* Every accepted step is at or before the last one used, and a device that  *)
(* was never confirmed has none.                                             *)
LastUsed ==
    /\ \A d \in Devices : device[d] \in {"none", "pending"} => last[d] = 0
    /\ \A c \in Totp : accepted[c] > 0 => c.step <= last[c.device]

(* An accepted recovery code is not left, and belongs to a device that was   *)
(* confirmed.                                                                *)
RecoverySpent ==
    \A c \in Recovery :
        accepted[c] > 0 => c \notin recovery /\ device[c.device] \notin {"none", "pending"}

(* A token that opened a session is burned, or expired and in no process's   *)
(* hands; a process that burned one and is about to open its session is the  *)
(* only one, and the first.                                                  *)
BurnsBind ==
    /\ issued \cap spent = {}
    /\ \A n \in Nonces : opened[n] > 0 =>
          n \in burned \/ (n \in spent /\ \A p \in Procs : nonce[p] # n)
    /\ \A p \in Procs : pc[p] = "issue" /\ nonce[p] # None =>
          /\ nonce[p] \in burned /\ opened[nonce[p]] = 0
          /\ \A q \in Procs \ {p} : ~(pc[q] = "issue" /\ nonce[q] = nonce[p])

(* The processes between the check of the lock and the record.               *)
Guessing == {p \in Procs : pc[p] \in {"password", "totp", "recovery", "failed"}}
GuessesBounded == failures + Cardinality(Guessing) + 1 <= Threshold + Cardinality(Procs)

(* The inductive invariant: what makes codes, tokens and the lockout good    *)
(* under every interleaving.                                                 *)
IInv ==
    /\ TypeOK
    /\ RequestsConsistent /\ RowsLocked
    /\ LastUsed /\ RecoverySpent /\ CodesNeedTheirDevice /\ CodeWorksOnce
    /\ BurnsBind /\ TokenOpensOneSession
    /\ GuessesBounded
=============================================================================
