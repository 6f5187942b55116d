------------------------------- MODULE SignIn -------------------------------
(* The password step and the code step of a login, and the enrolment of TOTP *)
(* devices, for one user: users/services/auth.py, mfa.py, lockout.py and the *)
(* login token of users/tokens.py.                                           *)
(*                                                                           *)
(* Each process serves one request at a time.  A transaction's deletions are *)
(* listed in doomed and claimed, whose rows it holds locked, until it        *)
(* commits.                                                                  *)
EXTENDS Naturals, FiniteSets

CONSTANTS
    Procs,      \* web processes
    Nonces,     \* bound: the login tokens that may be issued, by nonce
    MaxDevices, \* bound: the devices that may be created, by order of creation
    MaxStep,    \* bound: the last time step
    Threshold,  \* LOCKOUT_THRESHOLD
    None        \* no nonce, or no code

ASSUME BoundsAssumption ==
    MaxDevices \in Nat /\ MaxStep \in Nat \ {0} /\ Threshold \in Nat \ {0}
ASSUME NoneAssumption == None \notin Nonces
ASSUME ProcsAssumption == IsFiniteSet(Procs)

DRIFT_STEPS == 1

Devices == 1..MaxDevices
Steps   == 1..MaxStep

(* A code as the user presents it: a device's code of a time step, a         *)
(* recovery code of the set issued with a device's confirmation, or neither. *)
Totp     == [kind : {"totp"}, device : Devices, step : Steps]
Recovery == [kind : {"recovery"}, device : Devices, step : {0}]
Wrong    == [kind |-> "wrong", device |-> 0, step |-> 0]
Codes    == Totp \cup Recovery \cup {Wrong}

States == {"none", "pending", "confirmed", "gone"}
Places == {"idle", "password", "locked", "totp", "recovery", "burn", "issue", "record",
           "failed", "setup", "create", "confirm", "disable"}

VARIABLES
    clock,    \* the current time step
    device,   \* [Devices -> States]: users_mfa_device
    last,     \* [Devices -> Nat]: last_used_timestep
    recovery, \* the unused recovery codes
    issued,   \* the nonces of login tokens that have not expired
    spent,    \* the nonces whose token has expired
    burned,   \* the nonces in the cache
    failures, \* the failures of the burst that counts, since the last success
    pc, nonce, code, \* per process: where it is, its token and the code presented
    doomed,   \* per process: the devices its transaction deletes or confirms
    claimed,  \* per process: the recovery codes its transaction deletes
    accepted, \* history, [Codes -> Nat]: how often a code was accepted
    opened    \* history, [Nonces -> Nat]: the sessions opened with a token

enrolment == <<device, recovery, doomed, claimed>>
tokens    == <<issued, spent, burned>>
request   == <<pc, nonce, code>>
history   == <<accepted, opened>>
vars      == <<clock, device, last, recovery, issued, spent, burned, failures, pc, nonce,
               code, doomed, claimed, accepted, opened>>

Init ==
    /\ clock = 1
    /\ device = [d \in Devices |-> "none"]
    /\ last = [d \in Devices |-> 0]
    /\ recovery = {} /\ issued = {} /\ spent = {} /\ burned = {}
    /\ failures = 0
    /\ pc = [p \in Procs |-> "idle"]
    /\ nonce = [p \in Procs |-> None]
    /\ code = [p \in Procs |-> Wrong]
    /\ doomed = [p \in Procs |-> {}]
    /\ claimed = [p \in Procs |-> {}]
    /\ accepted = [c \in Codes |-> 0]
    /\ opened = [n \in Nonces |-> 0]

Goto(p, place) == pc' = [pc EXCEPT ![p] = place]

(* The request is answered.                                                  *)
Done(p) ==
    /\ Goto(p, "idle")
    /\ nonce' = [nonce EXCEPT ![p] = None]
    /\ code' = [code EXCEPT ![p] = Wrong]

In(state) == {d \in Devices : device[d] = state}

(* Rows that another transaction has locked.                                 *)
LockedDevices(p) == UNION {doomed[q] : q \in Procs \ {p}}
LockedCodes(p)   == UNION {claimed[q] : q \in Procs \ {p}}

-----------------------------------------------------------------------------
(* Lockout, and the password step: login() *)

(* is_locked(), while the burst lasts.                                       *)
MutIsLocked == failures > Threshold
IsLocked == failures >= Threshold

Login(p) ==
    /\ pc[p] = "idle"
    /\ ~IsLocked
    /\ Goto(p, "password")
    /\ UNCHANGED <<clock, enrolment, last, tokens, failures, nonce, code, history>>

BadPassword(p) ==
    /\ pc[p] = "password"
    /\ Goto(p, "failed")
    /\ UNCHANGED <<clock, enrolment, last, tokens, failures, nonce, code, history>>

(* A confirmed device exists: answer with a login token.                     *)
Challenge(p) ==
    /\ pc[p] = "password"
    /\ In("confirmed") # {}
    /\ \E n \in Nonces \ (issued \cup spent) : issued' = issued \cup {n}
    /\ Done(p)
    /\ UNCHANGED <<clock, enrolment, last, spent, burned, failures, history>>

NoSecondStep(p) ==
    /\ pc[p] = "password"
    /\ In("confirmed") = {}
    /\ Goto(p, "issue")
    /\ UNCHANGED <<clock, enrolment, last, tokens, failures, nonce, code, history>>

(* A counted failure: bad_password or mfa_failed.                            *)
RecordFailure(p) ==
    /\ pc[p] = "failed"
    /\ failures' = failures + 1
    /\ Done(p)
    /\ UNCHANGED <<clock, enrolment, last, tokens, history>>

-----------------------------------------------------------------------------
(* The code step: verify_login() *)

(* read_mfa_token().                                                         *)
ReadToken(p) ==
    /\ pc[p] = "idle"
    /\ \E n \in issued \ burned : nonce' = [nonce EXCEPT ![p] = n]
    /\ \E c \in Codes : code' = [code EXCEPT ![p] = c]
    /\ Goto(p, "locked")
    /\ UNCHANGED <<clock, enrolment, last, tokens, failures, history>>

(* Attempts made while locked are recorded but not counted.                  *)
CheckLock(p) ==
    /\ pc[p] = "locked"
    /\ IF IsLocked THEN Done(p) ELSE Goto(p, "totp") /\ UNCHANGED <<nonce, code>>
    /\ UNCHANGED <<clock, enrolment, last, tokens, failures, history>>

(* verify_totp(), against the device as it is under its lock.                *)
Verified(c) ==
    /\ c \in Totp
    /\ device[c.device] = "confirmed"
    /\ c.step \in (clock - DRIFT_STEPS)..(clock + DRIFT_STEPS)
    /\ c.step > last[c.device]

Accept(c) == accepted' = [accepted EXCEPT ![c] = @ + 1]

AcceptTotp(p) ==
    /\ pc[p] = "totp"
    /\ In("confirmed") \cap LockedDevices(p) = {}
    /\ Verified(code[p])
    /\ last' = [last EXCEPT ![code[p].device] = code[p].step]
    /\ Accept(code[p])
    /\ Goto(p, "burn")
    /\ UNCHANGED <<clock, enrolment, tokens, failures, nonce, code, opened>>

RefuseTotp(p) ==
    /\ pc[p] = "totp"
    /\ In("confirmed") \cap LockedDevices(p) = {}
    /\ ~Verified(code[p])
    /\ Goto(p, "recovery")
    /\ UNCHANGED <<clock, enrolment, last, tokens, failures, nonce, code, history>>

(* UPDATE ... WHERE used_at IS NULL.                                         *)
MutLeft(c) == recovery
Left(c) == recovery \ {c}

AcceptRecoveryCode(p) ==
    /\ pc[p] = "recovery"
    /\ code[p] \in recovery \ LockedCodes(p)
    /\ recovery' = Left(code[p])
    /\ Accept(code[p])
    /\ Goto(p, "burn")
    /\ UNCHANGED <<clock, device, doomed, claimed, last, tokens, failures, nonce, code, opened>>

RefuseCode(p) ==
    /\ pc[p] = "recovery"
    /\ code[p] \notin recovery
    /\ Goto(p, "failed")
    /\ UNCHANGED <<clock, enrolment, last, tokens, failures, nonce, code, history>>

(* burn_mfa_token(): cache.add() answers whether it was there.               *)
MutBurns(n) == TRUE
Burns(n) == n \notin burned

BurnToken(p) ==
    /\ pc[p] = "burn"
    /\ burned' = burned \cup {nonce[p]}
    /\ IF Burns(nonce[p]) THEN Goto(p, "issue") /\ UNCHANGED <<nonce, code>> ELSE Done(p)
    /\ UNCHANGED <<clock, enrolment, last, issued, spent, failures, history>>

IssuePair(p) ==
    /\ pc[p] = "issue"
    /\ opened' = IF nonce[p] = None THEN opened ELSE [opened EXCEPT ![nonce[p]] = @ + 1]
    /\ Goto(p, "record")
    /\ UNCHANGED <<clock, enrolment, last, tokens, failures, nonce, code, accepted>>

(* Only failures since the last success count.                               *)
RecordSuccess(p) ==
    /\ pc[p] = "record"
    /\ failures' = 0
    /\ Done(p)
    /\ UNCHANGED <<clock, enrolment, last, tokens, history>>

-----------------------------------------------------------------------------
(* Enrolment: begin_setup(), confirm_setup(), disable() *)

BeginSetup(p) ==
    /\ pc[p] = "idle"
    /\ In("confirmed") = {}
    /\ Goto(p, "setup")
    /\ UNCHANGED <<clock, enrolment, last, tokens, failures, nonce, code, history>>

(* The transaction's DELETE of unconfirmed devices ...                       *)
ReplacePending(p) ==
    /\ pc[p] = "setup"
    /\ In("pending") \cap LockedDevices(p) = {}
    /\ doomed' = [doomed EXCEPT ![p] = In("pending")]
    /\ Goto(p, "create")
    /\ UNCHANGED <<clock, device, recovery, claimed, last, tokens, failures, nonce, code,
                   history>>

(* ... its INSERT and its commit.                                            *)
CreateDevice(p) ==
    /\ pc[p] = "create"
    /\ \E d \in In("none") :
          /\ \A e \in In("none") : d <= e
          /\ device' = [e \in Devices |-> IF e = d THEN "pending"
                                          ELSE IF e \in doomed[p] THEN "gone" ELSE device[e]]
    /\ doomed' = [doomed EXCEPT ![p] = {}]
    /\ Done(p)
    /\ UNCHANGED <<clock, recovery, claimed, last, tokens, failures, history>>

(* The newest pending device the user's code verifies against; the earlier   *)
(* recovery codes go.                                                        *)
ConfirmSetup(p) ==
    /\ pc[p] = "idle"
    /\ \E d \in In("pending") \ LockedDevices(p) :
          /\ \A e \in In("pending") : e <= d
          /\ doomed' = [doomed EXCEPT ![p] = {d}]
    /\ recovery \cap LockedCodes(p) = {}
    /\ claimed' = [claimed EXCEPT ![p] = recovery]
    /\ Goto(p, "confirm")
    /\ UNCHANGED <<clock, device, recovery, last, tokens, failures, nonce, code, history>>

FreshCodes(d) == {c \in Recovery : c.device = d}

CommitConfirm(p) ==
    /\ pc[p] = "confirm"
    /\ \E d \in doomed[p], s \in Steps \cap ((clock - DRIFT_STEPS)..(clock + DRIFT_STEPS)) :
          /\ device' = [device EXCEPT ![d] = "confirmed"]
          /\ last' = [last EXCEPT ![d] = s]
          /\ accepted' = [accepted EXCEPT ![[kind |-> "totp", device |-> d, step |-> s]] = @ + 1]
          /\ recovery' = (recovery \ claimed[p]) \cup FreshCodes(d)
    /\ doomed' = [doomed EXCEPT ![p] = {}]
    /\ claimed' = [claimed EXCEPT ![p] = {}]
    /\ Done(p)
    /\ UNCHANGED <<clock, tokens, failures, opened>>

(* disable(): DELETE the devices ...                                         *)
Disable(p) ==
    /\ pc[p] = "idle"
    /\ LockedDevices(p) \cap (In("pending") \cup In("confirmed")) = {}
    /\ doomed' = [doomed EXCEPT ![p] = In("pending") \cup In("confirmed")]
    /\ Goto(p, "disable")
    /\ UNCHANGED <<clock, device, recovery, claimed, last, tokens, failures, nonce, code,
                   history>>

(* ... DELETE the recovery codes, and commit.                                *)
MutKept == recovery
Kept == {}

CommitDisable(p) ==
    /\ pc[p] = "disable"
    /\ recovery \cap LockedCodes(p) = {}
    /\ recovery' = Kept
    /\ device' = [d \in Devices |-> IF d \in doomed[p] THEN "gone" ELSE device[d]]
    /\ doomed' = [doomed EXCEPT ![p] = {}]
    /\ Done(p)
    /\ UNCHANGED <<clock, claimed, last, tokens, failures, history>>

(* The process dies or its transaction is aborted.                           *)
Abort(p) ==
    /\ pc[p] # "idle"
    /\ doomed' = [doomed EXCEPT ![p] = {}]
    /\ claimed' = [claimed EXCEPT ![p] = {}]
    /\ Done(p)
    /\ UNCHANGED <<clock, device, recovery, last, tokens, failures, history>>

-----------------------------------------------------------------------------
(* Time *)

NextStep ==
    /\ clock < MaxStep
    /\ clock' = clock + 1
    /\ UNCHANGED <<enrolment, last, tokens, failures, request, history>>

(* Failures leave the window, or the lock ends: fewer count.                 *)
AgeOut ==
    /\ \E n \in 0..failures : n < failures /\ failures' = n
    /\ UNCHANGED <<clock, enrolment, last, tokens, request, history>>

TokenExpires(n) ==
    /\ n \in issued
    /\ issued' = issued \ {n}
    /\ spent' = spent \cup {n}
    /\ UNCHANGED <<clock, enrolment, last, burned, failures, request, history>>

(* The cache entry outlives the token by 60 s, longer than any request.      *)
BurnExpires(n) ==
    /\ n \in burned \cap spent
    /\ \A p \in Procs : nonce[p] # n
    /\ burned' = burned \ {n}
    /\ UNCHANGED <<clock, enrolment, last, issued, spent, failures, request, history>>

-----------------------------------------------------------------------------
ProcStep(p) ==
    \/ Login(p) \/ BadPassword(p) \/ Challenge(p) \/ NoSecondStep(p) \/ RecordFailure(p)
    \/ ReadToken(p) \/ CheckLock(p) \/ AcceptTotp(p) \/ RefuseTotp(p)
    \/ AcceptRecoveryCode(p) \/ RefuseCode(p) \/ BurnToken(p) \/ IssuePair(p)
    \/ RecordSuccess(p) \/ BeginSetup(p) \/ ReplacePending(p) \/ CreateDevice(p)
    \/ ConfirmSetup(p) \/ CommitConfirm(p) \/ Disable(p) \/ CommitDisable(p) \/ Abort(p)

Next ==
    \/ \E p \in Procs : ProcStep(p)
    \/ NextStep \/ AgeOut
    \/ \E n \in Nonces : TokenExpires(n) \/ BurnExpires(n)

Spec == Init /\ [][Next]_vars
=============================================================================
