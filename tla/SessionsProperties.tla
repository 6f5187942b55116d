------------------------- MODULE SessionsProperties -------------------------
(* What must be true of a user's sessions.                                   *)
EXTENDS Sessions

(* Every variable has its type.                                              *)
TypeOK ==
    /\ status \in [Sids -> Statuses]
    /\ issued \in [Sids -> Nat]
    /\ active \in BOOLEAN /\ changed \in Nat /\ resets \in Nat
    /\ cached \subseteq Sids
    /\ filling \in [Readers -> Sids \cup {NoSid}]
    /\ op \in [Procs -> Ops] /\ pc \in [Procs -> Phases]
    /\ sid \in [Procs -> Sids \cup {NoSid}]
    /\ list \in [Procs -> SUBSET Sids] /\ kills \in [Procs -> SUBSET Sids]
    /\ at \in [Procs -> Nat]
    /\ closed \subseteq Families /\ ended \subseteq Sids

-----------------------------------------------------------------------------
(* Safety *)

(* A family is one chain with one working end: row n + 1 exists exactly when *)
(* row n was rotated, whichever refreshes, sweeps and expiries raced.  Two   *)
(* tabs refreshing one token converge on one session.                        *)
ChainHasOneTip ==
    \A s \in Sids :
        s[2] < MaxGen => (status[s] = "rotated" <=> status[Successor(s)] # "none")

(* A sweep that held the user's row when it read its list - reuse detection, *)
(* deactivation, a password change - ends those families for good: no        *)
(* refresh in flight revives one, and neither does reactivating the account. *)
ClosedFamiliesStayClosed ==
    \A s \in Sids : s[1] \in closed => status[s] # "live"

(* No session of a login made before the last password change is usable,     *)
(* although the row of a login in flight may be inserted after the sweep.    *)
PasswordChangeEndsLogins ==
    \A s \in Sids :
        issued[<<s[1], 1>>] < changed /\ status[s] = "live" => issued[s] < changed

(* A row that stopped working never works again, and the reason it stopped   *)
(* for is kept: it decides between a grace reissue and reuse.                *)
RevocationIsFinal ==
    [][\A s \in Sids :
          status[s] \in {"rotated", "revoked"} => status'[s] = status[s]]_vars

-----------------------------------------------------------------------------
(* Liveness *)

(* A revoked session is refused for good from some moment on, although a     *)
(* reader that read its row before the revocation may still fill the cache   *)
(* after the revocation's delete.                                            *)
RevocationTakesHold ==
    \A s \in Sids : status[s] \in {"rotated", "revoked"} ~> [](s \notin cached)

-----------------------------------------------------------------------------
(* What the documentation says and the code does not do *)

(* AUTH_BLUEPRINT.md 856: "Revocation deletes the cached liveness answer, so *)
(* on a shared cache a revoked session stops at once".  No cached answer     *)
(* calls a session live that a finished revocation had listed.               *)
RevokedStopsAtOnce == cached \cap ended = {}
=============================================================================
