------------------------------- MODULE Outbox -------------------------------
(* The transactional outbox of core/outbox: rows, drain workers that claim,  *)
(* deliver and settle them, stale-lease recovery, human resolution, and the  *)
(* findings opened about rows a human must decide on.                        *)
(*                                                                           *)
(* A row transaction (claim, settle, late, recover, resolve) holds the row's *)
(* lock from its first read or update to its commit, so each is one action;  *)
(* what is between two of them - the handler's call to the provider, a lost  *)
(* worker, another transaction - interleaves freely.  Time is abstracted:    *)
(* a backoff elapses, and a lease expires, at any moment.                    *)
EXTENDS Naturals, FiniteSets

CONSTANTS
    Msgs,         \* the logical messages, one per dedupe_key
    Workers,      \* the processes that run core.outbox_drain
    AtLeastOnce,  \* the messages whose topic declares at_least_once
    MaxAttempts,  \* the retry policy's max_attempts
    MaxResends,   \* bound: deliberate resends of one message
    NoClaim       \* a worker between two messages

ASSUME SemanticsAssumption == AtLeastOnce \subseteq Msgs
ASSUME BoundsAssumption == MaxAttempts \in Nat \ {0} /\ MaxResends \in Nat

Statuses == {"absent", "pending", "leased", "retry", "sent", "skipped", "failed", "unknown"}
Outcomes == {"sent", "retry", "failed", "skipped", "unknown"}
Raised   == {"not_configured", "transient", "permanent", "not_an_outcome"}
Phases   == {"idle", "sending", "accepted", "answered", "late"}
Kinds    == {"outbox.unknown", "outbox.failed"}

(* The columns the outbox decides on.  due: next_attempt_at has passed;      *)
(* expired: leased_until has passed; token: locked_by, where the n-th claim  *)
(* of a row draws the fresh token n.                                         *)
Rows == [status : Statuses, attempts : Nat, max : Nat, due : BOOLEAN,
         expired : BOOLEAN, token : Nat]

(* What claim() hands a worker.  request is history: how many resends of the *)
(* message a human had ordered when it was claimed.                          *)
Claims == [msg : Msgs, token : Nat, attempt : Nat, max : Nat, request : Nat]
ASSUME NoClaimAssumption == NoClaim \notin Claims

VARIABLES
    row,      \* [Msgs -> Rows]: core_outbox
    open,     \* [Msgs -> SUBSET Kinds]: the open findings about each row
    phase,    \* [Workers -> Phases]: where each worker is in drain()
    claim,    \* [Workers -> Claims \cup {NoClaim}]: the message it works on
    outcome,  \* [Workers -> Outcomes \cup {"none"}]: what deliver() returned
    resends,  \* [Msgs -> Nat]: how many resends a human ordered
    accepts   \* [Msgs -> SUBSET [token, request]]: history, what the provider accepted

vars == <<row, open, phase, claim, outcome, resends, accepts>>
workerVars == <<phase, claim, outcome>>

NoRow == [status |-> "absent", attempts |-> 0, max |-> 0, due |-> FALSE,
          expired |-> FALSE, token |-> 0]

Init ==
    /\ row = [m \in Msgs |-> NoRow]
    /\ open = [m \in Msgs |-> {}]
    /\ phase = [w \in Workers |-> "idle"]
    /\ claim = [w \in Workers |-> NoClaim]
    /\ outcome = [w \in Workers |-> "none"]
    /\ resends = [m \in Msgs |-> 0]
    /\ accepts = [m \in Msgs |-> {}]

-----------------------------------------------------------------------------
(* Helpers *)

(* OutboxQuerySet.due() and .stale_leases().                                 *)
Due(m) == row[m].status \in {"pending", "retry"} /\ row[m].due

MutStaleLease(m) == row[m].status = "leased" /\ row[m].expired /\ m \in AtLeastOnce
StaleLease(m) == row[m].status = "leased" /\ row[m].expired

(* RetryPolicy.next_delay(attempt) is None: no attempt remains.              *)
Exhausted(attempt, max) == attempt >= max

(* The findings an update of the row to a status opens, in its transaction.  *)
MutOpenedBy(status) == IF status = "unknown" THEN {"outbox.unknown"} ELSE {}
OpenedBy(status) ==
    CASE status = "unknown" -> {"outbox.unknown"}
      [] status = "failed"  -> {"outbox.failed"}
      [] OTHER              -> {}

(* deliver(): what a handler returned or raised becomes an Outcome.          *)
MutConverted(m, result) ==
    IF result \in Outcomes THEN result
    ELSE IF result = "not_configured" THEN "skipped"
    ELSE IF result = "transient" /\ m \in AtLeastOnce THEN "retry" ELSE "failed"
Converted(m, result) ==
    IF result \in Outcomes THEN result
    ELSE IF result = "not_configured" THEN "skipped"
    ELSE IF m \notin AtLeastOnce THEN "unknown"
    ELSE IF result = "permanent" THEN "failed" ELSE "retry"

(* settle()'s dead letter: a RETRY with no attempt left is FAILED.           *)
SettledStatus(c, o) == IF o = "retry" /\ Exhausted(c.attempt, c.max) THEN "failed" ELSE o

(* settle()'s compare-and-set: the row is still leased under this token.     *)
MutHoldsLease(c) == row[c.msg].status = "leased"
MutHoldsToken(c) == row[c.msg].token = c.token
HoldsLease(c) == row[c.msg].status = "leased" /\ row[c.msg].token = c.token

(* _late()'s compare-and-set: the row is parked under this token.            *)
ParkedUnder(c) ==
    /\ row[c.msg].status \in {"unknown", "retry", "failed"}
    /\ row[c.msg].token = c.token

(* The finding kinds _late() clears when it accepts a SENT.                  *)
MutClearedByLate == {"outbox.unknown"}
ClearedByLate == Kinds

(* lease recovery's verdict on an expired lease, by the topic's semantics.   *)
MutRecoveredStatus(m) == IF Exhausted(row[m].attempts, row[m].max) THEN "failed" ELSE "retry"
RecoveredStatus(m) ==
    IF m \notin AtLeastOnce THEN "unknown"
    ELSE IF Exhausted(row[m].attempts, row[m].max) THEN "failed" ELSE "retry"

(* What the provider and the handler may answer.  A handler that returns     *)
(* SENT says the truth; on an at_most_once topic RETRY, FAILED and SKIPPED   *)
(* say that the provider did not take the message.  An exception says        *)
(* nothing.                                                                  *)
Results(m, taken) ==
    IF ~taken THEN (Outcomes \ {"sent"}) \cup Raised
    ELSE {"sent", "unknown"} \cup (Raised \ {"not_configured"})
            \cup (IF m \in AtLeastOnce THEN {"retry", "failed"} ELSE {})

(* An update that ends a lease or a parked state: leased_until becomes null, *)
(* and a row that goes to retry waits for its backoff.                       *)
MoveTo(m, status) ==
    row' = [row EXCEPT ![m] = [@ EXCEPT !.status = status, !.expired = FALSE,
                                        !.due = row[m].due /\ status # "retry"]]

(* drain() is done with its message.                                         *)
Release(w) ==
    /\ phase' = [phase EXCEPT ![w] = "idle"]
    /\ claim' = [claim EXCEPT ![w] = NoClaim]
    /\ outcome' = [outcome EXCEPT ![w] = "none"]

-----------------------------------------------------------------------------
(* Business transactions *)

(* enqueue() in a transaction that commits; the row may be delayed.  A       *)
(* second enqueue under the same dedupe_key, and a rollback, change nothing. *)
Enqueue(m) ==
    /\ row[m].status = "absent"
    /\ \E due \in BOOLEAN :
          row' = [row EXCEPT ![m] = [NoRow EXCEPT !.status = "pending",
                                                  !.max = MaxAttempts, !.due = due]]
    /\ UNCHANGED <<open, workerVars, resends, accepts>>

(* next_attempt_at passes.                                                   *)
BackoffElapses(m) ==
    /\ row[m].status \in {"pending", "retry"}
    /\ ~row[m].due
    /\ row' = [row EXCEPT ![m].due = TRUE]
    /\ UNCHANGED <<open, workerVars, resends, accepts>>

(* leased_until passes, whatever the worker that holds the lease is doing.   *)
LeaseExpires(m) ==
    /\ row[m].status = "leased"
    /\ ~row[m].expired
    /\ row' = [row EXCEPT ![m].expired = TRUE]
    /\ UNCHANGED <<open, workerVars, resends, accepts>>

-----------------------------------------------------------------------------
(* drain(): claim, deliver, settle *)

(* claim(): lease one due row and commit the lease before anything is sent.  *)
Claim(w, m) ==
    /\ phase[w] = "idle"
    /\ Due(m)
    /\ row' = [row EXCEPT ![m] =
                   [status |-> "leased", attempts |-> row[m].attempts + 1,
                    max |-> row[m].max, due |-> row[m].due, expired |-> FALSE,
                    token |-> row[m].token + 1]]
    /\ claim' = [claim EXCEPT ![w] = [msg |-> m, token |-> row[m].token + 1,
                                      attempt |-> row[m].attempts + 1,
                                      max |-> row[m].max, request |-> resends[m]]]
    /\ phase' = [phase EXCEPT ![w] = "sending"]
    /\ UNCHANGED <<open, outcome, resends, accepts>>

(* The provider accepts the message while the handler is still running.      *)
ProviderAccepts(w) ==
    /\ phase[w] = "sending"
    /\ phase' = [phase EXCEPT ![w] = "accepted"]
    /\ accepts' = [accepts EXCEPT ![claim[w].msg] =
                      @ \cup {[token |-> claim[w].token, request |-> claim[w].request]}]
    /\ UNCHANGED <<row, open, claim, outcome, resends>>

(* The handler returns or raises, and deliver() makes an Outcome of it.      *)
Deliver(w) ==
    /\ phase[w] \in {"sending", "accepted"}
    /\ \E result \in Results(claim[w].msg, phase[w] = "accepted") :
          outcome' = [outcome EXCEPT ![w] = Converted(claim[w].msg, result)]
    /\ phase' = [phase EXCEPT ![w] = "answered"]
    /\ UNCHANGED <<row, open, claim, resends, accepts>>

(* settle() while the lease holds: the row takes the outcome's status, and a *)
(* FAILED or UNKNOWN opens its finding in the same transaction.              *)
SettleHeld(w) ==
    LET c == claim[w]
        status == SettledStatus(c, outcome[w]) IN
    /\ phase[w] = "answered"
    /\ HoldsLease(c)
    /\ MoveTo(c.msg, status)
    /\ open' = [open EXCEPT ![c.msg] = @ \cup OpenedBy(status)]
    /\ Release(w)
    /\ UNCHANGED <<resends, accepts>>

(* settle() after the lease was lost: only a SENT goes on to _late(), any    *)
(* other outcome is dropped.                                                 *)
SettleLost(w) ==
    /\ phase[w] = "answered"
    /\ ~HoldsLease(claim[w])
    /\ IF outcome[w] = "sent"
       THEN phase' = [phase EXCEPT ![w] = "late"] /\ UNCHANGED <<claim, outcome>>
       ELSE Release(w)
    /\ UNCHANGED <<row, open, resends, accepts>>

(* _late(): accept a SENT for a row parked under this worker's own token,    *)
(* and close the findings it answers; otherwise drop it.                     *)
Late(w) ==
    LET c == claim[w] IN
    /\ phase[w] = "late"
    /\ IF ParkedUnder(c)
       THEN /\ MoveTo(c.msg, "sent")
            /\ open' = [open EXCEPT ![c.msg] = @ \ ClearedByLate]
       ELSE UNCHANGED <<row, open>>
    /\ Release(w)
    /\ UNCHANGED <<resends, accepts>>

(* The worker is killed, or its database call fails: it reports nothing.     *)
Crash(w) ==
    /\ phase[w] # "idle"
    /\ Release(w)
    /\ UNCHANGED <<row, open, resends, accepts>>

-----------------------------------------------------------------------------
(* core.outbox_recover *)

(* LeaseRecovery.reconcile() of a row re-read, under its lock, as leased and *)
(* expired.  locked_by is kept.                                              *)
Recover(m) ==
    LET status == RecoveredStatus(m) IN
    /\ StaleLease(m)
    /\ MoveTo(m, status)
    /\ open' = [open EXCEPT ![m] = @ \cup OpenedBy(status)]
    /\ UNCHANGED <<workerVars, resends, accepts>>

-----------------------------------------------------------------------------
(* A human's decisions *)

(* resolve_unknown(m, "mark_sent")                                           *)
MarkSent(m) ==
    /\ row[m].status = "unknown"
    /\ MoveTo(m, "sent")
    /\ open' = [open EXCEPT ![m] = @ \ {"outbox.unknown"}]
    /\ UNCHANGED <<workerVars, resends, accepts>>

(* resolve_unknown(m, "resend"): exactly one more attempt, due now.          *)
Resend(m) ==
    /\ row[m].status = "unknown"
    /\ resends[m] < MaxResends
    /\ row' = [row EXCEPT ![m] =
                   [status |-> "retry", attempts |-> row[m].attempts,
                    max |-> row[m].attempts + 1, due |-> TRUE, expired |-> FALSE,
                    token |-> row[m].token]]
    /\ open' = [open EXCEPT ![m] = @ \ {"outbox.unknown"}]
    /\ resends' = [resends EXCEPT ![m] = @ + 1]
    /\ UNCHANGED <<workerVars, accepts>>

(* findings.resolve() of an open finding, leaving the row as it is.          *)
Dismiss(m, kind) ==
    /\ kind \in open[m]
    /\ open' = [open EXCEPT ![m] = @ \ {kind}]
    /\ UNCHANGED <<row, workerVars, resends, accepts>>

-----------------------------------------------------------------------------
WorkerStep(w) ==
    \/ ProviderAccepts(w) \/ Deliver(w) \/ SettleHeld(w) \/ SettleLost(w)
    \/ Late(w) \/ Crash(w)

RowStep(m) ==
    \/ Enqueue(m) \/ BackoffElapses(m) \/ LeaseExpires(m) \/ Recover(m)
    \/ MarkSent(m) \/ Resend(m)

Next ==
    \/ \E m \in Msgs : RowStep(m)
    \/ \E m \in Msgs, kind \in Kinds : Dismiss(m, kind)
    \/ \E w \in Workers : WorkerStep(w)
    \/ \E w \in Workers, m \in Msgs : Claim(w, m)

Spec == Init /\ [][Next]_vars

(* Celery's hard time_limit: a handler ends or its worker is killed.  The    *)
(* drain and recover jobs are scheduled for ever, every 30 s and 120 s, and  *)
(* claim rows in next_attempt_at order.                                      *)
Fairness ==
    /\ \A w \in Workers :
          /\ WF_vars(Deliver(w) \/ Crash(w))
          /\ WF_vars(SettleHeld(w) \/ SettleLost(w) \/ Late(w) \/ Crash(w))
    /\ \A m \in Msgs :
          /\ WF_vars(BackoffElapses(m))
          /\ WF_vars(LeaseExpires(m))
          /\ WF_vars(Recover(m))
          /\ SF_vars(\E w \in Workers : Claim(w, m))

FairSpec == Spec /\ Fairness
=============================================================================
