------------------------- MODULE OutboxProperties -------------------------
(* What must be true of the outbox, and the inductive invariant behind it.   *)
EXTENDS Outbox

(* Every variable has its type.                                              *)
TypeOK ==
    /\ row \in [Msgs -> Rows]
    /\ open \in [Msgs -> SUBSET Kinds]
    /\ phase \in [Workers -> Phases]
    /\ claim \in [Workers -> Claims \cup {NoClaim}]
    /\ outcome \in [Workers -> Outcomes \cup {"none"}]
    /\ resends \in [Msgs -> Nat]
    /\ accepts \in [Msgs -> SUBSET [token : Nat, request : Nat]]

AtMostOnce == Msgs \ AtLeastOnce
Busy(w, m) == phase[w] # "idle" /\ claim[w].msg = m
Sending(w, m) == phase[w] = "sending" /\ claim[w].msg = m

-----------------------------------------------------------------------------
(* Safety *)

(* core/outbox/recovery.py: on an at_most_once topic "a duplicate is worse   *)
(* than a gap".  Whatever workers die, hang or answer late, the provider     *)
(* accepts such a message at most once per request: the enqueue, and each    *)
(* resend a human ordered.                                                   *)
AtMostOncePerRequest ==
    \A m \in AtMostOnce : \A a, b \in accepts[m] : a.request = b.request => a = b

(* An at_most_once message that is dead-lettered, skipped, or waiting for an *)
(* automatic attempt was not accepted since it was last asked for: what the  *)
(* row says, a human can act on.                                             *)
WrittenOffWasNotSent ==
    \A m \in AtMostOnce :
        row[m].status \in {"failed", "skipped", "pending", "retry"} =>
            \A a \in accepts[m] : a.request # resends[m]

(* attempts never passes max_attempts, and a row that may still be claimed   *)
(* has an attempt left, although settle() decides on the numbers the worker  *)
(* read when it claimed and a resend moves the cap meanwhile.                *)
AttemptsBounded ==
    \A m \in Msgs :
        /\ row[m].attempts <= row[m].max
        /\ row[m].status \in {"pending", "retry"} => row[m].attempts < row[m].max

(* core/findings.py: a finding is "committed with the state change that      *)
(* produced it".  An open outbox finding is about a row that is still in the *)
(* state it reports, whoever moved the row.                                  *)
FindingsFollowRows ==
    \A m \in Msgs :
        /\ "outbox.unknown" \in open[m] => row[m].status = "unknown"
        /\ "outbox.failed" \in open[m] => row[m].status = "failed"

(* A row never becomes unknown or failed silently: the same step opens the   *)
(* finding, whether a worker or the recovery sweep moved it.                 *)
ParkedIsReported ==
    [][\A m \in Msgs :
          /\ row'[m].status = "unknown" /\ row[m].status # "unknown"
                => "outbox.unknown" \in open'[m]
          /\ row'[m].status = "failed" /\ row[m].status # "failed"
                => "outbox.failed" \in open'[m]]_vars

(* A sent or skipped row stays so: no late result, recovery or resolution    *)
(* of another claim reopens it.                                              *)
SettledIsFinal ==
    [][\A m \in Msgs :
          row[m].status \in {"sent", "skipped"} => row'[m].status = row[m].status]_vars

-----------------------------------------------------------------------------
(* Liveness *)

(* Every enqueued message reaches a state that needs no machine any more,    *)
(* although every worker may die in the middle of every attempt: the         *)
(* recovery sweep frees what they held, and attempts run out.                *)
EventuallySettled ==
    \A m \in Msgs :
        row[m].status = "pending" ~> row[m].status \in {"sent", "skipped", "failed", "unknown"}

-----------------------------------------------------------------------------
(* Refinement: the outbox implements OutboxPromise. *)

PromiseState ==
    [m \in Msgs |->
        CASE row[m].status \in {"pending", "leased", "retry"} -> "owed"
          [] row[m].status = "failed"                         -> "dead"
          [] row[m].status = "unknown"                        -> "asked"
          [] OTHER                                            -> row[m].status]

PromiseRequests ==
    [m \in Msgs |-> IF row[m].status = "absent" THEN 0 ELSE 1 + resends[m]]

Promise == INSTANCE OutboxPromise WITH
    state    <- PromiseState,
    requests <- PromiseRequests,
    accepted <- [m \in Msgs |-> Cardinality(accepts[m])]

(* The outbox keeps the promise of OutboxPromise: owed until settled, final  *)
(* once settled, accepted at most once per request on at_most_once topics,   *)
(* and "sent" only on a provider's or a human's word.                        *)
KeepsPromise == Promise!PromiseSpec

-----------------------------------------------------------------------------
(* The inductive invariant *)

WorkersConsistent ==
    \A w \in Workers :
        /\ phase[w] = "idle" <=> claim[w] = NoClaim
        /\ phase[w] \in {"answered", "late"} <=> outcome[w] # "none"

(* Tokens and requests of live claims and of past acceptances are ones the   *)
(* row has already issued, and a token names one claim.                      *)
ClaimsIssued(m) ==
    \A w \in Workers : Busy(w, m) =>
        claim[w].token <= row[m].token /\ claim[w].request <= resends[m]

AcceptsIssued(m) ==
    \A a \in accepts[m] : a.token <= row[m].token /\ a.request <= resends[m]

TokensUnique(m) ==
    \A v, w \in Workers :
        Busy(v, m) /\ Busy(w, m) /\ claim[v].token = claim[w].token => v = w

AbsentUntouched(m) ==
    row[m].status = "absent" =>
        row[m] = NoRow /\ accepts[m] = {} /\ \A w \in Workers : ~Busy(w, m)

TokensIssued ==
    \A m \in Msgs :
        ClaimsIssued(m) /\ AcceptsIssued(m) /\ TokensUnique(m) /\ AbsentUntouched(m)

(* While a lease holds, its worker's copy of the attempt counters is right.  *)
ClaimsCurrent ==
    \A m \in Msgs, w \in Workers :
        Busy(w, m) /\ HoldsLease(claim[w]) =>
            claim[w].attempt = row[m].attempts /\ claim[w].max = row[m].max

(* At most once, for one message.  A request is spent by a claim that may    *)
(* still be accepted or has been; a row that no worker holds has no spent    *)
(* current request; a leased row's current request is its holder's.          *)
RequestUnspent(m) ==
    row[m].status \in {"absent", "pending", "retry", "failed", "skipped"} =>
        /\ \A a \in accepts[m] : a.request # resends[m]
        /\ \A w \in Workers : Sending(w, m) => claim[w].request # resends[m]

RequestHeld(m) ==
    row[m].status = "leased" =>
        /\ \A a \in accepts[m] : a.request = resends[m] => a.token = row[m].token
        /\ \A w \in Workers : Sending(w, m) /\ claim[w].request = resends[m]
                                  => claim[w].token = row[m].token

(* A worker that is still sending, or that answered that nothing was sent,   *)
(* has had nothing accepted under its token.                                 *)
TokenUnspent(m) ==
    \A w \in Workers :
        Sending(w, m) \/ (Busy(w, m) /\ outcome[w] \in {"retry", "failed", "skipped"})
            => \A a \in accepts[m] : a.token # claim[w].token

OneSpender(m) ==
    /\ \A w \in Workers : Sending(w, m) =>
          \A a \in accepts[m] : a.request # claim[w].request
    /\ \A v, w \in Workers :
          Sending(v, m) /\ Sending(w, m) /\ claim[v].request = claim[w].request => v = w

SpentOnce ==
    \A m \in AtMostOnce :
        RequestUnspent(m) /\ RequestHeld(m) /\ TokenUnspent(m) /\ OneSpender(m)

(* What one step of the outbox preserves: the properties above, made         *)
(* inductive by what the tokens, the claims and the requests have to do with *)
(* each other.                                                               *)
IInv ==
    /\ TypeOK
    /\ WorkersConsistent
    /\ TokensIssued
    /\ ClaimsCurrent
    /\ AttemptsBounded
    /\ FindingsFollowRows
    /\ SpentOnce
    /\ AtMostOncePerRequest
=============================================================================
