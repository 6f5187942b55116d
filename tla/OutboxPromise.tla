--------------------------- MODULE OutboxPromise ---------------------------
(* What the transactional outbox promises, with no workers, leases or        *)
(* tokens: a message that was asked for is owed until it is settled, a       *)
(* settled one is never owed again unless a human asks for it again, and a   *)
(* provider accepts an at_most_once message at most once per request.        *)
EXTENDS Naturals

CONSTANTS Msgs, AtLeastOnce

VARIABLES state,     \* [Msgs -> States]: where the promise about a message stands
          requests,  \* [Msgs -> Nat]: how often it was asked for (enqueue, resend)
          accepted   \* [Msgs -> Nat]: how often the provider accepted it

promiseVars == <<state, requests, accepted>>

(* "closed": sent or skipped.  "dead": the dead letter.  "asked": a human    *)
(* has been asked whether it was sent.                                       *)
States == {"absent", "owed", "sent", "skipped", "dead", "asked"}

PromiseInit ==
    /\ state = [m \in Msgs |-> "absent"]
    /\ requests = [m \in Msgs |-> 0]
    /\ accepted = [m \in Msgs |-> 0]

Becomes(m, from, to) ==
    /\ state[m] \in from
    /\ state' = [state EXCEPT ![m] = to]

Request(m, from) ==
    /\ Becomes(m, from, "owed")
    /\ requests' = [requests EXCEPT ![m] = @ + 1]
    /\ UNCHANGED accepted

(* The provider takes the message: possibly late, after a lease was lost.    *)
Accept(m) ==
    /\ state[m] # "absent"
    /\ m \notin AtLeastOnce => accepted[m] < requests[m]
    /\ accepted' = [accepted EXCEPT ![m] = @ + 1]
    /\ UNCHANGED <<state, requests>>

(* A worker's report that the message was sent is true, however late.        *)
Confirm(m) ==
    /\ accepted[m] > 0
    /\ Becomes(m, {"owed", "dead", "asked"}, "sent")
    /\ UNCHANGED <<requests, accepted>>

Close(m) ==
    /\ \/ Becomes(m, {"owed"}, "skipped")
       \/ Becomes(m, {"owed"}, "dead")
       \/ Becomes(m, {"owed"}, "asked")
       \/ Becomes(m, {"asked"}, "sent")   \* a human says it was accepted
    /\ UNCHANGED <<requests, accepted>>

PromiseNext ==
    \E m \in Msgs :
        \/ Request(m, {"absent"})
        \/ Request(m, {"asked"})
        \/ Accept(m)
        \/ Confirm(m)
        \/ Close(m)

PromiseSpec == PromiseInit /\ [][PromiseNext]_promiseVars
=============================================================================
