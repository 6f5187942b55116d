------------------------- MODULE JobRunsProperties -------------------------
(* What must be true of a single-flight job's runs, and the inductive        *)
(* invariant behind it.                                                      *)
EXTENDS JobRuns

(* Every variable has its type.                                              *)
TypeOK ==
    /\ message \in [Tasks -> Messages]
    /\ reader \in [Tasks -> Workers \cup {None}]
    /\ redeliveries \in [Tasks -> Nat]
    /\ unrecorded \subseteq Tasks
    /\ row \in [Tasks -> Statuses]
    /\ phase \in [Workers -> Phases]
    /\ task \in [Workers -> Tasks \cup {None}]
    /\ age \in [Workers -> Nat]
    /\ result \in [Workers -> Results]
    /\ token \in [Workers -> Nat]
    /\ lock \in Nat /\ left \in Nat /\ tokens \in Nat
    /\ late \subseteq Nat
    /\ completed \subseteq Tasks

Holding(w) == phase[w] \in {"running", "release"}

-----------------------------------------------------------------------------
(* Safety *)

(* core/jobs/celery.py: "one run at a time, fleet-wide".  No two processes   *)
(* are inside the job, although messages are redelivered while they run,     *)
(* holders are killed, keys expire and releases reach the store late.        *)
OneRunAtATime ==
    \A v, w \in Workers : phase[v] = "running" /\ phase[w] = "running" => v = w

(* A run is recorded as succeeded only if the job's function returned for    *)
(* that task id: neither a declined redelivery nor a lost process says so.   *)
SucceededMeansRan ==
    \A t \in Tasks : row[t] = "succeeded" => t \in completed

(* recorder.py: "queued" never overwrites a later state, although the        *)
(* publisher may record it after the worker has started or ended the run.    *)
QueuedNeverReturns ==
    [][\A t \in Tasks :
          row[t] \notin {"none", "queued"} => row'[t] \notin {"none", "queued"}]_vars

-----------------------------------------------------------------------------
(* Liveness *)

(* No lock stays for ever: not a killed holder's, and not one whose owner    *)
(* never learned that it took it.                                            *)
HeldLockIsFreed == lock # 0 ~> lock = 0

-----------------------------------------------------------------------------
(* The inductive invariant *)

(* A token is drawn once.  Those of releases under way are nobody's any more. *)
TokensDrawn ==
    /\ lock <= tokens
    /\ \A own \in late : own \in 1..tokens /\ \A w \in Workers : token[w] # own

(* A process that is inside the job, or about to release, holds the lock, and *)
(* the key outlives it: what is left of the ttl and the age of the run make   *)
(* up more than Celery lets the process live.                                 *)
HolderOwnsLock ==
    \A w \in Workers :
        IF Holding(w)
        THEN token[w] = lock /\ lock # 0 /\ left + age[w] >= TimeLimit + Margin
        ELSE token[w] = 0

OneHolder == \A v, w \in Workers : Holding(v) /\ Holding(w) => v = w

(* Celery's kill is never later than Slack.                                  *)
KilledInTime == \A w \in Workers : age[w] <= TimeLimit + Slack

(* A process is idle exactly when it has no task, and knows how a run ended  *)
(* once it has.                                                              *)
WorkersConsistent ==
    \A w \in Workers :
        /\ phase[w] = "idle" <=> task[w] = None
        /\ phase[w] = "idle" => result[w] = "none"
        /\ phase[w] \in {"release", "report", "ack"} => result[w] # "none"

(* A run that returned is in the history.                                    *)
ReturnedCompleted ==
    \A w \in Workers : result[w] = "returned" => task[w] \in completed

(* What a step preserves.                                                    *)
IInv ==
    /\ TypeOK
    /\ WorkersConsistent
    /\ KilledInTime
    /\ TokensDrawn
    /\ HolderOwnsLock
    /\ OneHolder
    /\ ReturnedCompleted
    /\ SucceededMeansRan
=============================================================================
