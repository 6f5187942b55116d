------------------------------ MODULE JobRuns ------------------------------
(* The runs of one registered job that is idempotent and single_flight:      *)
(* Celery's delivery and time limits around the generated task               *)
(* (core/jobs/celery.py), its lock in Redis (core/locks.py), and the run     *)
(* records written from Celery's signals (core/jobs/recorder.py).            *)
(*                                                                           *)
(* Time is discrete.  A lock is set to expire TimeLimit + Margin after it    *)
(* was taken; Celery kills a task's process no later than Slack after its    *)
(* time_limit.  A worker here is one pool process, which runs one task at a  *)
(* time.  A message that is not acknowledged may be delivered again at any   *)
(* moment, to another worker, while the first still runs it.                 *)
EXTENDS Naturals

CONSTANTS
    Tasks,           \* the messages published for the job, by task id
    Workers,         \* the worker processes
    TimeLimit,       \* the job's time_limit
    Margin,          \* JOB_LOCK_MARGIN_SECONDS
    Slack,           \* how late Celery's kill may come
    MaxRedeliveries, \* bound: redeliveries of one message
    None             \* no worker, or no task

ASSUME TimeAssumption ==
    TimeLimit \in Nat \ {0} /\ Margin \in Nat /\ Slack \in Nat /\ Slack < Margin
ASSUME BoundsAssumption == MaxRedeliveries \in Nat
ASSUME NoneAssumption == None \notin Tasks /\ None \notin Workers

Messages == {"none", "queued", "unacked", "acked"}
Statuses == {"none", "queued", "started", "succeeded", "failed", "skipped"}
Phases   == {"idle", "prerun", "acquire", "running", "release", "report", "ack"}
Results  == {"none", "returned", "raised", "declined"}

VARIABLES
    message,      \* [Tasks -> Messages]: the task's message in the broker
    reader,       \* [Tasks -> Workers \cup {None}]: who may acknowledge it
    redeliveries, \* [Tasks -> Nat]: how often it was redelivered
    unrecorded,   \* the published tasks whose after_task_publish is still to run
    row,          \* [Tasks -> Statuses]: core_job_run
    phase, task,  \* what each worker does, and for which task
    age,          \* [Workers -> Nat]: the time since its task started
    result,       \* [Workers -> Results]: how its run ended
    token,        \* [Workers -> Nat]: its lock token, 0 for none
    lock,         \* the token in Redis under the job's key, 0 when it is free
    left,         \* the time until the key expires
    tokens,       \* the tokens drawn so far
    late,         \* the tokens of releases sent to Redis and not yet executed
    completed     \* history: the tasks for which the job's function returned

broker  == <<message, reader, redeliveries>>
records == <<unrecorded, row>>
worker  == <<phase, task, age, result, token>>
store   == <<lock, left, tokens, late>>
vars    == <<broker, records, worker, store, completed>>

Init ==
    /\ message = [t \in Tasks |-> "none"]
    /\ reader = [t \in Tasks |-> None]
    /\ redeliveries = [t \in Tasks |-> 0]
    /\ unrecorded = {}
    /\ row = [t \in Tasks |-> "none"]
    /\ phase = [w \in Workers |-> "idle"]
    /\ task = [w \in Workers |-> None]
    /\ age = [w \in Workers |-> 0]
    /\ result = [w \in Workers |-> "none"]
    /\ token = [w \in Workers |-> 0]
    /\ lock = 0 /\ left = 0 /\ tokens = 0 /\ late = {}
    /\ completed = {}

Move(w, to) == phase' = [phase EXCEPT ![w] = to]

(* The process is ready for its next task, or was replaced by a new one.     *)
Reset(w) ==
    /\ Move(w, "idle")
    /\ task' = [task EXCEPT ![w] = None]
    /\ age' = [age EXCEPT ![w] = 0]
    /\ result' = [result EXCEPT ![w] = "none"]
    /\ token' = [token EXCEPT ![w] = 0]

-----------------------------------------------------------------------------
(* Publishing: beat, or enqueue() after its transaction committed *)

Publish(t) ==
    /\ message[t] = "none"
    /\ message' = [message EXCEPT ![t] = "queued"]
    /\ unrecorded' = unrecorded \cup {t}
    /\ UNCHANGED <<reader, redeliveries, row, worker, store, completed>>

(* on_published(): creates the row, or leaves the status of the worker that  *)
(* got there first.                                                          *)
MutPublishedStatus(t) == "queued"
PublishedStatus(t) == IF row[t] = "none" THEN "queued" ELSE row[t]

(* A handler that fails is logged and dropped.                               *)
Record(t, status) ==
    \/ row' = [row EXCEPT ![t] = status]
    \/ UNCHANGED row

OnPublished(t) ==
    /\ t \in unrecorded
    /\ unrecorded' = unrecorded \ {t}
    /\ Record(t, PublishedStatus(t))
    /\ UNCHANGED <<broker, worker, store, completed>>

-----------------------------------------------------------------------------
(* The generated task, run() in register_task() *)

Start(w, t) ==
    /\ phase[w] = "idle"
    /\ message[t] = "queued"
    /\ message' = [message EXCEPT ![t] = "unacked"]
    /\ reader' = [reader EXCEPT ![t] = w]
    /\ task' = [task EXCEPT ![w] = t]
    /\ Move(w, "prerun")
    /\ UNCHANGED <<redeliveries, records, age, result, token, store, completed>>

OnPrerun(w) ==
    /\ phase[w] = "prerun"
    /\ Record(task[w], "started")
    /\ Move(w, "acquire")
    /\ UNCHANGED <<broker, unrecorded, task, age, result, token, store, completed>>

(* job_lock_ttl_ms() *)
MutJobLockTtl == TimeLimit
JobLockTtl == TimeLimit + Margin

(* SET key token NX PX ttl.                                                  *)
TakeLock ==
    /\ lock = 0
    /\ lock' = tokens + 1
    /\ tokens' = tokens + 1
    /\ left' = JobLockTtl

Acquire(w) ==
    /\ phase[w] = "acquire"
    /\ TakeLock
    /\ token' = [token EXCEPT ![w] = tokens + 1]
    /\ Move(w, "running")
    /\ UNCHANGED <<broker, records, task, age, result, late, completed>>

(* note_skip(): the lock is held, or the store is down, or it set the key    *)
(* and its answer was lost.                                                  *)
Decline(w) ==
    /\ phase[w] = "acquire"
    /\ TakeLock \/ UNCHANGED <<lock, left, tokens>>
    /\ result' = [result EXCEPT ![w] = "declined"]
    /\ Move(w, "report")
    /\ UNCHANGED <<broker, records, task, age, token, late, completed>>

(* SoftTimeLimitExceeded reaches single_flight() before its try block: the   *)
(* key may have been set, and nobody will release it.                        *)
Interrupted(w) ==
    /\ phase[w] = "acquire"
    /\ TakeLock \/ UNCHANGED <<lock, left, tokens>>
    /\ result' = [result EXCEPT ![w] = "raised"]
    /\ Move(w, "report")
    /\ UNCHANGED <<broker, records, task, age, token, late, completed>>

(* execute(): the job's function returns ...                                 *)
Return(w) ==
    /\ phase[w] = "running"
    /\ completed' = completed \cup {task[w]}
    /\ result' = [result EXCEPT ![w] = "returned"]
    /\ Move(w, "release")
    /\ UNCHANGED <<broker, records, task, age, token, store>>

(* ... or raises, SoftTimeLimitExceeded included.                            *)
Raise(w) ==
    /\ phase[w] = "running"
    /\ result' = [result EXCEPT ![w] = "raised"]
    /\ Move(w, "release")
    /\ UNCHANGED <<broker, records, task, age, token, store, completed>>

(* Compare-on-token delete.                                                  *)
Released(own) == IF lock = own THEN 0 ELSE lock

(* The store executes the release now, later, after the client gave up, or   *)
(* never; a soft limit that strikes here makes the run fail.                 *)
Release(w) ==
    /\ phase[w] = "release"
    /\ \/ lock' = Released(token[w]) /\ UNCHANGED late
       \/ late' = late \cup {token[w]} /\ UNCHANGED lock
       \/ UNCHANGED <<lock, late>>
    /\ token' = [token EXCEPT ![w] = 0]
    /\ \E r \in {result[w], "raised"} : result' = [result EXCEPT ![w] = r]
    /\ Move(w, "report")
    /\ UNCHANGED <<broker, records, task, age, left, tokens, completed>>

LateRelease(own) ==
    /\ own \in late
    /\ late' = late \ {own}
    /\ lock' = Released(own)
    /\ UNCHANGED <<broker, records, worker, left, tokens, completed>>

(* on_success(), which asks the skip table, and on_failure().                *)
MutReported(r) == IF r = "raised" THEN "failed" ELSE "succeeded"
Reported(r) ==
    CASE r = "declined" -> "skipped"
      [] r = "raised"   -> "failed"
      [] OTHER          -> "succeeded"

OnEnd(w) ==
    /\ phase[w] = "report"
    /\ Record(task[w], Reported(result[w]))
    /\ Move(w, "ack")
    /\ UNCHANGED <<broker, unrecorded, task, age, result, token, store, completed>>

-----------------------------------------------------------------------------
(* Celery: late acknowledgement, redelivery, lost processes, time limits *)

(* Acknowledging a delivery that was given to another worker does nothing.   *)
Acked(w) ==
    IF reader[task[w]] = w
    THEN /\ message' = [message EXCEPT ![task[w]] = "acked"]
         /\ reader' = [reader EXCEPT ![task[w]] = None]
    ELSE UNCHANGED <<message, reader>>

Ack(w) ==
    /\ phase[w] = "ack"
    /\ Acked(w)
    /\ Reset(w)
    /\ UNCHANGED <<redeliveries, records, store, completed>>

Requeued(t) ==
    /\ redeliveries[t] < MaxRedeliveries
    /\ redeliveries' = [redeliveries EXCEPT ![t] = @ + 1]
    /\ message' = [message EXCEPT ![t] = "queued"]
    /\ reader' = [reader EXCEPT ![t] = None]

(* The broker connection was lost: the message is delivered again.           *)
Redeliver(t) ==
    /\ message[t] = "unacked"
    /\ Requeued(t)
    /\ UNCHANGED <<records, worker, store, completed>>

(* The process dies.  reject_on_worker_lost puts its message back, or Celery *)
(* gives the message up and reports the task as failed.                      *)
Lost(w) ==
    /\ phase[w] # "idle"
    /\ \/ /\ reader[task[w]] = w
          /\ Requeued(task[w])
          /\ UNCHANGED row
       \/ /\ Acked(w)
          /\ UNCHANGED redeliveries
          /\ Record(task[w], "failed")
    /\ Reset(w)
    /\ UNCHANGED <<unrecorded, store, completed>>

(* The hard time limit kills the process; the message is acknowledged.       *)
HardLimit(w) ==
    /\ phase[w] # "idle"
    /\ age[w] >= TimeLimit
    /\ Acked(w)
    /\ Record(task[w], "failed")
    /\ Reset(w)
    /\ UNCHANGED <<redeliveries, unrecorded, store, completed>>

MutLockAfter == lock
LockAfter == IF left <= 1 THEN 0 ELSE lock

(* Time passes, but not beyond a kill that is due; keys expire.              *)
Tick ==
    /\ \A w \in Workers : phase[w] # "idle" => age[w] < TimeLimit + Slack
    /\ age' = [w \in Workers |-> IF phase[w] = "idle" THEN 0 ELSE age[w] + 1]
    /\ lock' = LockAfter
    /\ left' = IF left = 0 THEN 0 ELSE left - 1
    /\ UNCHANGED <<broker, records, phase, task, result, token, tokens, late, completed>>

-----------------------------------------------------------------------------
WorkerStep(w) ==
    \/ OnPrerun(w) \/ Acquire(w) \/ Decline(w) \/ Interrupted(w) \/ Return(w) \/ Raise(w)
    \/ Release(w) \/ OnEnd(w) \/ Ack(w) \/ Lost(w) \/ HardLimit(w)

Next ==
    \/ \E t \in Tasks : Publish(t) \/ OnPublished(t) \/ Redeliver(t)
    \/ \E w \in Workers, t \in Tasks : Start(w, t)
    \/ \E w \in Workers : WorkerStep(w)
    \/ \E own \in late : LateRelease(own)
    \/ Tick

Spec == Init /\ [][Next]_vars

(* The clock goes on and Celery enforces the hard limit.                     *)
FairSpec == Spec /\ WF_vars(Tick) /\ \A w \in Workers : WF_vars(HardLimit(w))
=============================================================================
