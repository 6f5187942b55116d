----------------------------- MODULE JobHealth -----------------------------
(* "Is the background system actually working?": core/jobs/health.py and the  *)
(* queue and schedule doctors, over the run rows that beat and a worker leave *)
(* while either of them stops, starts again, falls behind or fails a job.     *)
(*                                                                            *)
(* Time passes in slots (Periods).  The worker has one child, and a job runs  *)
(* in no time or over a few slots.  Beat's next moments are its scheduler's.  *)
EXTENDS Periods

CONSTANTS
    Specs,          \* [jobs -> [queue, schedule, expires]]: the scheduled jobs
    Clocks,         \* [jobs -> ClockOf of its spec]
    StallThreshold, \* QueuePolicy.stall_threshold_minutes, in slots
    SeenWindow,     \* QueuePolicy.worker_seen_window_minutes, in slots
    From, Until,    \* bounds: when the rows are created, and the last moment
    MaxUpsets       \* bound: stops, failures, switches and slots that a run takes

Jobs == DOMAIN Specs
Queues == {Specs[j].queue : j \in Jobs}
Every(j) == Clocks[j].every
OVERDUE_PERIODS == 3

(* The clock of a cron, when beat and the health report go by the same       *)
(* firings: the latest one at a moment is the next one at an earlier moment, *)
(* or there was none in between.                                             *)
GoesByFirings(c) ==
    \A now \in From..Until :
        /\ c.next[now] \in Int /\ now < c.next[now]
        /\ c.last[now] \in Int
        /\ \A then \in From..now :
              IF c.next[then] <= now THEN c.next[then] <= c.last[now] ELSE c.last[now] <= then

(* Of a cron, moreover, that a job's first firing is at most its period away *)
(* when its row is created.  previous_fire() and period_seconds() answer so  *)
(* for crons with even gaps, and intervals need no such assumption.          *)
JobsAssumption ==
    /\ From \in Int /\ Until \in Int /\ From <= Until
    /\ StallThreshold \in Nat /\ Never \notin Int
    /\ \A j \in Jobs :
          /\ Every(j) \in Nat \ {0} /\ Clocks[j].expires \in Nat
          /\ IF Specs[j].schedule.cron
             THEN GoesByFirings(Clocks[j]) /\ Clocks[j].next[From] <= From + Every(j)
             ELSE /\ Specs[j].offset \in 0..(Every(j) - 1)
                  /\ \A now \in From..Until : Clocks[j].next[now] = now + Every(j)

VARIABLES
    clock,
    up,      \* the processes that run, of {"beat", "worker"}
    enabled, \* the jobs whose PeriodicTask is enabled
    next,    \* [Jobs -> moments]: when beat publishes the job next
    queued,  \* JobRun rows at "queued": their job and queued_at
    running, \* the jobs in the worker
    started, \* [Jobs -> moments \cup {Never}]: the latest started_at
    ended,   \* [Jobs -> statuses]: the status of the run that ended last
    upsets,  \* how many of these so far
    down,    \* history: the moment the worker stopped, Never while it is up
    calm     \* history: nothing has stopped, failed, taken long or been switched

vars == <<clock, up, enabled, next, queued, running, started, ended, upsets, down, calm>>

FirstOf(j) ==
    IF Specs[j].schedule.cron THEN Clocks[j].next[From]
    ELSE JitteredStart(Every(j), Specs[j].offset, From)

Init ==
    /\ clock = From
    /\ up = {"beat", "worker"}
    /\ enabled = Jobs
    /\ next = [j \in Jobs |-> FirstOf(j)]
    /\ queued = {} /\ running = {}
    /\ started = [j \in Jobs |-> Never]
    /\ ended = [j \in Jobs |-> ""]
    /\ upsets = 0
    /\ down = Never /\ calm = TRUE

-----------------------------------------------------------------------------
(* Beat and the worker *)

Due(j) == j \in enabled /\ next[j] <= clock

\* on_published()
Publish(j) ==
    /\ "beat" \in up /\ Due(j)
    /\ next' = [next EXCEPT ![j] = Clocks[j].next[clock]]
    /\ queued' = queued \cup {[job |-> j, at |-> clock]}
    /\ UNCHANGED <<clock, up, enabled, running, started, ended, upsets, down, calm>>

Waiting(q) == {m \in queued : Specs[m.job].queue = q}
Oldest(rows) == {m \in rows : \A n \in rows : m.at <= n.at}
Expired(m) == clock > m.at + Clocks[m.job].expires

Upset == upsets < MaxUpsets /\ upsets' = upsets + 1 /\ calm' = FALSE

\* on_prerun(), or on_revoked() of a run that waited too long
Take(q) ==
    /\ "worker" \in up /\ running = {}
    /\ \E m \in Oldest(Waiting(q)) :
       /\ queued' = queued \ {m}
       /\ IF Expired(m)
          THEN ended' = [ended EXCEPT ![m.job] = "revoked"] /\ UNCHANGED <<running, started>>
          ELSE /\ running' = {m.job}
               /\ started' = [started EXCEPT ![m.job] = clock]
               /\ UNCHANGED ended
    /\ UNCHANGED <<clock, up, enabled, next, upsets, down, calm>>

\* on_success()
Succeed(j) ==
    /\ "worker" \in up /\ j \in running
    /\ running' = {}
    /\ ended' = [ended EXCEPT ![j] = "succeeded"]
    /\ UNCHANGED <<clock, up, enabled, next, queued, started, upsets, down, calm>>

\* on_failure()
Fail(j) ==
    /\ "worker" \in up /\ j \in running
    /\ Upset
    /\ running' = {}
    /\ ended' = [ended EXCEPT ![j] = "failed"]
    /\ UNCHANGED <<clock, up, enabled, next, queued, started, down>>

\* on_unknown(): the worker runs a release that has no such job.
Unknown(q) ==
    /\ "worker" \in up
    /\ Upset
    /\ \E m \in Oldest(Waiting(q)) :
       /\ queued' = queued \ {m}
       /\ ended' = [ended EXCEPT ![m.job] = "dead"]
    /\ UNCHANGED <<clock, up, enabled, next, running, started, down>>

\* A run that was under way stays "started".
Stop(process) ==
    /\ process \in up
    /\ Upset
    /\ up' = up \ {process}
    /\ down' = IF process = "worker" THEN clock ELSE down
    /\ running' = IF process = "worker" THEN {} ELSE running
    /\ UNCHANGED <<clock, enabled, next, queued, started, ended>>

Restart(process) ==
    /\ process \notin up
    /\ up' = up \cup {process}
    /\ down' = IF process = "worker" THEN Never ELSE down
    /\ UNCHANGED <<clock, enabled, next, queued, running, started, ended, upsets, calm>>

\* An operator's toggle
Switch(j) ==
    /\ Upset
    /\ enabled' = IF j \in enabled THEN enabled \ {j} ELSE enabled \cup {j}
    /\ UNCHANGED <<clock, up, next, queued, running, started, ended, down>>

\* Beat publishes what is due, and a free worker takes what waits, before time
\* passes; a run that takes longer than a slot is an upset.
Tick ==
    /\ clock < Until
    /\ "beat" \in up => \A j \in Jobs : ~Due(j)
    /\ "worker" \in up /\ running = {} => queued = {}
    /\ IF running = {} THEN UNCHANGED <<upsets, calm>> ELSE Upset
    /\ clock' = clock + 1
    /\ UNCHANGED <<up, enabled, next, queued, running, started, ended, down>>

Next ==
    \/ \E j \in Jobs : Publish(j) \/ Succeed(j) \/ Fail(j) \/ Switch(j)
    \/ \E q \in Queues : Take(q) \/ Unknown(q)
    \/ \E process \in {"beat", "worker"} : Stop(process) \/ Restart(process)
    \/ Tick

Spec == Init /\ [][Next]_vars

-----------------------------------------------------------------------------
(* health.report() *)

\* _due(): an unscheduled job is never overdue.
Overdue(j) ==
    /\ started[j] # Never
    /\ IF Specs[j].schedule.cron
       THEN LET fired == Clocks[j].last[clock]
            IN  started[j] < fired /\ clock > fired + StallThreshold
       ELSE clock > started[j] + OVERDUE_PERIODS * Every(j)

MutJobState(j) ==
    IF j \notin enabled THEN "disabled"
    ELSE IF started[j] = Never THEN "never_run"
    ELSE IF ended[j] \in {"failed", "dead"} THEN "failing"
    ELSE IF Overdue(j) /\ ended[j] # "" THEN "overdue" ELSE "ok"
JobState(j) ==
    IF j \notin enabled THEN "disabled"
    ELSE IF started[j] = Never THEN "never_run"
    ELSE IF ended[j] \in {"failed", "dead"} THEN "failing"
    ELSE IF Overdue(j) THEN "overdue" ELSE "ok"

\* queue_health()
Recent(q) == \E j \in Jobs :
    Specs[j].queue = q /\ started[j] # Never /\ started[j] >= clock - SeenWindow
Alive(q) == Recent(q) \/ Waiting(q) = {}
Stalled(q) == \E m \in Oldest(Waiting(q)) : m.at < clock - StallThreshold

Reasons ==
    {j \in Jobs : JobState(j) \in {"failing", "overdue"}} \cup {q \in Queues : Stalled(q) \/ ~Alive(q)}
Green == Reasons = {}

-----------------------------------------------------------------------------
(* core/jobs/doctors.py *)

\* queue_doctor(), of what health tells; the broker is not inspected.
QueueDoctor == {q \in Queues : Stalled(q) \/ ~Alive(q)}

\* schedule_doctor(): "A new deploy is not an incident; a schedule that has
\* existed a full period plus the grace and never ran is."
NeverRun(j) == JobState(j) = "never_run" /\ clock > From + Every(j) + StallThreshold
ScheduleDoctor == {j \in Jobs : JobState(j) \in {"failing", "overdue"} \/ NeverRun(j)}
=============================================================================
