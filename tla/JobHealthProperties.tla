------------------------ MODULE JobHealthProperties ------------------------
(* What the monitor must tell, and what it must not cause.                    *)
EXTENDS JobHealth, Health

\* Until when a job may wait for a worker that has stopped.  For the grace after
\* each firing, a cron that missed the one before reads as on time again, and
\* one whose period is not above the grace is never overdue.
Deadline(j) ==
    IF started[j] = Never THEN From + Every(j) + StallThreshold
    ELSE IF Specs[j].schedule.cron THEN Clocks[j].next[down] + StallThreshold
    ELSE down + OVERDUE_PERIODS * Every(j)
InGrace(j) == Specs[j].schedule.cron /\ clock <= Clocks[j].last[clock] + StallThreshold

Told(j) == j \in ScheduleDoctor \/ Specs[j].queue \in QueueDoctor

\* "a worker that is not running, which looks exactly like a healthy, quiet
\* system": an enabled job that no worker takes is told of, whether or not beat
\* runs, a run was left "started", or its last runs ended well.
DeadWorkerIsTold ==
    \A j \in enabled : down # Never /\ clock > Deadline(j) /\ ~InGrace(j) => Told(j)

\* Nothing is reported while beat publishes and the worker keeps up.  (A message
\* published after a quiet window is reported until it is taken: the queue has
\* a backlog and no recent start.)
HealthyIsGreen == calm /\ queued = {} => Green /\ QueueDoctor = {} /\ ScheduleDoctor = {}

Finding(subject) == [severity |-> "failure", about |-> subject]
Umbrella ==
    {[found |-> {Finding(s) : s \in subjects}, known |-> {}, crashed |-> FALSE] :
       subjects \in {ScheduleDoctor, QueueDoctor}}

\* "A stopped worker is a dashboard item, not a reason for a load balancer to
\* eject the web tier": whatever the core dependencies answer, the jobs probe
\* degrades the report, and only they make an instance unready or down.
OnlyCoreTakesDown ==
    \A core \in [CoreProbes -> Answers] :
        LET answer == [p \in CoreProbes \cup {"jobs"} |->
                         IF p = "jobs" THEN IF Green THEN "yes" ELSE "no" ELSE core[p]]
            report == Components(answer, {}, {"ok"})
        IN  /\ (report.code = 503) <=> (Ready(answer) = 503)
            /\ ~Green => report.status # "ok"

MonitorIsRight ==
    /\ DeadWorkerIsTold
    /\ HealthyIsGreen
    /\ OnlyCoreTakesDown
    /\ (ExitCode(Umbrella, {}, {"queue", "schedule"}, FALSE) = 0) <=> (ScheduleDoctor \cup QueueDoctor = {})
=============================================================================
