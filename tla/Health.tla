------------------------------- MODULE Health -------------------------------
(* Health in three rungs (core/observability/health.py), the data-plane       *)
(* checks (core/dataplane.py) and the doctors' umbrella (core/doctors.py), of *)
(* what the probes, checks and doctors answer.                                *)
EXTENDS FiniteSets, Naturals

\* A probe, a check or a doctor answers, answers something else, or does not.
Answers == {"yes", "no", "raises", "hangs"}

-----------------------------------------------------------------------------
(* Probes *)

CoreProbes == {"database", "cache"}

\* probe_cache(): a set and a get of the same key, not a PING
ProbeCache(stores, answers) ==
    IF ~answers THEN "raises" ELSE IF stores THEN "yes" ELSE "no"

\* ready(): nothing but the core dependencies, which their clients time out
Failed(answer) == {probe \in CoreProbes : answer[probe] # "yes"}
Ready(answer) == IF Failed(answer) = {} THEN 200 ELSE 503

\* HealthShortCircuitMiddleware: the two public rungs come before everything.
Rung(method, path, answer) ==
    IF method \notin {"GET", "HEAD"} THEN "application"
    ELSE CASE path \in {"", "live/"} -> 200
           [] path = "ready/" -> Ready(answer)
           [] OTHER -> "application"

\* run_probe(): one that raises or hangs fails like one that says no.
FailureStatus(critical) == IF critical THEN "down" ELSE "degraded"
RunProbe(answer, critical) == IF answer = "yes" THEN "ok" ELSE FailureStatus(critical)

-----------------------------------------------------------------------------
(* The data plane *)

\* run_check(): a check that raises, returns something else or gives no remedy
\* is reported as a gap; it never raises.
RunCheck(answer) ==
    CASE answer \in {"ok", "warn", "fatal"} -> answer
      [] answer = "fatal, no remedy" -> "fatal"
      [] OTHER -> "warn"
Worst(results) ==
    IF "fatal" \in results THEN "fatal" ELSE IF "warn" \in results THEN "warn" ELSE "ok"

\* _active_superuser(), _administrator_role_held()
ActiveSuperuser(accounts) ==
    IF \E a \in accounts : a.active /\ a.superuser THEN "ok" ELSE "fatal"
AdministratorRoleHeld(accounts, exists) ==
    IF exists /\ \E a \in accounts : a.active /\ a.administrator THEN "ok" ELSE "fatal"

\* doctor_findings()
DataplaneDoctor(results) ==
    {[severity |-> IF r = "fatal" THEN "failure" ELSE "advisory", about |-> r] :
       r \in results \ {"ok"}}

-----------------------------------------------------------------------------
(* components() *)

\* A core key that an app registers again is the core's.
Probed(critical) == CoreProbes \cup critical
Overall(answer, critical) ==
    LET statuses == {RunProbe(answer[p], p \in Probed(critical)) : p \in DOMAIN answer}
    IN  IF "down" \in statuses THEN "down" ELSE IF "degraded" \in statuses THEN "degraded" ELSE "ok"
Components(answer, critical, results) ==
    LET overall == Overall(answer, critical)
    IN  [status |-> IF overall = "ok" /\ Worst(results) # "ok" THEN "degraded" ELSE overall,
         code |-> IF overall = "down" THEN 503 ELSE 200]

-----------------------------------------------------------------------------
(* The umbrella *)

\* run_doctor()
Reported(doctor, strict) ==
    {[f EXCEPT !.severity = IF strict THEN "failure" ELSE @] :
       f \in {f \in doctor.found : f.about \notin doctor.known}}
Backlog(doctor) == {f \in doctor.found : f.about \in doctor.known}
EntriesFixed(doctor) == doctor.known \ {f.about : f \in doctor.found}
DoctorFailed(doctor, strict) ==
    \/ doctor.crashed
    \/ \E f \in Reported(doctor, strict) : f.severity = "failure"
    \/ EntriesFixed(doctor) # {}
    \/ strict /\ Backlog(doctor) # {}

\* run(), and select() of a key that no doctor has
ExitCode(doctors, asked, keys, strict) ==
    IF ~(asked \subseteq keys) THEN 3
    ELSE IF \E d \in doctors : d.crashed THEN 2
    ELSE IF \E d \in doctors : DoctorFailed(d, strict) THEN 1 ELSE 0
=============================================================================
