----------------------------- MODULE Reconciler -----------------------------
(* The loop of core/jobs/reconciler.py: one run at a time (JobRuns) goes over *)
(* the rows that need attention, each in a transaction of its own, while rows *)
(* come to need it, converge or are held by other transactions, and the run   *)
(* is asked to stop, meets its soft time limit or dies.                       *)
EXTENDS FiniteSets, FiniteSetsExt, Naturals

CONSTANTS
    MaxPk,     \* bound: the rows of the table
    BatchSize, \* batch_size
    Resumable, \* resumable: the run keeps its cursor in core_job_state
    Drifting,  \* the rows whose reconcile() answers DRIFT
    MaxUpsets  \* bound: stops, time limits, deaths, skips and foreign locks

SizesAssumption == MaxPk \in Nat \ {0} /\ BatchSize \in Nat \ {0} /\ Resumable \in BOOLEAN

Pks == 1..MaxPk

VARIABLES
    needs,    \* queryset(): the rows that need attention
    held,     \* rows that other transactions hold
    findings, \* rows with an open finding of the reconciler's kinds
    cursor,   \* JobState.cursor["after"], 0 for None
    pass,     \* the run under way
    upsets    \* upsets so far

vars == <<needs, held, findings, cursor, pass, upsets>>

Idle == [phase |-> "idle"]

Init ==
    /\ needs \in SUBSET Pks
    /\ held = {} /\ findings = {}
    /\ cursor = 0
    /\ pass = Idle
    /\ upsets = 0

-----------------------------------------------------------------------------
(* run() *)

First(n, pks) == {pk \in pks : Cardinality({p \in pks : p <= pk}) <= n}
After == IF Resumable THEN cursor ELSE 0

Start ==
    /\ pass = Idle
    /\ LET ids == {pk \in needs : pk > After}
       IN  pass' = [phase |-> "loop", ids |-> First(BatchSize, ids),
                    capped |-> Cardinality(ids) > BatchSize]
    /\ UNCHANGED <<needs, held, findings, cursor, upsets>>

At(phase) == pass.phase = phase
Pk == Min(pass.ids)

\* _one(): the row is read again, under its lock; one that has converged, or
\* that another transaction holds, is passed over.
ReadAgain ==
    /\ At("loop") /\ pass.ids # {}
    /\ pass' = [pass EXCEPT !.phase = IF Pk \in needs \ held THEN "row" ELSE "cursor"]
    /\ UNCHANGED <<needs, held, findings, cursor, upsets>>

\* FIXED: the row needs no more attention.
Fixed ==
    /\ At("row") /\ Pk \notin Drifting
    /\ needs' = needs \ {Pk}
    /\ findings' = findings \ {Pk}
    /\ pass' = [pass EXCEPT !.phase = "cursor"]
    /\ UNCHANGED <<held, cursor, upsets>>

\* DRIFT: what reconcile() wrote is rolled back, and the row is let go.
Drift ==
    /\ At("row") /\ Pk \in Drifting
    /\ pass' = [pass EXCEPT !.phase = "drift"]
    /\ UNCHANGED <<needs, held, findings, cursor, upsets>>

RaiseFinding ==
    /\ At("drift")
    /\ findings' = findings \cup {Pk}
    /\ pass' = [pass EXCEPT !.phase = "cursor"]
    /\ UNCHANGED <<needs, held, cursor, upsets>>

\* SKIP, or UNCHANGED, which clears the finding: the row stays as it is.
Skip ==
    /\ At("row") /\ upsets < MaxUpsets
    /\ upsets' = upsets + 1
    /\ findings' \in {findings, findings \ {Pk}}
    /\ pass' = [pass EXCEPT !.phase = "cursor"]
    /\ UNCHANGED <<needs, held, cursor>>

\* The cursor is saved after each row, whatever came of it.
SaveCursor ==
    /\ At("cursor")
    /\ cursor' = IF Resumable THEN Pk ELSE cursor
    /\ pass' = [pass EXCEPT !.phase = "loop", !.ids = @ \ {Pk}]
    /\ UNCHANGED <<needs, held, findings, upsets>>

\* A full pass: the next one starts from the beginning.
MutCursorAfter == cursor
CursorAfter == IF pass.capped THEN cursor ELSE 0

Finish ==
    /\ At("loop") /\ pass.ids = {}
    /\ cursor' = CursorAfter
    /\ pass' = Idle
    /\ UNCHANGED <<needs, held, findings, upsets>>

\* ctx.stop_requested(), between rows
StopEarly ==
    /\ At("loop") /\ pass.ids # {} /\ upsets < MaxUpsets
    /\ upsets' = upsets + 1
    /\ pass' = Idle
    /\ UNCHANGED <<needs, held, findings, cursor>>

\* SoftTimeLimitExceeded, or the end of the process: the transaction under way
\* is rolled back.
Interrupted ==
    /\ pass # Idle /\ upsets < MaxUpsets
    /\ upsets' = upsets + 1
    /\ pass' = Idle
    /\ UNCHANGED <<needs, held, findings, cursor>>

-----------------------------------------------------------------------------
(* Everybody else *)

Working(pk) == pass # Idle /\ pass.phase = "row" /\ Pk = pk

Arise(pk) ==
    /\ pk \notin needs
    /\ needs' = needs \cup {pk}
    /\ UNCHANGED <<held, findings, cursor, pass, upsets>>

Converge(pk) ==
    /\ pk \in needs /\ ~Working(pk)
    /\ needs' = needs \ {pk}
    /\ UNCHANGED <<held, findings, cursor, pass, upsets>>

\* A human dismisses the finding.
Dismiss(pk) ==
    /\ pk \in findings
    /\ findings' = findings \ {pk}
    /\ UNCHANGED <<needs, held, cursor, pass, upsets>>

Hold(pk) ==
    /\ pk \notin held /\ ~Working(pk) /\ upsets < MaxUpsets
    /\ upsets' = upsets + 1
    /\ held' = held \cup {pk}
    /\ UNCHANGED <<needs, findings, cursor, pass>>

LetGo(pk) ==
    /\ pk \in held
    /\ held' = held \ {pk}
    /\ UNCHANGED <<needs, findings, cursor, pass, upsets>>

-----------------------------------------------------------------------------
RunStep ==
    \/ Start \/ ReadAgain \/ Fixed \/ Drift \/ RaiseFinding \/ SaveCursor \/ Finish

Upset == Skip \/ StopEarly \/ Interrupted

Others(pk) == Arise(pk) \/ Converge(pk) \/ Dismiss(pk) \/ Hold(pk) \/ LetGo(pk)

Next == RunStep \/ Upset \/ \E pk \in Pks : Others(pk)

Spec == Init /\ [][Next]_vars

(* The scheduler starts run after run, a run goes on, and transactions end.   *)
FairSpec == Spec /\ WF_vars(RunStep) /\ \A pk \in Pks : WF_vars(LetGo(pk))

-----------------------------------------------------------------------------
(* A row that needs attention gets it, or converges: it does not wait for ever *)
(* behind rows that drift again on every pass, whatever is interrupted, held   *)
(* or capped on the way.                                                       *)
EveryRowIsServed ==
    \A pk \in Pks : pk \in needs ~> (pk \notin needs \/ pk \in findings)
=============================================================================
