----------------------------- MODULE Schedules -----------------------------
(* sync_schedules(): beat's PeriodicTask rows follow the job registry, in one *)
(* READ COMMITTED transaction, while operators switch rows, make rows of      *)
(* their own and delete rows, and while another sync may run.                 *)
(*                                                                            *)
(* What a spec asks for (_desired()) is a value that two specs of one job     *)
(* share or do not.  A sync's writes are its own until it commits and lock    *)
(* the rows that they write.                                                  *)
EXTENDS FiniteSets, Functions, Naturals

CONSTANTS
    Names,       \* job names, and names of rows made by hand
    Syncs,       \* processes that run the sync: migrate, manage.py sync_schedules
    Releases,    \* the registries of the releases: [Names -> what _desired() asks for, or Unscheduled]
    Unscheduled, \* the registry has no scheduled job of this name
    NoRow,       \* no such row
    MaxRows      \* bound: PeriodicTask rows ever made

Ids == 1..MaxRows

VARIABLES
    tasks,  \* [Ids -> rows \cup {NoRow}]: PeriodicTask
    owner,  \* [Names -> Ids \cup {NoRow}]: core_job_schedule
    made,   \* rows made so far: a key is never used again
    byHand, \* history: the rows that operators made
    alone,  \* history: the syncs under which no row has changed
    sync    \* [Syncs -> what the process has in hand]

vars == <<tasks, owner, made, byHand, alone, sync>>

\* What operators make by hand has fields that are no job's.
Fields == {"by hand"} \cup UNION {{code[n] : n \in Names} : code \in Releases}
Rows == [name : Names, fields : Fields, enabled : BOOLEAN]
RowsAssumption == MaxRows \in Nat /\ NoRow \notin Ids /\ NoRow \notin Rows

Idle == [phase |-> "idle"]
Row(name, fields, enabled) == [name |-> name, fields |-> fields, enabled |-> enabled]

Init ==
    /\ tasks = [i \in Ids |-> NoRow]
    /\ owner = [n \in Names |-> NoRow]
    /\ made = 0 /\ byHand = {} /\ alone = {}
    /\ sync = [s \in Syncs |-> Idle]

\* f with y at x; and f, with g where f says nothing.
With(f, x, y) == [z \in DOMAIN f \cup {x} |-> IF z = x THEN y ELSE f[z]]
Over(f, g) == [x \in DOMAIN f \cup DOMAIN g |-> IF x \in DOMAIN f THEN f[x] ELSE g[x]]

Named(n) == {i \in Ids : tasks[i] # NoRow /\ tasks[i].name = n}
Scheduled(code) == {n \in Names : code[n] # Unscheduled}

\* The rows that another transaction has written and not yet committed
LockedFor(s) == UNION {DOMAIN sync[r].writes : r \in {r \in Syncs \ {s} : sync[r].phase # "idle"}}
Locked == UNION {DOMAIN sync[r].writes : r \in {r \in Syncs : sync[r].phase # "idle"}}
Inserting(n, others) ==
    \E r \in others : sync[r].phase # "idle" /\ \E i \in DOMAIN sync[r].writes :
        sync[r].writes[i] # NoRow /\ sync[r].writes[i].name = n /\ tasks[i] = NoRow

-----------------------------------------------------------------------------
(* sync_schedules() *)

\* The owned rows are read at once; what the loop decides on is this copy.
MutReadOwned ==
    [n \in {n \in Names : Named(n) # {}} |->
       LET i == CHOOSE i \in Named(n) : TRUE IN [id |-> i, row |-> tasks[i]]]
ReadOwned == [n \in {n \in Names : owner[n] # NoRow} |-> [id |-> owner[n], row |-> tasks[owner[n]]]]

Begin(s, code) ==
    /\ sync[s] = Idle
    /\ sync' = [sync EXCEPT ![s] =
         [phase |-> "loop", code |-> code, todo |-> Scheduled(code), creating |-> {},
          read |-> ReadOwned,
          writes |-> [i \in {} |-> NoRow], owns |-> [n \in {} |-> NoRow]]]
    /\ alone' = alone \cup {s}
    /\ UNCHANGED <<tasks, owner, made, byHand>>

Owned(s, n) == n \in DOMAIN sync[s].read
OwnedRow(s, n) == sync[s].read[n]

Did(s, n) == [sync[s] EXCEPT !.todo = @ \ {n}, !.creating = {}]
Ready(s, n) == sync[s].phase = "loop" /\ n \in sync[s].todo /\ sync[s].creating \subseteq {n}

\* An unowned row that holds the name is left alone and reported.
Conflict(s, n) ==
    /\ Ready(s, n) /\ ~Owned(s, n) /\ sync[s].creating = {}
    /\ Named(n) # {}
    /\ sync' = [sync EXCEPT ![s] = Did(s, n)]
    /\ UNCHANGED <<tasks, owner, made, byHand, alone>>

NoConflict(s, n) ==
    /\ Ready(s, n) /\ ~Owned(s, n) /\ sync[s].creating = {}
    /\ Named(n) = {}
    /\ sync' = [sync EXCEPT ![s].creating = {n}]
    /\ UNCHANGED <<tasks, owner, made, byHand, alone>>

\* The insert waits for a transaction that inserts the same name.
Create(s, n) ==
    /\ Ready(s, n) /\ sync[s].creating = {n}
    /\ Named(n) = {} /\ ~Inserting(n, Syncs \ {s}) /\ made < MaxRows
    /\ made' = made + 1
    /\ \E enabled \in BOOLEAN : \* enabled_by_default
         sync' = [sync EXCEPT ![s] =
            [Did(s, n) EXCEPT
               !.writes = With(@, made', Row(n, sync[s].code[n], enabled)),
               !.owns = With(@, n, made')]]
    /\ UNCHANGED <<tasks, owner, byHand, alone>>

\* IntegrityError: the name was taken after the check.  The transaction rolls
\* back and the command fails.
Collide(s, n) ==
    /\ Ready(s, n) /\ sync[s].creating = {n} /\ Named(n) # {}
    /\ sync' = [sync EXCEPT ![s] = Idle]
    /\ alone' = alone \ {s}
    /\ UNCHANGED <<tasks, owner, made, byHand>>

Differs(row, fields) == row.fields # fields

Keep(s, n) ==
    /\ Ready(s, n) /\ Owned(s, n)
    /\ ~Differs(OwnedRow(s, n).row, sync[s].code[n])
    /\ sync' = [sync EXCEPT ![s] = Did(s, n)]
    /\ UNCHANGED <<tasks, owner, made, byHand, alone>>

\* save() writes the whole row that was read, and inserts it again when an
\* operator has deleted it.
Update(s, n) ==
    /\ Ready(s, n) /\ Owned(s, n)
    /\ LET id == OwnedRow(s, n).id IN
       /\ Differs(OwnedRow(s, n).row, sync[s].code[n])
       /\ id \notin LockedFor(s)
       /\ tasks[id] = NoRow => Named(n) = {} /\ ~Inserting(n, Syncs \ {s})
       /\ sync' = [sync EXCEPT ![s] =
            [Did(s, n) EXCEPT
               !.writes = With(@, id, [OwnedRow(s, n).row EXCEPT !.fields = sync[s].code[n]])]]
    /\ UNCHANGED <<tasks, owner, made, byHand, alone>>

UpdateCollides(s, n) ==
    /\ Ready(s, n) /\ Owned(s, n)
    /\ Differs(OwnedRow(s, n).row, sync[s].code[n])
    /\ tasks[OwnedRow(s, n).id] = NoRow /\ Named(n) # {}
    /\ sync' = [sync EXCEPT ![s] = Idle]
    /\ alone' = alone \ {s}
    /\ UNCHANGED <<tasks, owner, made, byHand>>

\* The jobs that are gone or no longer scheduled: their rows are deleted.
MutGone(s) == {}
Gone(s) == {sync[s].read[n].id : n \in DOMAIN sync[s].read \ Scheduled(sync[s].code)}

DeleteGone(s) ==
    /\ sync[s].phase = "loop" /\ sync[s].todo = {}
    /\ Gone(s) \cap LockedFor(s) = {}
    /\ sync' = [sync EXCEPT ![s].phase = "commit",
                            ![s].writes = Over(@, [i \in Gone(s) |-> NoRow])]
    /\ UNCHANGED <<tasks, owner, made, byHand, alone>>

Commit(s) ==
    /\ sync[s].phase = "commit"
    /\ tasks' = Over(sync[s].writes, tasks)
    /\ owner' = [n \in Names |->
         IF n \in DOMAIN sync[s].owns THEN sync[s].owns[n]
         ELSE IF owner[n] # NoRow /\ tasks'[owner[n]] = NoRow THEN NoRow
         ELSE owner[n]]
    /\ sync' = [sync EXCEPT ![s] = Idle]
    /\ alone' = {}
    /\ UNCHANGED <<made, byHand>>

\* The process dies, or the database does.
Abort(s) ==
    /\ sync[s] # Idle
    /\ sync' = [sync EXCEPT ![s] = Idle]
    /\ alone' = alone \ {s}
    /\ UNCHANGED <<tasks, owner, made, byHand>>

-----------------------------------------------------------------------------
(* Operators, in the admin site *)

Toggle(i) ==
    /\ tasks[i] # NoRow /\ i \notin Locked
    /\ tasks' = [tasks EXCEPT ![i].enabled = ~@]
    /\ alone' = {}
    /\ UNCHANGED <<owner, made, byHand, sync>>

MakeByHand(n) == \* with fields that are no job's
    /\ made < MaxRows /\ Named(n) = {} /\ ~Inserting(n, Syncs)
    /\ made' = made + 1
    /\ tasks' = [tasks EXCEPT ![made'] = Row(n, "by hand", TRUE)]
    /\ byHand' = byHand \cup {made'}
    /\ alone' = {}
    /\ UNCHANGED <<owner, sync>>

DeleteByHand(i) ==
    /\ tasks[i] # NoRow /\ i \notin Locked
    /\ tasks' = [tasks EXCEPT ![i] = NoRow]
    /\ owner' = [n \in Names |-> IF owner[n] = i THEN NoRow ELSE owner[n]]
    /\ alone' = {}
    /\ UNCHANGED <<made, byHand, sync>>

SyncStep(s) ==
    \/ \E code \in Releases : Begin(s, code)
    \/ \E n \in Names :
         \/ Conflict(s, n) \/ NoConflict(s, n) \/ Create(s, n) \/ Collide(s, n)
         \/ Keep(s, n) \/ Update(s, n) \/ UpdateCollides(s, n)
    \/ DeleteGone(s) \/ Commit(s) \/ Abort(s)

OperatorStep ==
    \/ \E i \in Ids : Toggle(i) \/ DeleteByHand(i)
    \/ \E n \in Names : MakeByHand(n)

Next == (\E s \in Syncs : SyncStep(s)) \/ OperatorStep
Spec == Init /\ [][Next]_vars

-----------------------------------------------------------------------------
(* schedule_doctor(): what a dry run of the sync would do, and whose rows     *)
(* are nobody's                                                               *)
Drift(code) ==
    [conflicts |-> {n \in Scheduled(code) : owner[n] = NoRow /\ Named(n) # {}},
     created |-> {n \in Scheduled(code) : owner[n] = NoRow /\ Named(n) = {}},
     updated |-> {n \in Scheduled(code) : owner[n] # NoRow /\ Differs(tasks[owner[n]], code[n])},
     deleted |-> {n \in Names : owner[n] # NoRow} \ Scheduled(code)]
NotSynced(code) == Drift(code).created \cup Drift(code).updated \cup Drift(code).deleted
Unowned == {i \in Ids : tasks[i] # NoRow} \ Range(owner)

-----------------------------------------------------------------------------
(* What operators may rely on while syncs come and go.                        *)

(* "it ... never touches a row the registry does not own": a row that an      *)
(* operator made keeps its fields and its switch and is never deleted,        *)
(* whatever name it holds and whichever syncs run when it is made.            *)
ForeignRowsUntouched == \A i \in byHand : tasks'[i] # tasks[i] => UNCHANGED sync

(* A sync during which no row changes leaves nothing for the next one but the *)
(* conflicts: the dry run that the schedule doctor makes finds beat in step.  *)
SyncSettles ==
    \A s \in Syncs, code \in Releases :
        /\ sync[s].phase = "commit" /\ sync'[s] = Idle /\ tasks' = Over(sync[s].writes, tasks)
        /\ sync[s].code = code /\ s \in alone
        => NotSynced(code)' = {}

\* What sync_schedules() promises to the rows of others and to the next sync,
\* at every step of every sync.
SyncKeepsItsWord == [][ForeignRowsUntouched /\ SyncSettles]_vars

\* schedules.py:9: "`enabled` is written only when a row is created ... and never
\* overwritten, so an operator's toggle survives every later sync": a row that
\* is there before and after a sync's step keeps its switch.
ToggleSurvives ==
    [][\A i \in Ids :
         /\ tasks[i] # NoRow /\ tasks'[i] # NoRow
         /\ tasks'[i].enabled # tasks[i].enabled
         => UNCHANGED sync]_vars
=============================================================================
