---------------------------- MODULE JobRunsProofs ----------------------------
(* A single-flight job's type invariant and inductive invariant, and the     *)
(* properties that follow from it, for any tasks, processes and limits.      *)
EXTENDS JobRunsProperties, TLAPS

USE TimeAssumption, BoundsAssumption, NoneAssumption

(* The kinds of step, one per disjunct of Next.                              *)
LEMMA NextCases ==
    ASSUME Next
    PROVE  \/ \E t \in Tasks : Publish(t) \/ OnPublished(t) \/ Redeliver(t)
           \/ \E w \in Workers, t \in Tasks : Start(w, t)
           \/ \E w \in Workers : WorkerStep(w)
           \/ \E own \in late : LateRelease(own)
           \/ Tick
BY DEF Next

(* Record writes one status, or nothing.                                     *)
LEMMA RecordTyped ==
    ASSUME TypeOK, NEW t \in Tasks, NEW status \in Statuses, Record(t, status)
    PROVE  row' \in [Tasks -> Statuses]
BY DEF TypeOK, Record

LEMMA ReportedIsStatus ==
    ASSUME NEW r PROVE Reported(r) \in Statuses \ {"none", "queued"}
BY DEF Reported, Statuses

LEMMA PublishedIsStatus ==
    ASSUME TypeOK, NEW t \in Tasks PROVE PublishedStatus(t) \in Statuses
BY DEF TypeOK, PublishedStatus, Statuses

(* A process that is not idle has a task.                                    *)
LEMMA BusyHasTask ==
    ASSUME TypeOK, WorkersConsistent, NEW w \in Workers, phase[w] # "idle"
    PROVE  task[w] \in Tasks
BY DEF TypeOK, WorkersConsistent

(* Acknowledging, putting back and resetting keep the types.                 *)
LEMMA AckedTyped ==
    ASSUME TypeOK, NEW w \in Workers, Acked(w)
    PROVE  message' \in [Tasks -> Messages] /\ reader' \in [Tasks -> Workers \cup {None}]
BY DEF TypeOK, Acked, Messages

LEMMA RequeuedTyped ==
    ASSUME TypeOK, NEW t \in Tasks, Requeued(t)
    PROVE  /\ message' \in [Tasks -> Messages]
           /\ reader' \in [Tasks -> Workers \cup {None}]
           /\ redeliveries' \in [Tasks -> Nat]
BY DEF TypeOK, Requeued, Messages

LEMMA ResetTyped ==
    ASSUME TypeOK, NEW w \in Workers, Reset(w)
    PROVE  /\ phase' \in [Workers -> Phases] /\ task' \in [Workers -> Tasks \cup {None}]
           /\ age' \in [Workers -> Nat] /\ result' \in [Workers -> Results]
           /\ token' \in [Workers -> Nat]
BY DEF TypeOK, Reset, Move, Phases, Results

(* The lock's type under the two operations of the store.                    *)
LEMMA TakeLockTyped ==
    ASSUME TypeOK, TakeLock
    PROVE  lock' \in Nat /\ left' \in Nat /\ tokens' \in Nat
BY DEF TypeOK, TakeLock, JobLockTtl

LEMMA ReleasedTyped ==
    ASSUME TypeOK, NEW own PROVE Released(own) \in Nat
BY DEF TypeOK, Released

-----------------------------------------------------------------------------
LEMMA TypeInductive ==
    ASSUME TypeOK, WorkersConsistent, [Next]_vars
    PROVE  TypeOK'
<1>. USE DEF broker, records, worker, store
<1>1. CASE UNCHANGED vars
    BY <1>1 DEF vars, TypeOK
<1>2. ASSUME NEW t \in Tasks, Publish(t) PROVE TypeOK'
    BY <1>2 DEF TypeOK, Publish, Messages
<1>3. ASSUME NEW t \in Tasks, OnPublished(t) PROVE TypeOK'
    <2>1. row' \in [Tasks -> Statuses]
        BY <1>3, RecordTyped, PublishedIsStatus DEF OnPublished
    <2>. QED BY <1>3, <2>1 DEF TypeOK, OnPublished
<1>4. ASSUME NEW t \in Tasks, Redeliver(t) PROVE TypeOK'
    BY <1>4, RequeuedTyped DEF TypeOK, Redeliver
<1>5. ASSUME NEW w \in Workers, NEW t \in Tasks, Start(w, t) PROVE TypeOK'
    BY <1>5 DEF TypeOK, Start, Move, Messages, Phases
<1>6. ASSUME NEW w \in Workers, OnPrerun(w) PROVE TypeOK'
    <2>1. row' \in [Tasks -> Statuses]
        BY <1>6, RecordTyped, BusyHasTask DEF OnPrerun, Statuses
    <2>. QED BY <1>6, <2>1 DEF TypeOK, OnPrerun, Move, Phases
<1>7. ASSUME NEW w \in Workers, Acquire(w) PROVE TypeOK'
    BY <1>7, TakeLockTyped DEF TypeOK, Acquire, Move, Phases
<1>8. ASSUME NEW w \in Workers, Decline(w) PROVE TypeOK'
    <2>1. lock' \in Nat /\ left' \in Nat /\ tokens' \in Nat
        BY <1>8, TakeLockTyped DEF Decline, TypeOK
    <2>. QED BY <1>8, <2>1 DEF TypeOK, Decline, Move, Phases, Results
<1>9. ASSUME NEW w \in Workers, Interrupted(w) PROVE TypeOK'
    <2>1. lock' \in Nat /\ left' \in Nat /\ tokens' \in Nat
        BY <1>9, TakeLockTyped DEF Interrupted, TypeOK
    <2>. QED BY <1>9, <2>1 DEF TypeOK, Interrupted, Move, Phases, Results
<1>10. ASSUME NEW w \in Workers, Return(w) PROVE TypeOK'
    BY <1>10, BusyHasTask DEF TypeOK, Return, Move, Phases, Results
<1>11. ASSUME NEW w \in Workers, Raise(w) PROVE TypeOK'
    BY <1>11 DEF TypeOK, Raise, Move, Phases, Results
<1>12. ASSUME NEW w \in Workers, Release(w) PROVE TypeOK'
    <2>1. Released(token[w]) \in Nat /\ token[w] \in Nat
        BY ReleasedTyped DEF TypeOK
    <2>2. lock' \in Nat /\ late' \subseteq Nat
        BY <1>12, <2>1 DEF Release, TypeOK
    <2>3. result' \in [Workers -> Results]
        BY <1>12 DEF Release, TypeOK, Results
    <2>. QED BY <1>12, <2>2, <2>3 DEF TypeOK, Release, Move, Phases
<1>13. ASSUME NEW own \in late, LateRelease(own) PROVE TypeOK'
    BY <1>13, ReleasedTyped DEF TypeOK, LateRelease
<1>14. ASSUME NEW w \in Workers, OnEnd(w) PROVE TypeOK'
    <2>1. row' \in [Tasks -> Statuses]
        BY <1>14, RecordTyped, BusyHasTask, ReportedIsStatus DEF OnEnd
    <2>. QED BY <1>14, <2>1 DEF TypeOK, OnEnd, Move, Phases
<1>15. ASSUME NEW w \in Workers, Ack(w) PROVE TypeOK'
    BY <1>15, AckedTyped, ResetTyped DEF TypeOK, Ack
<1>16. ASSUME NEW w \in Workers, Lost(w) PROVE TypeOK'
    <2>1. /\ message' \in [Tasks -> Messages]
          /\ reader' \in [Tasks -> Workers \cup {None}]
          /\ redeliveries' \in [Tasks -> Nat]
        BY <1>16, RequeuedTyped, AckedTyped, BusyHasTask DEF Lost, TypeOK
    <2>2. row' \in [Tasks -> Statuses]
        BY <1>16, RecordTyped, BusyHasTask DEF Lost, Statuses, TypeOK
    <2>. QED BY <1>16, <2>1, <2>2, ResetTyped DEF TypeOK, Lost
<1>17. ASSUME NEW w \in Workers, HardLimit(w) PROVE TypeOK'
    <2>1. row' \in [Tasks -> Statuses]
        BY <1>17, RecordTyped, BusyHasTask DEF HardLimit, Statuses
    <2>. QED BY <1>17, <2>1, AckedTyped, ResetTyped DEF TypeOK, HardLimit
<1>18. CASE Tick
    BY <1>18 DEF TypeOK, Tick, LockAfter
<1>. QED
    BY <1>1, <1>2, <1>3, <1>4, <1>5, <1>6, <1>7, <1>8, <1>9, <1>10, <1>11, <1>12, <1>13,
       <1>14, <1>15, <1>16, <1>17, <1>18, NextCases DEF WorkerStep
-----------------------------------------------------------------------------
(* Every step, seen from one process: the steps that change it are its own    *)
(* and Tick.                                                                 *)
LEMMA ConsistentInductive ==
    ASSUME TypeOK, WorkersConsistent, [Next]_vars
    PROVE  WorkersConsistent'
<1>. USE DEF worker, WorkersConsistent, TypeOK
<1>1. CASE UNCHANGED vars
    BY <1>1 DEF vars
<1>2. ASSUME NEW t \in Tasks, Publish(t) \/ OnPublished(t) \/ Redeliver(t)
      PROVE  WorkersConsistent'
    BY <1>2 DEF Publish, OnPublished, Redeliver
<1>3. ASSUME NEW w \in Workers, NEW t \in Tasks, Start(w, t) PROVE WorkersConsistent'
    BY <1>3 DEF Start, Move
<1>4. ASSUME NEW w \in Workers, OnPrerun(w) PROVE WorkersConsistent'
    BY <1>4 DEF OnPrerun, Move
<1>5. ASSUME NEW w \in Workers, Acquire(w) PROVE WorkersConsistent'
    BY <1>5 DEF Acquire, Move
<1>6. ASSUME NEW w \in Workers, Decline(w) PROVE WorkersConsistent'
    BY <1>6 DEF Decline, Move
<1>7. ASSUME NEW w \in Workers, Interrupted(w) PROVE WorkersConsistent'
    BY <1>7 DEF Interrupted, Move
<1>8. ASSUME NEW w \in Workers, Return(w) \/ Raise(w) PROVE WorkersConsistent'
    BY <1>8 DEF Return, Raise, Move
<1>9. ASSUME NEW w \in Workers, Release(w) PROVE WorkersConsistent'
    BY <1>9 DEF Release, Move
<1>10. ASSUME NEW own \in late, LateRelease(own) PROVE WorkersConsistent'
    BY <1>10 DEF LateRelease
<1>11. ASSUME NEW w \in Workers, OnEnd(w) PROVE WorkersConsistent'
    BY <1>11 DEF OnEnd, Move
<1>12. ASSUME NEW w \in Workers, Ack(w) \/ Lost(w) \/ HardLimit(w)
       PROVE  WorkersConsistent'
    BY <1>12 DEF Ack, Lost, HardLimit, Reset, Move
<1>13. CASE Tick
    BY <1>13 DEF Tick
<1>. QED
    BY <1>1, <1>2, <1>3, <1>4, <1>5, <1>6, <1>7, <1>8, <1>9, <1>10, <1>11, <1>12, <1>13,
       NextCases DEF WorkerStep
-----------------------------------------------------------------------------
(* What ties processes to the lock.                                          *)
LockInv == KilledInTime /\ TokensDrawn /\ HolderOwnsLock /\ OneHolder

(* A step of one process that touches neither the lock nor its own token, and *)
(* is inside the job before and after, or neither before nor after.          *)
LEMMA QuietStep ==
    ASSUME TypeOK, LockInv, NEW w \in Workers, NEW p \in Phases, Move(w, p),
           (p \in {"running", "release"}) <=> Holding(w),
           UNCHANGED <<age, token, store>>
    PROVE  LockInv'
<1>1. \A v \in Workers : Holding(v)' <=> Holding(v)
    BY DEF Move, Holding, TypeOK
<1>2. UNCHANGED <<age, token, lock, left, tokens, late>>
    BY DEF store
<1>. QED
    BY <1>1, <1>2 DEF LockInv, KilledInTime, TokensDrawn, HolderOwnsLock, OneHolder

(* The process leaves the job, or never was in it, and forgets its token.    *)
LEMMA ResetStep ==
    ASSUME TypeOK, LockInv, NEW w \in Workers, Reset(w), UNCHANGED store
    PROVE  LockInv'
<1>1. ~Holding(w)' /\ token'[w] = 0 /\ age'[w] = 0
    BY DEF Reset, Move, Holding, TypeOK
<1>2. \A v \in Workers \ {w} :
          (Holding(v)' <=> Holding(v)) /\ token'[v] = token[v] /\ age'[v] = age[v]
    BY DEF Reset, Move, Holding, TypeOK
<1>3. UNCHANGED <<lock, left, tokens, late>>
    BY DEF store
<1>4. KilledInTime'
    BY <1>1, <1>2 DEF LockInv, KilledInTime
<1>5. TokensDrawn'
    BY <1>1, <1>2, <1>3 DEF LockInv, TokensDrawn
<1>6. HolderOwnsLock'
    BY <1>1, <1>2, <1>3 DEF LockInv, HolderOwnsLock
<1>7. OneHolder'
    BY <1>1, <1>2 DEF LockInv, OneHolder
<1>. QED
    BY <1>4, <1>5, <1>6, <1>7 DEF LockInv

(* A free lock has no holder.                                                *)
LEMMA FreeLockHasNoHolder ==
    ASSUME LockInv, lock = 0
    PROVE  \A w \in Workers : ~Holding(w) /\ token[w] = 0
BY DEF LockInv, HolderOwnsLock

(* The store sets the key for a process that never learns of it.             *)
LEMMA OrphanStep ==
    ASSUME TypeOK, LockInv, NEW w \in Workers, phase[w] = "acquire", Move(w, "report"),
           TakeLock, UNCHANGED <<age, token, late>>
    PROVE  LockInv'
<1>1. \A v \in Workers : ~Holding(v)' /\ token'[v] = 0
    BY FreeLockHasNoHolder DEF TakeLock, Move, Holding, TypeOK
<1>2. lock' = tokens + 1 /\ tokens' = tokens + 1
    BY DEF TakeLock
<1>3. KilledInTime'
    BY DEF LockInv, KilledInTime
<1>4. TokensDrawn'
    BY <1>1, <1>2 DEF LockInv, TokensDrawn, TypeOK
<1>. QED
    BY <1>1, <1>3, <1>4 DEF LockInv, HolderOwnsLock, OneHolder

LEMMA AcquireStep ==
    ASSUME TypeOK, LockInv, NEW w \in Workers, Acquire(w)
    PROVE  LockInv'
<1>1. \A v \in Workers \ {w} : ~Holding(v)' /\ token'[v] = 0
    BY FreeLockHasNoHolder DEF Acquire, TakeLock, Move, Holding, TypeOK
<1>2. Holding(w)' /\ token'[w] = lock' /\ lock' = tokens + 1 /\ tokens' = tokens + 1
    BY DEF Acquire, TakeLock, Move, Holding, TypeOK
<1>3. left' = TimeLimit + Margin /\ UNCHANGED <<age, late>>
    BY DEF Acquire, TakeLock, JobLockTtl
<1>4. KilledInTime'
    BY <1>3 DEF LockInv, KilledInTime
<1>5. TokensDrawn'
    BY <1>1, <1>2, <1>3 DEF LockInv, TokensDrawn, TypeOK
<1>6. HolderOwnsLock'
    BY <1>1, <1>2, <1>3 DEF HolderOwnsLock, TypeOK
<1>7. OneHolder'
    BY <1>1 DEF OneHolder
<1>. QED
    BY <1>4, <1>5, <1>6, <1>7 DEF LockInv

(* The holder frees its own lock; then no process holds it.                  *)
LEMMA ReleaseStep ==
    ASSUME TypeOK, LockInv, NEW w \in Workers, Release(w)
    PROVE  LockInv'
<1>1. /\ Holding(w) /\ token[w] = lock /\ lock \in 1..tokens
    BY DEF Release, Holding, LockInv, HolderOwnsLock, TokensDrawn, TypeOK
<1>2. \A v \in Workers \ {w} : ~Holding(v) /\ token[v] = 0
    BY <1>1 DEF LockInv, OneHolder, HolderOwnsLock
<1>3. \A v \in Workers : ~Holding(v)' /\ token'[v] = 0
    BY <1>2 DEF Release, Move, Holding, TypeOK
<1>4. UNCHANGED <<age, tokens>> /\ lock' \in {0, lock} /\ late' \subseteq late \cup {lock}
    BY <1>1 DEF Release, Released
<1>5. KilledInTime'
    BY <1>4 DEF LockInv, KilledInTime
<1>6. TokensDrawn'
    BY <1>1, <1>3, <1>4 DEF LockInv, TokensDrawn, TypeOK
<1>. QED
    BY <1>3, <1>5, <1>6 DEF LockInv, HolderOwnsLock, OneHolder

(* A late release names a token that is nobody's, so it frees no holder's    *)
(* lock.                                                                     *)
LEMMA LateReleaseStep ==
    ASSUME TypeOK, LockInv, NEW own \in late, LateRelease(own)
    PROVE  LockInv'
<1>1. UNCHANGED <<phase, age, token, left, tokens>>
    BY DEF LateRelease, worker
<1>2. \A w \in Workers : Holding(w)' <=> Holding(w)
    BY <1>1 DEF Holding
<1>3. late' \subseteq late /\ lock' \in {0, lock} /\ (lock' # lock => lock = own)
    BY DEF LateRelease, Released
<1>4. \A w \in Workers : Holding(w) => lock # own
    BY DEF LockInv, TokensDrawn, HolderOwnsLock
<1>5. TokensDrawn'
    BY <1>1, <1>3 DEF LockInv, TokensDrawn, TypeOK
<1>6. HolderOwnsLock'
    BY <1>1, <1>2, <1>3, <1>4 DEF LockInv, HolderOwnsLock
<1>. QED
    BY <1>1, <1>2, <1>5, <1>6 DEF LockInv, KilledInTime, OneHolder

(* While a process lives, its key does not expire.                           *)
LEMMA TickStep ==
    ASSUME TypeOK, LockInv, WorkersConsistent, Tick
    PROVE  LockInv'
<1>1. UNCHANGED <<phase, token, tokens, late>>
    BY DEF Tick
<1>2. \A w \in Workers : Holding(w)' <=> Holding(w)
    BY <1>1 DEF Holding
<1>3. KilledInTime'
    BY DEF Tick, LockInv, KilledInTime, TypeOK
<1>4. TokensDrawn'
    BY <1>1 DEF Tick, LockAfter, LockInv, TokensDrawn, TypeOK
<1>5. ASSUME NEW w \in Workers, Holding(w)
      PROVE  lock' = lock /\ left' + age'[w] = left + age[w]
    <2>1. age[w] < TimeLimit + Slack /\ age'[w] = age[w] + 1
        BY <1>5 DEF Tick, Holding
    <2>2. left + age[w] >= TimeLimit + Margin
        BY <1>5 DEF LockInv, HolderOwnsLock
    <2>3. left > 1
        BY <2>1, <2>2 DEF TypeOK
    <2>. QED
        BY <2>1, <2>3 DEF Tick, LockAfter, TypeOK
<1>6. HolderOwnsLock'
    BY <1>1, <1>2, <1>5 DEF LockInv, HolderOwnsLock
<1>. QED
    BY <1>1, <1>2, <1>3, <1>4, <1>6 DEF LockInv, OneHolder

LEMMA LockInductive ==
    ASSUME TypeOK, LockInv, WorkersConsistent, [Next]_vars
    PROVE  LockInv'
<1>1. CASE UNCHANGED vars
    BY <1>1 DEF vars, worker, store, LockInv, KilledInTime, TokensDrawn, HolderOwnsLock,
                OneHolder, Holding
<1>2. ASSUME NEW t \in Tasks, Publish(t) \/ OnPublished(t) \/ Redeliver(t)
      PROVE  LockInv'
    BY <1>2 DEF Publish, OnPublished, Redeliver, worker, store, LockInv, KilledInTime,
                TokensDrawn, HolderOwnsLock, OneHolder, Holding
<1>3. ASSUME NEW w \in Workers, NEW t \in Tasks, Start(w, t) PROVE LockInv'
    BY <1>3, QuietStep DEF Start, Holding, Phases
<1>4. ASSUME NEW w \in Workers, OnPrerun(w) PROVE LockInv'
    BY <1>4, QuietStep DEF OnPrerun, Holding, Phases
<1>5. ASSUME NEW w \in Workers, Return(w) PROVE LockInv'
    BY <1>5, QuietStep DEF Return, Holding, Phases
<1>6. ASSUME NEW w \in Workers, Raise(w) PROVE LockInv'
    BY <1>6, QuietStep DEF Raise, Holding, Phases
<1>7. ASSUME NEW w \in Workers, OnEnd(w) PROVE LockInv'
    BY <1>7, QuietStep DEF OnEnd, Holding, Phases
<1>8. ASSUME NEW w \in Workers, Decline(w) PROVE LockInv'
    <2>1. CASE TakeLock
        BY <1>8, <2>1, OrphanStep DEF Decline
    <2>2. CASE UNCHANGED <<lock, left, tokens>>
        BY <1>8, <2>2, QuietStep DEF Decline, Holding, Phases, store
    <2>. QED BY <1>8, <2>1, <2>2 DEF Decline
<1>9. ASSUME NEW w \in Workers, Interrupted(w) PROVE LockInv'
    <2>1. CASE TakeLock
        BY <1>9, <2>1, OrphanStep DEF Interrupted
    <2>2. CASE UNCHANGED <<lock, left, tokens>>
        BY <1>9, <2>2, QuietStep DEF Interrupted, Holding, Phases, store
    <2>. QED BY <1>9, <2>1, <2>2 DEF Interrupted
<1>10. ASSUME NEW w \in Workers, Ack(w) \/ Lost(w) \/ HardLimit(w) PROVE LockInv'
    BY <1>10, ResetStep DEF Ack, Lost, HardLimit
<1>. QED
    BY <1>1, <1>2, <1>3, <1>4, <1>5, <1>6, <1>7, <1>8, <1>9, <1>10, AcquireStep,
       ReleaseStep, LateReleaseStep, TickStep, NextCases DEF WorkerStep

-----------------------------------------------------------------------------
(* What ties the run records to the runs.                                    *)
RecordInv == ReturnedCompleted /\ SucceededMeansRan

(* No step takes a completed run back.                                       *)
LEMMA CompletedGrows ==
    ASSUME [Next]_vars
    PROVE  completed \subseteq completed'
<1>1. CASE UNCHANGED vars
    BY <1>1 DEF vars
<1>2. ASSUME NEW w \in Workers, WorkerStep(w) PROVE completed \subseteq completed'
    BY <1>2 DEF WorkerStep, OnPrerun, Acquire, Decline, Interrupted, Return, Raise,
                Release, OnEnd, Ack, Lost, HardLimit
<1>. QED
    BY <1>1, <1>2, NextCases DEF Publish, OnPublished, Redeliver, Start, LateRelease, Tick

(* A row that turns to "succeeded" does so in OnEnd, of a run that returned.  *)
LEMMA WhoWritesSucceeded ==
    ASSUME TypeOK, WorkersConsistent, [Next]_vars, NEW t \in Tasks, row'[t] = "succeeded"
    PROVE  \/ row[t] = "succeeded"
           \/ \E w \in Workers : phase[w] = "report" /\ task[w] = t /\ result[w] = "returned"
<1>. SUFFICES ASSUME row[t] # "succeeded"
              PROVE  \E w \in Workers : /\ phase[w] = "report" /\ task[w] = t
                                        /\ result[w] = "returned"
    OBVIOUS
<1>1. row' # row
    OBVIOUS
<1>2. ASSUME NEW u, NEW status, Record(u, status)
      PROVE  u = t /\ status = "succeeded"
    BY <1>1, <1>2 DEF Record, TypeOK
<1>3. ASSUME NEW u \in Tasks, OnPublished(u) PROVE FALSE
    BY <1>2, <1>3 DEF OnPublished, PublishedStatus
<1>4. ASSUME NEW w \in Workers, OnPrerun(w) \/ Lost(w) \/ HardLimit(w) PROVE FALSE
    BY <1>1, <1>2, <1>4 DEF OnPrerun, Lost, HardLimit
<1>5. ASSUME NEW w \in Workers, OnEnd(w)
      PROVE  phase[w] = "report" /\ task[w] = t /\ result[w] = "returned"
    <2>1. phase[w] = "report" /\ task[w] = t /\ Reported(result[w]) = "succeeded"
        BY <1>2, <1>5 DEF OnEnd
    <2>2. result[w] \in Results \ {"none"}
        BY <2>1 DEF WorkersConsistent, TypeOK
    <2>3. result[w] # "declined" /\ result[w] # "raised"
        BY <2>1 DEF Reported
    <2>. QED BY <2>1, <2>2, <2>3 DEF Results
<1>6. ASSUME NEW w \in Workers, WorkerStep(w)
      PROVE  OnPrerun(w) \/ Lost(w) \/ HardLimit(w) \/ OnEnd(w)
    BY <1>1, <1>6 DEF WorkerStep, Acquire, Decline, Interrupted, Return, Raise, Release,
                      Ack, records
<1>7. ASSUME NEW u \in Tasks, Publish(u) \/ Redeliver(u) PROVE FALSE
    BY <1>1, <1>7 DEF Publish, Redeliver, records
<1>8. ASSUME NEW w \in Workers, NEW u \in Tasks, Start(w, u) PROVE FALSE
    BY <1>1, <1>8 DEF Start, records
<1>9. ASSUME NEW own \in late, LateRelease(own) PROVE FALSE
    BY <1>1, <1>9 DEF LateRelease, records
<1>10. CASE Tick
    BY <1>1, <1>10 DEF Tick, records
<1>11. CASE UNCHANGED vars
    BY <1>1, <1>11 DEF vars, records
<1>. QED
    BY <1>3, <1>4, <1>5, <1>6, <1>7, <1>8, <1>9, <1>10, <1>11, NextCases

(* A result "returned" is new only in the step that completes the task.      *)
LEMMA WhoReturns ==
    ASSUME TypeOK, WorkersConsistent, [Next]_vars, NEW w \in Workers, result'[w] = "returned"
    PROVE  \/ result[w] = "returned" /\ task'[w] = task[w]
           \/ task'[w] \in completed'
<1>1. CASE UNCHANGED vars
    BY <1>1 DEF vars, worker
<1>2. ASSUME NEW t \in Tasks, Publish(t) \/ OnPublished(t) \/ Redeliver(t)
      PROVE  result[w] = "returned" /\ task'[w] = task[w]
    BY <1>2 DEF Publish, OnPublished, Redeliver, worker
<1>3. ASSUME NEW v \in Workers, NEW t \in Tasks, Start(v, t)
      PROVE  result[w] = "returned" /\ task'[w] = task[w]
    BY <1>3 DEF Start, WorkersConsistent, TypeOK
<1>4. ASSUME NEW v \in Workers, Return(v)
      PROVE  \/ result[w] = "returned" /\ task'[w] = task[w]
             \/ task'[w] \in completed'
    BY <1>4 DEF Return, TypeOK
<1>5. ASSUME NEW v \in Workers,
             \/ OnPrerun(v) \/ Acquire(v) \/ Decline(v) \/ Interrupted(v)
             \/ Raise(v) \/ Release(v) \/ OnEnd(v)
      PROVE  result[w] = "returned" /\ task'[w] = task[w]
    BY <1>5 DEF OnPrerun, Acquire, Decline, Interrupted, Raise, Release, OnEnd, TypeOK
<1>6. ASSUME NEW v \in Workers, Ack(v) \/ Lost(v) \/ HardLimit(v)
      PROVE  result[w] = "returned" /\ task'[w] = task[w]
    BY <1>6 DEF Ack, Lost, HardLimit, Reset, TypeOK
<1>7. ASSUME NEW own \in late, LateRelease(own)
      PROVE  result[w] = "returned" /\ task'[w] = task[w]
    BY <1>7 DEF LateRelease, worker
<1>8. CASE Tick
    BY <1>8 DEF Tick
<1>. QED
    BY <1>1, <1>2, <1>3, <1>4, <1>5, <1>6, <1>7, <1>8, NextCases DEF WorkerStep

LEMMA RecordInductive ==
    ASSUME TypeOK, WorkersConsistent, RecordInv, [Next]_vars
    PROVE  RecordInv'
<1>1. ReturnedCompleted'
    BY WhoReturns, CompletedGrows DEF RecordInv, ReturnedCompleted
<1>2. SucceededMeansRan'
    BY WhoWritesSucceeded, CompletedGrows
       DEF RecordInv, ReturnedCompleted, SucceededMeansRan
<1>. QED
    BY <1>1, <1>2 DEF RecordInv

-----------------------------------------------------------------------------
LEMMA IInvIsItsParts == IInv <=> TypeOK /\ WorkersConsistent /\ LockInv /\ RecordInv
BY DEF IInv, LockInv, RecordInv

LEMMA InitIInv == Init => IInv
BY DEF Init, IInv, TypeOK, WorkersConsistent, KilledInTime, TokensDrawn, HolderOwnsLock,
       OneHolder, ReturnedCompleted, SucceededMeansRan, Holding, Messages, Statuses,
       Phases, Results

(* The inductive invariant holds, whatever is redelivered, killed, lost or   *)
(* late.                                                                     *)
THEOREM Inductive == Spec => []IInv
<1>1. IInv /\ [Next]_vars => IInv'
    BY TypeInductive, ConsistentInductive, LockInductive, RecordInductive, IInvIsItsParts
       DEF IInv, LockInv, RecordInv
<1>. QED
    BY InitIInv, <1>1, PTL DEF Spec

(* Every variable has its type.                                              *)
THEOREM TypeCorrect == Spec => []TypeOK
<1>1. IInv => TypeOK
    BY DEF IInv
<1>. QED
    BY <1>1, Inductive, PTL

(* single_flight: the job has one run at a time, as long as Celery's kill    *)
(* comes less than JOB_LOCK_MARGIN_SECONDS after the time limit.             *)
THEOREM SingleFlight == Spec => []OneRunAtATime
<1>1. IInv => OneRunAtATime
    BY DEF IInv, OneHolder, Holding, OneRunAtATime
<1>. QED
    BY <1>1, Inductive, PTL

(* The run record says "succeeded" only of a task whose function returned.   *)
THEOREM RecordsAreTrue == Spec => []SucceededMeansRan
<1>1. IInv => SucceededMeansRan
    BY DEF IInv
<1>. QED
    BY <1>1, Inductive, PTL

(* Nothing turns a row that is past "queued" back.                           *)
LEMMA RowsMoveOn ==
    ASSUME TypeOK, WorkersConsistent, Next, NEW t \in Tasks, row[t] \notin {"none", "queued"}
    PROVE  row'[t] \notin {"none", "queued"}
<1>1. ASSUME NEW u \in Tasks, OnPublished(u) PROVE row'[t] \notin {"none", "queued"}
    BY <1>1 DEF OnPublished, Record, PublishedStatus, TypeOK
<1>2. ASSUME NEW w \in Workers, OnPrerun(w) \/ Lost(w) \/ HardLimit(w)
      PROVE  row'[t] \notin {"none", "queued"}
    BY <1>2 DEF OnPrerun, Lost, HardLimit, Record, TypeOK
<1>3. ASSUME NEW w \in Workers, OnEnd(w) PROVE row'[t] \notin {"none", "queued"}
    BY <1>3, ReportedIsStatus DEF OnEnd, Record, TypeOK
<1>4. ASSUME NEW w \in Workers,
             \/ Acquire(w) \/ Decline(w) \/ Interrupted(w) \/ Return(w) \/ Raise(w)
             \/ Release(w) \/ Ack(w)
      PROVE  row' = row
    BY <1>4 DEF Acquire, Decline, Interrupted, Return, Raise, Release, Ack, records
<1>5. ASSUME NEW u \in Tasks, Publish(u) \/ Redeliver(u) PROVE row' = row
    BY <1>5 DEF Publish, Redeliver, records
<1>6. ASSUME NEW w \in Workers, NEW u \in Tasks, Start(w, u) PROVE row' = row
    BY <1>6 DEF Start, records
<1>7. ASSUME NEW own \in late, LateRelease(own) PROVE row' = row
    BY <1>7 DEF LateRelease, records
<1>8. CASE Tick
    BY <1>8 DEF Tick, records
<1>. QED
    BY <1>1, <1>2, <1>3, <1>4, <1>5, <1>6, <1>7, <1>8, NextCases DEF WorkerStep

(* The record of a run that started or ended never goes back to "queued".    *)
THEOREM RecordsMoveOn == Spec => QueuedNeverReturns
<1>1. IInv /\ [Next]_vars =>
          [\A t \in Tasks : row[t] \notin {"none", "queued"}
                              => row'[t] \notin {"none", "queued"}]_vars
    BY RowsMoveOn DEF IInv
<1>. QED
    BY <1>1, Inductive, PTL DEF Spec, QueuedNeverReturns
=============================================================================
