# Formal models of DjangoBaseX

TLA+ modules, TLC configurations and TLAPS proofs kept beside the DjangoBaseX source
(`src/`). The models are of the code as it is: every definition that models code is mapped to the lines it
translates in `PROJECT.json` (`map`).

## 1. Inventory of the system

DjangoBaseX is a Django 5 / DRF backend with Celery workers (`src/backend`) and a Next.js
frontend (`src/frontend`). Its own logic is in three Django apps, `core`, `users` and `rbac`. Everything below runs in
many processes at once: web workers, Celery workers, beat, management commands. They share one PostgreSQL
database (read committed, no `ATOMIC_REQUESTS`), one cache (Redis) and one lock store (Redis).

| Component | State it keeps | Operations | Interacts with | What is hard, and what makes it correct |
|---|---|---|---|---|
| Transactional outbox (`core/outbox`) | `core_outbox` rows (status, attempts, lease token, lease end, backoff) | enqueue, claim, deliver, settle, late result, recover leases, resolve unknown | findings, jobs, providers | workers die after the provider took the message; late results; two workers on one row. An `at_most_once` message is sent once per request; a settled row stays settled; nothing is parked silently; everything enqueued is settled |
| Findings queue (`core/findings.py`) | open and resolved findings | raise_or_touch, clear, resolve | outbox, reconciler | a finding commits with the state change it reports; one open row per (kind, object) |
| Sessions (`users/tokens.py`) | `users_user_session` rows (family, parent, revocation), the liveness cache | issue, rotate, reuse detection, grace reissue, revoke one / a family / a user, liveness check | login, logout, password change, deactivation | rotation races revocation; a reader fills the cache around a revocation. A family has one live tip; revoked means revoked |
| API client (`frontend/src/core/lib/api/client.ts`) | one refresh in flight per tab, the cookie jar | call, refresh, replay, sign out | sessions | many calls meet 401 at once, tabs share cookies: a call acts once, one refresh per tab |
| Settings (`core/settings_service.py`, `settings_registry.py`, `middleware.py`) | setting rows of three scopes, cache entries, the generation, a snapshot per request | resolve, set, reset | every policy reader | scopes are read one by one; readers fill the cache while a writer commits or rolls back. A lock beats an override, a floor holds, nothing is older than a finished write |
| Feature flags (`core/flags.py`) | flag rows, cache entries | is_enabled, set_flag | guards | the caching of settings |
| Permission cache (`rbac/selectors.py`) | cached code sets, the global version | permission_codes_for, bump_version | rbac services, every request | the same race with a version bumped once, before the commit |
| Roles and grants (`rbac/services.py`, `seeding.py`) | roles, grants, assignments, `mfa_enforced`, the permission table | create, update, delete, set grants, assign, revoke, sync the catalog, recompute administrator | users, the permission cache | check-then-act guards on copies read before the transaction |
| Accounts (`users/services/users.py`, `bootstrap_admin`) | users (active, superuser) | create, bootstrap, deactivate, activate, revoke sessions | sessions | last superuser and last administrator under concurrency |
| Invitations (`users/services/invitations.py`) | invitation rows | invite, revoke, accept | accounts, rbac, sessions | revoke and accept at once; an answer is final |
| Passwords (`users/services/passwords.py`) | reset tokens, `password_changed_at` | request, perform, cascade | sessions | locks taken in different orders; a link is used once and dies with the password; every session ends |
| Login, lockout and MFA (`users/services/auth.py`, `lockout.py`, `mfa.py`, `users/mfa.py`) | login attempts, devices, recovery codes, burned nonces | login, verify, enrol, confirm, disable | sessions, lockout | count-then-record races; a code, a step and a token are each good once |
| Locks (`core/locks.py`) | Redis keys with a token and a TTL | acquire, extend, release, advisory lock | jobs | a holder that outlives its TTL; it must not free its successor's lock |
| Jobs (`core/jobs/celery.py`, `runner.py`, `dispatch.py`, `retry.py`, `spec.py`, `topology.py`) | queue messages, the single-flight lock | enqueue on commit, execute, retry, skip | locks, recorder | redelivery, time limits, one run at a time |
| Run recorder (`core/jobs/recorder.py`) | `core_job_run` rows, per-process start and skip tables | nine Celery signal handlers | job health | signals of three processes arrive in any order; upserts race |
| Job health (`core/jobs/health.py`, `doctors.py`) | none (reads runs) | report, doctors | recorder, schedules | a dead worker looks like a quiet system; grace, period and expiry meet |
| Reconcilers (`core/jobs/reconciler.py`) | cursor in `core_job_state` | run, one row at a time | findings, outbox recovery | partial passes, skip-locked rows, rows that never converge |
| Schedules (`core/jobs/schedules.py`) | `PeriodicTask` and `JobSchedule` rows | sync, period and previous firing of a cron | beat, job health | reads at its start, saves whole rows at its end; must not touch rows it does not own |
| Encryption (`core/crypto.py`, `rotate_encryption`) | ciphertexts under a key ring, one copy of the ring per process | encrypt, decrypt, rotate, verify | MFA secrets | a rotation in batches beside concurrent writes; removing a key too early |
| Registry, plugins, contracts, checks (`core/registry.py`, `plugins.py`, `contracts.py`, `checks.py`, `scripts/plugins.py`) | catalogs of one process; the plugins directory | register, seal, validate, export, add, link, remove | all | what is read early is sealed early; registration across catalogs is not atomic; plugins must not collide |
| Configuration surface (`config/settings.py`, `config_audit.py`, `secret_policy.py`, `lookups.py`) | the environment of one process | audit, check | everything that starts | two implementations of the same rules must agree |
| Observability (`core/observability`) | none | health checks, logging, scrubbing | all | what may take an instance out of service |
| Audit (`core/audit.py`, `audit_diff.py`) | activity rows | log_activity, diff, track | everything | an entry commits with its change |
| Retention (`auth_cleanup`, `core/jobs` purge) | none | delete old rows | sessions, attempts, invitations | deletes only what nothing needs any more |
| Throttles (`users/throttles.py`) | cache counters | rate check | login | read-modify-write on the cache |
| Outbox doctor (`core/outbox/doctor.py`) | none | count, advise | outbox | reads only |
| Values (`money.py`, `formatting.py`) | none | arithmetic, allocation, rounding | none | pure functions |
| HTTP surface (views, serializers, urls) | none | one service call per endpoint | all | no state of its own |
| Frontend screens (`frontend/src`) | React state | render, submit | API client | no shared state |

## 2. Modules and plan

The order is by what it costs when it is wrong: a message sent twice, a session that survives its
revocation, a permission or setting served after it was withdrawn, then jobs and accounts, then what starts and keeps
a release running.

| # | Modules | What they model | Runs | State |
|---|---|---|---|---|
| 1 | `Outbox`, `OutboxPromise`, `OutboxProperties`, `OutboxProofs`, `MCOutbox` | the transactional outbox, and its abstract specification | `outbox_safety`, `outbox_liveness` | checked; safety and refinement proved |
| 2 | `Sessions`, `SessionsProperties`, `SessionsProofs`, `MCSessions` | rotation, reuse, revocations, the liveness cache | `access`, `liveness`, `sessions_cache` | checked, safety proved |
| 3 | `GenerationCache`, `PermissionCache`, `CacheProofs`, `MCCaches` | settings and flags (double bump), permissions (single bump) | `caches` | checked, safety proved |
| 4 | `JobRuns`, `JobRunsProperties`, `JobRunsProofs` | single flight with a TTL, Celery's delivery and time limits, the run recorder | `jobs` | checked, safety proved |
| 5 | `SignIn`, `SignInProperties`, `SignInProofs`, `MCSignIn` | lockout, TOTP, recovery codes, login tokens | `sign_in` | checked and proved |
| 6 | `Access`, `AccessProofs`, `Accounts`, `AccountsProofs`, `MCAccess` | roles, grants, activation; invitations and reset links | `access` | checked and proved |
| 7 | `Client`, `MCClient`, `AccountsProofs` | the browser's transport, with two tabs | `access`, `two_tabs` | checked and proved |
| 8 | `SettingTypes`, `Resolution`, `StartupProofs` | which value of a setting a request works with | `startup` | checked and proved |
| 9 | `Registry`, `Configuration`, `Startup`, `StartupProperties`, `Plugins`, `MCStartup`, `StartupProofs` | a process boots; plugins come and go | `startup` | checked and proved |
| 10 | `Periods`, `Schedules`, `MCPeriods`, `MCSchedules`, `StartupProofs` | when a cron is due; the sync of the schedule rows | `startup`, `previous_fire`, `toggle` | checked; the sync proved, and the clock of daily crons |
| 11 | `JobHealth`, `Health`, `JobHealthProperties`, `StartupProofs` | the health report beside a worker and a beat that stop and start | `startup` | checked and proved |
| 12 | `Encryption`, `StartupProofs` | key rotation | `startup` | checked and proved |
| 13 | `Reconciler`, `MCLiveness` | the reconciler's loop | `liveness` | checked |

**One run, several parts.** `MCAccess`, `MCCaches`, `MCLiveness` and `MCStartup` each put parts that share no variable into one run: the
variable `focus` says which part a behaviour is about, and the others stand still. Every behaviour of a part alone is a
behaviour of the run, and nothing is lost by not mixing parts that never read each other's state.
The theorems are about the parts (`Rbac!Spec`, `Acc!Spec`, `Perm!Spec`, `Sched!Spec`, ...), and the three theorems
`EveryRunIsABehaviour` prove that every behaviour of `MCCaches`, of `MCAccess` and of `MCStartup` is one of the parts proved about: what
is proved of a part holds in the run, and the run tests what is proved.

**Next.** Proofs: that crons with other even gaps meet `JobsAssumption`, as those that fire once a day do. Models: retention
against reuse detection and the lockout, and the retry delays of jobs.

**Proofs.** Each proof module starts with its inductive invariant, a conjunction of named parts, each with a comment that says what it is. Then
come what the data and the actions do, one lemma per part or one step per action, and at the end the theorems. The invariants were run through TLC on the
instances of the runs before they were proved. The assumptions about constants are named where the constants are declared
and TLC evaluates them in the passing runs: bounds are naturals, and a "none" value is none of the values.

## 3. How the models read the code

**One action per atomic step of the code.** A database transaction that holds its row's lock from its
first read to its commit is one action. Where the code reads, and then writes in another statement,
transaction or store, the steps are separate actions and everything else interleaves between them.
**PostgreSQL at read committed.** A statement sees what is committed; an `UPDATE` waits for the row's
lock and re-checks its `WHERE` on the newest version; a transaction's own writes become visible at
its commit; any transaction may be aborted. `transaction.on_commit` hooks run after the commit and are
lost if the process dies in between.
**Time** is not a number (but in sections 8, 12 and 13). That a lease, a TTL, an idle lifetime, a backoff or a grace window has
passed is a free choice wherever the code asks, so the safety results hold for every configuration and every clock skew.
**Data** is kept only as far as the code decides on it: a message is a model value, a setting's value in the cache is
the number of the write that stored it, a declaration is a record of the fields that a rule compares.
**History variables** are marked `history` where they are declared. They remember what the properties compare; no guard of an action
that models code reads them, except the bounds on `resends`.
**`Mut...` operators** next to a definition are the plausible bug of that definition (a dropped lock, a
missing status check). No action uses them; `PROJECT.json` (`mutants`) says which property each one breaks.
**Bounds** are constants named `Max...` (or marked `bound`) that only guard what would otherwise count without end.
**Deadlock** is not checked where the system may stop: requests, calls and clocks are finite in `MCAccess`, `MCClient`, `MCPeriods` and
`MCStartup` (where a refused boot ends the process, too), and a settled outbox rests.

## 4. The outbox

`Outbox` models `core/outbox` (`service.py`, `outcome.py`, `recovery.py`, `jobs.py`), with `core/findings.py` as the outbox uses it.

| Code | Model |
|---|---|
| `OutboxMessage` row: `status`, `attempts`, `max_attempts`, `next_attempt_at`, `leased_until`, `locked_by` | `row[m]`; the two times are the Booleans `due` and `expired`, the n-th random lease token is the number n |
| `enqueue()` in a committed business transaction | `Enqueue`. A rollback and a repeated `dedupe_key` leave everything as it was |
| `claim()` | `Claim`: the lease is committed before anything is sent |
| `deliver()`, the handler, the provider | `ProviderAccepts` (external) and `Deliver`, which applies `Converted`, the `except` clauses of `deliver()` |
| `settle()` | `SettleHeld`, `SettleLost`: the compare-and-set on status and token |
| `_late()` | `Late` |
| `recover_leases`, `LeaseRecovery` | `Recover`, one row re-read under its lock |
| `resolve_unknown()` | `MarkSent`, `Resend` |
| `findings.raise_or_touch`, `clear`, `resolve` | `open[m]`, inside the row's transaction, and `Dismiss` |
| a killed worker, a failed database call | `Crash`, in every phase |

Not modelled: unregistered topics (enqueue refuses them), the batch size and time budget of a drain (a
drain is any number of claims), payload scrubbing, and the doctor, which only reads.
The handler of an `at_most_once` topic is assumed to return RETRY, FAILED or SKIPPED only when the provider
did not take the message; exceptions say nothing. That is the contract of `core/outbox/outcome.py`.

**What is checked.** `outbox_safety`: two messages, one of each delivery semantics, two workers, two
attempts, one resend. Two workers are what it takes for a lost lease to be claimed again while the
first worker is still sending; two attempts separate "exhausted" from "first failure"; one resend
separates requests. It also checks `KeepsPromise`, that the outbox implements `OutboxPromise` under the refinement mapping
in `OutboxProperties` (a lease is invisible, a parked row is "asked" or "dead").
`outbox_liveness`: two messages behind one worker that may die in every attempt.

**Fairness.** Celery's hard `time_limit` ends or kills a handler (`Deliver \/ Crash`, and the steps after it).
Beat schedules the drain every 30 s and the recovery every 120 s for ever, so a stale lease is
recovered (weak) and a row that is due again and again is claimed (strong: `claim()` takes rows in `next_attempt_at` order, so a row
does not lose to newer ones for ever). Time passes (`BackoffElapses`, `LeaseExpires`). Neither the
provider's acceptance nor a human's decision is fair.

**What is proved.** `OutboxProofs` proves, for any sets of messages and workers, any delivery semantics and any
bounds: type correctness, `AtMostOncePerRequest`, `WrittenOffWasNotSent`, `AttemptsBounded`, `FindingsFollowRows`,
`SettledIsFinal` and `ParkedIsReported`. None but the last is inductive. `IInv` adds:
- `WorkersConsistent`, `TokensIssued`: a busy worker has a claim; tokens and requests in claims and acceptances are ones
  the row has issued, and a token names one claim;
- `ClaimsCurrent`: while the lease holds, the attempt numbers the worker copied at claim time are the row's own
  (so `settle()` may decide on the copies, although a resend moves the cap of a row it does not hold);
- `SpentOnce`: a request is spent by exactly one claim that may still be accepted or has been. A row nobody
  holds has an unspent current request, a leased row's request is its holder's, and a
  worker that answered "not sent" had nothing accepted.

`SpentOnce` carries `AtMostOncePerRequest`: recovery never returns an `at_most_once` row to retry, so the only way to a second claim
is a resend, which starts a new request. The proof goes
by action: facts about what one action changes, a classification of steps seen from one row
(`RowSteps`) and from one message's acceptances (`AcceptSteps`), then one lemma per conjunct. The
assumptions are those of `Outbox`: `AtLeastOnce` is a set of messages, the bounds are naturals, `NoClaim` is not a claim.

`OutboxKeepsPromise` is the refinement: every step of the outbox is a step of `OutboxPromise` or none. The promise counts the
provider's acceptances of a message, which is a cardinality here: `PromiseInv` adds to `IInv` that there are finitely many, that a worker which is still sending has none under its
token, so that an acceptance adds one, and that a message nobody enqueued has no resends. The liveness properties are model-checked only.

**Worth knowing.** `core/outbox/doctor.py:78-79` advises to "resend or dismiss each" for failed messages, while `resolve_unknown()`
accepts only `unknown` rows: a failed one can only be dismissed. `core/models.py:434-438` says every
transition is a compare-and-set; recovery is a locked re-read and save, which has the same effect.

## 5. Sessions

`Sessions` models `users/tokens.py` and the services that revoke sessions, for one user. A family's n-th row is `<<family, n>>`: a rotation
derives the successor's identity from its parent, so the second of two racing rotations would collide.

| Code | Model |
|---|---|
| `auth.login`, `issue_pair`, `_enforce_session_cap` | `Login`, `Insert`, `EnforceCap`: three commits. The insert's foreign key waits while the user's row is locked FOR UPDATE |
| `rotate` | `Present` (the session's lock), then, with the user's lock too, one of `RotateNothing`, `RotateReuse`, `RotateLapsed`, `RotateRow`, and `Commit` |
| `revoke`, `_revoke_rows`, `_forget` | `Logout`, `UpdateRows` (re-checks `revoked_at`), `Forget` (the cache delete, before the commit when in a transaction) |
| `revoke_family`, `revoke_all_for_user`, `users.deactivate`, `passwords.perform_reset`, `users.revoke_sessions` | `RotateReuse`, `RevokeOthers`, `Deactivate`, `PerformReset`, `RevokeSessions`, with `ListAll` where the list is read after the user's row was locked |
| `session_is_live` | `ReadRow`, `Fill`; the TTL is `CacheExpires` |

`rotate()` selects the session with `select_related("user")` FOR UPDATE, which locks both rows: the order of the locks and who waits for whom is what the
properties depend on. A deadlock between two transactions is resolved by PostgreSQL aborting one (`Abort`).
Not modelled: the guards of deactivation (last superuser, oneself), which do not read sessions; password
changes from the shell or the admin, which run outside a transaction; expiry as time (free choice).

**What is checked.** `access`: two logins of two rows each, two processes, a cap of one, one password change. Two families are
what the cap and sign-out-everywhere need, two rows per family a rotation, two
processes every race of two operations. `liveness`: one reader with a fill in flight, three rows.
The only fairness is that a cached answer expires; revocations and readers owe nothing.

**What is proved.** `SessionsProofs` proves all four safety properties and type correctness for any families, processes, cap and bounds. `BoundsAssumption`: a family
has room for a row, the cap is positive. `NoSidAssumption`: `NoSid` is no session. None is inductive alone. `IInv` adds:
- `LocksExclusive`, `RowsLocked`: who holds the user's row and who holds which session; a row that was read under its
  lock is still live, so the tip a rotation replaces is the tip;
- `SweepsSeeFamilies`: a sweep that holds the user's row has every live row of its families in its list, or in what it is about to
  revoke. That is what a rotation which waits for the user's row cannot spoil, and what a sweep without it (`revoke_all_for_user`) lacks;
- `PasswordSweepsSeeAll`, `RotationsAreRecent`: while a password change holds the user's row no login inserts one, and a rotation that goes ahead
  is of a login newer than the last change;
- `RootsComeFirst`, `ClosedHaveRoots`: a family starts with its first row, so a closed one is not started again.

**What the documentation says.** `sessions_cache` refutes a sentence of it: a reader that read the row before the revocation fills the cache after the
revocation deleted the answer; the revoked session then works until the TTL passes. `RevocationTakesHold` shows that it ends.

**Worth knowing.** `revoke_all_for_user` lists the sessions without the user's lock when it is called to sign out everywhere else, so a refresh
in flight commits a successor that the list lacks. The sweeps that hold the lock do close the
families: `ClosedFamiliesStayClosed`. The session cap is not exact under concurrency and nothing is claimed of it.

## 6. Settings and feature flags

**Which value** (`SettingTypes`, `Resolution`). `SettingTypes` is `core/settings_registry.py`: a JSON value is a record whose one field is
its Python type, so that `"false"`, `TRUE` and `1` are three things, and `Coerces` (a write: shape and bounds) differs from
`Readable` and `ReadAs` (a read: shape, then clamped). `Resolution` is `resolve_setting()` and its writers.

| Code | Model |
|---|---|
| rows of the three scopes, left by any release | `rows`, any of `RowsAt` at first |
| `set_value()`, `reset()` by another process; by the request itself, in its open transaction | `Write`; `WriteOwn`, `Commit`, `Rollback` |
| `resolve_setting()` | `Resolve`, then `LookUp` or `LookUpFails` per scope, `Finish` |
| `memo_key` and the snapshot of `SettingsSnapshotMiddleware` | `MemoKey`, `snapshot`, `NextRequest` |

`startup` checks it with one setting of each of six types, rows within the bounds, out of them and of another type, and two writes: one of the request's
own and one of somebody else's. `SettingsMeanWhatTheySay`: unless something interferes, a request works with what the documented
order of scopes says at that moment; a lock that is there all through the read beats the override, whoever writes and whatever fails
elsewhere; every value read is within the bounds of this release; a user's value is nobody else's; and what a write accepts, a read gives back.
Not modelled: text given on the command line, free-form JSON settings, the settings screen.

**What is proved.** `StartupProofs` proves `SettingsMeanWhatTheySay` for any declarations, rows and numbers, and any number of writes.
`ValuesAssumption` is what `SettingDef.problems()` demands before it registers a declaration: scopes that exist, and a default of its own type, within its own
bounds. It adds two things. A number has both its bounds, where the code also allows one or none (a missing bound is one that is never reached). And the bounds
of a setting whose default is `None` are in order, which the registry does not check: if no value lay between them, no read could keep them. `ValuesInv` says what a read in flight is worth. A lock that was there when the read began is still to be looked up, so the read will meet it
(`LockIsAhead`): that is why the platform comes first though it counts last. As long as nobody interferes, the scopes behind the
read had nothing usable but for an unlocked platform row, which the read has kept (`SeesEachScope`), so the next usable one is the one of the documented
order. And what is remembered was read from some row or from the default (`AnswersAreRead`), from which the floors follow by a lemma about clamping
(`ReadWithinBounds`).

**How old it may be** (`GenerationCache`). One row of `core/settings_service.py` and its cached entries; `core/flags.py` follows the same scheme. Keys of entries carry
a generation; a write bumps it inside its transaction (`BumpInside`) and again after the commit
(`BumpOnCommit`). A missing generation restarts at the clock, above every earlier one (`Restart`). Every cache call may
fail, which the code only logs (`BumpInsideFails`, `BumpOnCommitFails`), and every process may die.
`set_value`, `reset` and `set_flag` are `Write`, or `WriteNothing` when the row holds what is asked for already (or `reset` finds none): they return without any bump
(`settings_service.py:312`, `340`, `flags.py:175`). `_lookup` and `_row` are `ReadGeneration`, `ReadHit`, `ReadMiss`, `ReadRow` and `Fill`.

`caches`: two processes, two writes, three generations. A third generation is what a late fill under the first one and a
writer's second bump need; two processes are a writer and the reader that races it, or two writers.
`ReadsSeeFinishedWrites` is the promise of the kill switch, as far as the code keeps it: once a change has returned with its bump, no read that starts later gets an
older value. Other writes that have returned, such as one that changed nothing, may be missed, but only while the change that stored their value has
its bump on commit still to do, or has lost it. `OverwrittenValuesDie` covers what this leaves out: an old value that a lost bump leaves in the cache, and a value that
its own transaction put there before it was rolled back. The only fairness is that entries expire (`ENTRY_TIMEOUT`).

**What is proved.** `CacheProofs` proves `ReadsSeeFinishedWrites` and `NewestWriteIsStored` for any processes and any number of writes and generations
(`BoundsAssumption`, `NoneAssumption`). `IInv` is built on one idea: a generation has a floor, the newest change that had returned with its bump when the generation
was last bumped. All readers under one generation have the same floor (`FloorsFollowGenerations`), no entry is
older than it (`EntriesFollowGenerations`), and no reader or entry has a generation that was not issued yet (`GenerationsFresh`), which is why a
restart must be above all earlier ones. `WritesInOrder` is the row's lock: a later commit is of a later write.
`BumpsAccounted` says what may be missed: if the stored value, or the newest one that a write has returned for, is newer than every change that finished with its bump,
then the change that stored it has its bump on commit to do, or has lost it.
`OverwrittenValuesDie` (liveness) is model-checked only.

**Worth knowing.** A kill switch that is set again, because the first attempt seems to have no effect, changes nothing and so bumps nothing: if the first write's bump on commit
was lost and a reader has cached the older value, that one is served until it expires. The bump inside the transaction does not make the writer read its own write: another
process may fill the new generation with the committed value first. `middleware.py:30` says that "a request that
reads a key twice never sees an admin's save land halfway through it"; the snapshot's key has the user in it, so a read for the user and a read for the platform
may differ. After a rolled-back write the snapshot keeps the value that was never committed. A platform row whose lookup fails
cannot lock: the user's override is used. Celery jobs have no snapshot.

## 7. Permission cache

`PermissionCache` models `rbac/selectors.py` and the transactions of `rbac/services.py` that bump its version. There is one
bump, inside the transaction. `caches` checks two overlapping changes and a reader with a late fill: what the cache serves lacks only changes
that were between their bump and their commit (`OnlyChangesInFlightAreMissed`, while the counter
has not been evicted), and with an evicted counter, which restarts at 1 by a read and a set, stale codes still die with their TTL
(`OverwrittenGrantsDie`). Readers here are other processes than writers; the fairness is the TTL alone.

`CacheProofs` proves `OnlyChangesInFlightAreMissed` for any readers, writers, changes and versions (`PermAssumption`). `PermInv` adds that until
the counter is evicted it only counts up: no entry or reader has a version that is still to come, and what a reader is about to fill under the current version
is no older than the version's last bump (`VersionsCountUp`). `OverwrittenGrantsDie` is model-checked only.

**Worth knowing.** The single bump has a price: a reader between bump and commit caches the old codes under the new
version, and a revoked permission is honoured until `TTL_SECONDS` passes.

## 8. Jobs, their lock and their run records

`JobRuns` models one registered job that is `idempotent` and `single_flight`: the task that `register_task()`
generates, its lock (`core/locks.py`), and the status of its run records (`core/jobs/recorder.py`).

| Code | Model |
|---|---|
| `enqueue()` or beat | `Publish`; a rollback publishes nothing |
| `on_published`, `on_prerun`, `on_success` and `on_failure` | `OnPublished` at any time after the publish, `OnPrerun`, `OnEnd`. Each may be dropped by `guarded` |
| `single_flight()`, `RedisStore` | `Acquire`, `Decline` (the lock is held, the store is down, or it set the key and the answer was lost), `Interrupted` (a soft limit before the try block), `Release`, `LateRelease` |
| `execute()` | `Return`, `Raise` |
| Celery and its broker (external) | `Start`, `Ack`, `Redeliver`, `Lost`, `HardLimit` |
| the clock, Redis expiry | `Tick` |

Time is a number here, because the lock's safety is a race between two clocks: the key expires `TimeLimit + Margin` after it was
set, and Celery kills the process at most `Slack` after the limit. The only assumption is `Slack < Margin`, the reason
for `JOB_LOCK_MARGIN_SECONDS`.

`jobs`: one message, delivered up to three times to two processes, limits of 1, 2 and 1 units. Two processes and a
redelivery are what two runs at once take; a third delivery is the one that meets a late release of the first. More messages add no
new kind of step, since messages meet only at the lock. Fairness: the clock goes on and the hard limit is enforced
(`HardLimit`, `Tick`); nothing else owes a step.

`JobRunsProofs` proves `OneRunAtATime`, `SucceededMeansRan`, `QueuedNeverReturns` and type correctness for any
tasks, processes and limits. `OneRunAtATime` is not inductive: `IInv` adds that a process inside the job owns the key
(`HolderOwnsLock`), with what is left of the key plus the run's age at least the ttl, so that
the key cannot expire under a process that Celery still lets live (`KilledInTime`); and that a release under way names nobody's token
(`TokensDrawn`), so it frees nobody's lock.

**Worth knowing.** Two deliveries share one task id, so they share a row: a redelivered run that finds the lock taken writes "skipped" over the
row of the run that is going or has just succeeded. The reverse lie, "succeeded" of a run that did not return, does not happen.

## 9. Signing in with a second step

`SignIn` models the login of one user: the password step (`users/services/auth.py`), the code step and the enrolment of TOTP devices
(`users/services/mfa.py`), the lockout (`lockout.py`) and the login token (`users/tokens.py`). A process serves one request at a time.

| Code | Model |
|---|---|
| `login()` | `Login`, then `BadPassword`, `Challenge` (a confirmed device: answer with a token) or `NoSecondStep` |
| `read_mfa_token()`, `is_locked()` in `verify_login()` | `ReadToken`, `CheckLock`; each is a read of its own |
| `_accept_totp()` under the devices' locks, `_accept_recovery_code()` | `AcceptTotp`, `RefuseTotp`; `AcceptRecoveryCode`, `RefuseCode` |
| `burn_mfa_token()`, `issue_pair()`, `_record()` | `BurnToken`, `IssuePair`, `RecordSuccess`, `RecordFailure` |
| `begin_setup()` | `BeginSetup` (before its transaction), `ReplacePending`, `CreateDevice` |
| `confirm_setup()`, `disable()` | `ConfirmSetup` and `CommitConfirm`, `Disable` and `CommitDisable` |
| an exception, a killed process | `Abort` |
| `MfaDevice`, `MfaRecoveryCode` rows; row locks | `device`, `last`, `recovery`; `doomed`, `claimed` |
| the counted failures of `is_locked()` | `failures`; `AgeOut` when some leave the window or the lock ends |

A code is a record of its device and time step, or a recovery code (one per enrolment stands for the ten), or a wrong code: six-digit codes that
coincide by chance are not modelled, nor is the lock of an IP address. A user may present any code at any time, one they read
before their device was confirmed included. `BurnExpires` assumes that a request takes less than the 60 s by which
the cache entry outlives its token, and that the cache keeps the entry that long; without the latter a token could be used again, with a
fresh code.

`sign_in`: two processes, one token, two devices, two time steps, a threshold of two. Two processes are two requests with one code or
one token, or a code step beside an enrolment; two devices are an enrolment that replaces another; two steps
separate a replay from the next code; a threshold of two is crossed by one request while another is between check and record.
No fairness: nothing in it is promised to happen.

`SignInProofs` proves all its properties for any processes, tokens, devices, steps and threshold. `IInv` adds:
- `RowsLocked`: a device that a transaction is about to confirm or delete is as it was read, and no other transaction's.
  The confirmed device was therefore pending, and never had a code accepted;
- `LastUsed`, `RecoverySpent`: every accepted step is at or before `last_used_timestep`, an accepted recovery code is not left;
- `BurnsBind`: a token that opened a session is burned, or expired and in nobody's hands; a process about to open a session is the only one that found its token unburned;
- `GuessesBounded`: recorded failures and the processes between check and record together fit the
  threshold, by counting processes when one passes the check (`FiniteSetTheorems`).

**Worth knowing.** `begin_setup()` asks for a confirmed device before its transaction. If a confirmation commits in between, the user has a pending device beside the
confirmed one and may confirm both, although `AUTH_BLUEPRINT.md:999` says "One confirmed device per user". Codes of either are then good, each once.

## 10. Roles, accounts, invitations and reset links

`Access` models `rbac/services.py`, `rbac/seeding.py` and the guards of `users/services/users.py`. A request is `Load` (the view reads the rows), one action for the
service's body (`AssignRole`, `SetGrants`, `Deactivate`, ...), and the commit that its kind has (`CommitRoles`, `CommitGrants`, `CommitActivation`) or
`Abort`. The migration hooks are `SyncCatalog`, `EnsureSystemRoles` and `RecomputeAdministrator`. `Accounts` models `bootstrap_admin`,
`create_user()`, `invitations.py` and `passwords.py`. A reset by link is one transaction that takes its locks one after the other (`LockLink`, `LockUser`, `Cascade`). The
admin site's change of a password is none: Django's view opens no transaction and `ATOMIC_REQUESTS` is off, so it loads the user (`AdminLoads`), `User.save()` commits the whole
row (`AdminSaves`), and `on_password_changed` ends the sessions (`AdminEndsSessions`) and expires the links (`AdminExpiresLinks`) in commits of their own.

`access` runs them with two requests at once, two accounts, one role beside the administrator role and one code; two addresses, two invitations, two links.
Two requests are one that decides on a copy and one that changes what was copied. `EnforcementIsDerived`, `GrantsAreAsAsked` and `ASuperuserRemains`
say what holds and name the overlap they except: the history variables `disturbed`, `edited` and `raced` are set only when another commit on the same
data fell between a request's load and its own commit. `AnswersAreFinal` excepts nothing. `LinksDieWithThePassword` is about the links that a change has used or expired: those of a reset from its commit on, those of the
admin's change from the end of its cascade on.
A role that is created is another row than a deleted one of its name, while role identities are few here: `CommitGrants` makes one anew only when no
request in flight is about the old one.

**What is proved.** `AccessProofs` proves the three properties of `Access` for any users, roles, codes and processes, from
`AccessAssumption`: the first superuser is a user, and administrator is none of the other roles. `AccessInv` says of every request in flight what its decisions rest on
(`RequestOK`): as long as no commit has overlapped it, the copies it loaded are what the rows say (`CopyIsFresh`), and what its open
transaction will write makes the derived data right (`WritesFit`): the enforcement that follows from the roles after it, the difference between the asked and the
stored grants, another superuser who stays. `HoldersHaveRoles` and `OverlapsAreInFlight` keep the histories about rows and requests there are.

`AccountsProofs` proves `AnswersAreFinal` and `LinksDieWithThePassword` for any addresses, invitations, links and processes. `AccountsInv` says that one
transaction holds a user's row at a time (`UserLocksExclusive`), that a link which a change of its account's password has used or expired is
used or dead (`StaleLinksAreSpent`), and that a transaction which holds both its link and its user goes ahead with a link that was not overtaken
(`ChangesAreInTime`). The last is the reason for the second look at the link: the order in which the two locks are taken differs between the callers.

**Worth knowing.** The exceptions are real. Two superusers who deactivate each other at once both succeed; two assignments to one user
at once may leave `mfa_enforced` wrong until the next change; two editors of one role leave a mixture of their grants. A stale
`update_role` save re-creates a role that was deleted meanwhile. The admin site's edit of `is_active` passes by all guards. Between the commit of the admin's new
password and the end of its cascade a reset link may still set another one (its cascade then expires the other links), and for good if the process dies in between: nothing
retries the cascade. The admin's form saves the user as it was loaded, so it undoes a deactivation that was committed meanwhile.

## 11. The browser's client

`Client` models `frontend/src/core/lib/api/client.ts` with the cookies (`users/cookies.py`), the authentication class and the rotation of
`tokens.py` behind it. Messages are in flight for any time, may be lost, and arrive after their sender gave up.

| Code | Model |
|---|---|
| `send()`, `sendWithRetry()` | `MakeCall`, `GetAnswer`, `CallFails` |
| `refreshOnce()`, `refreshing` | `Shared`, `asking`, `GetRefresh`, `RefreshFails` |
| `CookieJWTAuthentication`, `RefreshView` with `rotate()` | `ServeCall`, `ServeRefresh` |
| the browser's cookie jar | `jar`, changed before the script sees an answer |

`access`: two tabs, a logout and two calls, three session rows. `ClientIsSound`: the API acts on a call at most once whatever is lost or late, each
tab has one refresh in flight and no call waits for one nobody sent, and a login is taken for stolen only if refreshes of two tabs, or one that was given up,
crossed. `AccountsProofs` proves `ClientIsSound` for any tabs, calls and session rows (`NamesAssumption`: a call is of one tab, and calls, tabs and `Nobody` have different names).
`BrowserInv` says what a call's state means for the wire: at most one message of a call or of a tab's refresh is in flight, a call was sent as
often as its state says, and one that the API acted on has nothing on the way that could make it act again (`CallsConsistent`); a call that waits has a
tab that asks (`TabsConsistent`); and until something crosses, the jar is at most one row behind the tip and a refresh on the way carries the jar's
token (`RefreshesInOrder`), which is within the grace of `rotate()`.
`two_tabs` shows that refreshes may cross: on a network that loses nothing, a tab that refreshes twice while the other's refresh is
on its way leaves that one two rows behind, and the login is revoked as reused, although `settings.py:316` says
"Two tabs refreshing at once is ordinary use, not theft".

**Worth knowing.** A late 401 in one tab starts a second rotation that ends the access token a replay runs under: that caller is told 401
though the user is signed in. A late failing refresh clears the cookies of a newer login of another tab. A logout that
carries the access token of a row rotated meanwhile revokes nothing. `client.ts:8-9` says that logout
bypasses the 401 handling; `NO_REFRESH` (`client.ts:26`) lacks it and `signOut()` passes no `noAuthRetry`.

## 12. Schedules

`Periods` is the arithmetic of `core/jobs/schedules.py`: expanding a cron, its firings, its period and `previous_fire()`, over moments that
are slots of a day (bounds: four slots a day, months of 30 days). `Schedules` is `sync_schedules()`: it reads every owned row at its start (`ReadOwned`),
decides job by job on that copy (`Keep`, `Update`, `NoConflict` then `Create`, `Conflict`), deletes and commits. Operators switch,
make and delete rows in between; a second sync may run; rows written and not committed are locked.

`startup`: two interchangeable syncs of two releases, of which the second changes one job and drops the other, two rows. `SyncKeepsItsWord`: a row an operator made
is never touched, whatever name it has; a sync during which nobody else wrote leaves the next one nothing to do.
`previous_fire` compares `previous_fire()` with its definition for five crons on every moment of 34 days: it searches the
shortest gap plus two days, and with a cron on Monday and Tuesday there is no firing in that window from Friday on. It raises, and with it the
health report of every job. `StartupProofs` proves `SyncKeepsItsWord` for any jobs, releases and concurrent syncs and any number of rows (`RowsAssumption`: `NoRow` is neither a row nor an id).
`SyncInv` says whose a row is: committed as a job's, as a sync read it, or as a sync has made it, it is that job's for ever, and never one that an
operator made (`ClaimsAgree`); what a sync has made and not committed nobody else has read (`Private`); and a sync writes only rows of its own, as its registry has them
(`InHandInv`, `WritesItsOwn`). The second half of the property needs what a sync knows that has been alone since it began:
it has read what is there, and the jobs behind it are in order, written or in conflict (`Settling`). The arithmetic of `Periods` is proved for crons that fire once a day (section 13), and
model-checked for others. `toggle`: an operator switches a job off between the sync's read and its `save()` of the whole row, and it is on again.

**Worth knowing.** `save()` re-inserts a row that was deleted meanwhile; nobody owns it, and every later sync reports a conflict.

## 13. Job health

`JobHealth` is `core/jobs/health.py` and the doctors, over the run rows that a beat and a worker leave while either stops, starts, falls behind or fails
a job. `Health` is the report's ladder (`core/observability/health.py`, `core/dataplane.py`, `core/doctors.py`). Time is a slot of `Periods`.

`startup`: an interval job of two slots and a daily cron, two days, two upsets (stop, failure, switch, long run). Two upsets stop the worker
and hide it behind something else. `MonitorIsRight`: a worker that has stopped is told of within the periods the code grants, although
nothing fails and beat may have stopped too (`Deadline`: for a job that has run, its first firing after the stop and the grace, or three
periods of an interval; for one that never ran, a period and the grace); while all goes well nothing is reported; the jobs probe alone never
takes an instance out of service, and a doctor's finding is an exit code.

**What is proved.** `StartupProofs` proves `MonitorIsRight` for any jobs, queues, thresholds, number of upsets and length of time, from `JobsAssumption`: intervals
are positive and an offset is within its interval; of a cron, what `previous_fire()` answers at a moment and beat's next firing are the same series
(`GoesByFirings`), and the first firing is at most `period_seconds()` away when the row is made. `JobsInv`: nothing starts after the worker has stopped
(`StoppedMeansStopped`), so the starts that the report looks at are from before; and while nothing goes wrong a job is due exactly when beat's next
firing says, and runs in the slot in which it is due (`AllIsWell`), so that at no moment is a firing behind it that it did not run for. `PlainSchedulesWillDo` proves the
assumption for the schedules that the code has, intervals and crons that fire once a day (`users/jobs.py`): the firings of such a
cron are a slot on every day (`DailyFires`), their shortest gap is a day (`DailyPeriod`), and a window of three days has
the latest one (`DailyClock`).

**Worth knowing.** The assumption fails for crons with uneven gaps. One half is the finding of section 12. The other: `doctors.py:159` takes the
shortest gap for the period, so a job on work days whose row is made on a Friday evening is reported as never run on Sunday,
before its first firing on Monday. A cron whose period is no longer than the stall threshold is never overdue, and an overdue one reads as on time for the grace
after each firing. A message published into a quiet queue is "no recent consumer" until it is taken. Runs that were
skipped count as starts; a container killed in mid-run leaves "started" rows.

## 14. Reconcilers

`Reconciler` is the loop of `core/jobs/reconciler.py`: `Start` reads a batch after the cursor, `ReadAgain` takes a row's lock or passes it over, `Fixed`,
`Drift` then `RaiseFinding`, or `Skip`, then `SaveCursor`, and `Finish` resets the cursor after a full pass. Rows come to need it, converge, are held
by others, findings are dismissed; the run stops early, meets its limit or dies.

`liveness`: three rows, a batch of one, rows 1 and 2 never converge, two upsets. A batch smaller than the rows that never converge is what
starves the third, without the cursor. `EveryRowIsServed`: every row that needs attention is fixed, converges or has a finding in the end.
Fairness: beat starts run after run and a run goes on (`RunStep`); a transaction that holds a row ends (`LetGo`). Upsets are bounded, since a row
that is held at every pass is served at none.

**Worth knowing.** A reconciler that is not resumable, with more drifting rows than `batch_size`, starves the later rows. The
finding of a drift is recorded after the row's lock is let go.

## 15. Encryption

`Encryption` is the key ring of `core/crypto.py`, one copy per process, the operator's procedure (prepend, deploy, rotate, verify, remove, deploy), and
`rotate_encryption`, whose scan reads all tokens in one query (`Rotate`, `Scan`) and writes them a batch later (`Flush`), beside `Enrol` and `Delete`.
A ciphertext is the key it was made under. `startup`: two web processes, three keys, three rows, batches of two, one of the first rows possibly unreadable.
Two processes are one that has the new ring and one that has not; three keys are a rotation after a rotation. `SecretsStayReadable`: no secret is
locked out by a key that the procedure removes, whatever is enrolled or deleted meanwhile and wherever the command dies, and no deleted secret comes back.

`StartupProofs` proves it for any processes, keys, rows and batches. `KeysInv` adds that what any process encrypts with, the configured ring can decrypt
(`WritersAreReadable`), and that while the answer of `--verify` stands, no row is under an older key and no process can write one
(`VerifiedMeansClean`): verification is worth something only because the new ring is deployed everywhere before it.

**Worth knowing.** While a prepended key is being deployed, old processes cannot read rows that new ones wrote. `--verify --purpose P` says
"safe to remove the older keys" after a look at one purpose only; the model verifies all.

## 16. A process boots

`Registry` has every catalog of `core/registry.py` with the rules that relate declarations: owners, reserved prefixes, duplicates, the seal that the
first read sets, and a reconciler that enters three catalogs one after the other (`StartReconciler`, `EnterJob`, `EnterKind`, `EnterSpec`). That a job's messages expire within its period is refused
here for an interval (`JobOk`); a cron's period is known to a system check only (`JobsError`).
`Configuration` has the rules on the environment twice, as the code has: the audit that refuses to import the settings
(`config_audit.py`) and the system checks (`checks.py`). `Startup` composes them: `ImportSettings`, `Ready` for one declaration after another, `RunChecks` (only
under `manage.py`), late registrations and early reads by other threads, and the export of `contracts.py`. `Plugins` is the plugins directory under
`scripts/plugins.py` and submodules that come and go.

`startup`: environments that differ from a sound one in the variables the rules read, singly and, for the keys and secrets, in
combination; plans of declarations: the sound ones of an app with and without a plugin, and each unsound or unusual one after the sound ones and in pairs.
Two declarations are enough for every rule that relates declarations. `BootServesWhole`: a process that serves has all that was declared,
never a reconciler without its job and its finding kind, nor a menu with unknown permissions. `TwinsAgree`: servers and workers never run the checks, so
what the checks of keys and cache refuse in production the audit must refuse, too. `ContractsIgnorePlugins`: the exported files are those
of a process without plugins. `TablesApart`: no table could belong to two installed plugins.

**What is proved.** `StartupProofs` proves `BootServesWhole` and `TwinsAgree` for every plan of declarations (the constants `Plans` and `Late`; `StartupAssumption`: each has a catalog)
and every environment, and `TablesApart` for any labels (`Label`, words over any letters) and any words after the prefix.
`BootInv`: what is before the rest of the plan has been entered, or is being entered (`PlanFollowed`); the job, the kind and the spec of a reconciler are there from their step on
(`ReconcilersWhole`); once the menu is sealed nothing in it is undeclared (`MenuKnown`), since the seal stops both catalogs; and a process past its settings
was accepted by the audit (`Audited`), from which `TwinsAgree` follows by comparing the rules (`AuditCoversTwins`).
`TablesApart` is a fact about words: of two prefixes that continue to the same word one begins the other, so the
pairwise look at prefixes is enough.
`ContractsIgnorePlugins` is proved for any plugins whose declarations stay in their lanes (`InTheirLanes`: modules and route prefixes are the plugin's own, which is
what `registration_problems()` in `tests/architecture/plugin_rules.py` demands of installed plugins) and any schemas in which a name is one schema and an
app's paths have all that they refer to (`SchemasWhole`). `ContractsInv`: a `manage.py` command that serves has sealed every catalog and enters no reconciler
(`CheckedIsSealed`), so what it rendered stays what it would render; and every declaration is where its owner's go
(`CatalogsKept`). The prune is stated as what it computes, the fewest components with nothing dangling, and needs no induction: the boilerplate's own
schemas are closed, so they are enough whatever plugins add, and the part of any closed set that is the boilerplate's is closed among its own
(`SameComponents`).

**Worth knowing.** `settings.py:74` says that the check E015 refuses a `memory://` broker when production-like; web and worker processes
do not run checks, and the audit has no such rule. A reconciler whose finding kind is refused leaves its job registered. Reserved
labels are compared whole: a plugin named `core_job` has table names that begin like core's.

## 17. What is only model-checked, and what is not modelled

Proved, for every value of the constants: what sections 4 to 13, 15 and 16 list, which is every invariant and every action property of the
passing runs. Model-checked only, on the instances above:

| Property | Why it is not proved |
|---|---|
| `EventuallySettled`, `HeldLockIsFreed`, `RevocationTakesHold`, `OverwrittenValuesDie`, `OverwrittenGrantsDie`, `EveryRowIsServed` | liveness: depends on fairness and `ENABLED`, which the prover does not handle |
| `Periods`, but for crons that fire once a day | a cron's expansion is a computation on data, and "the last firing before" a search |

The proofs rest on the models, so what a model leaves out (sections 4 to 16, and below) no theorem covers.

| Part | Why it has no module |
|---|---|
| Outbox doctor, health of the probes' I/O | reads and prints |
| Audit, log formatting, scrubbing, formatting, wording | string processing; what is promised is about text |
| Retention | deletes by age; dates are free choices in these models, so "too early" cannot be told |
| Throttles | a library's counter on the cache, with configured rates |
| Flag targeting, money, lookups | pure functions that unit tests reach |
| HTTP endpoints and serializers | one service call each; what the client does with their answers is in section 11 |
| Frontend screens | rendering and per-page state |
| Advisory locks, the in-process lock store, `extend()` | no job uses them |
| The lock of an IP address, the growth of lock times | the query of the account lock with another threshold |
