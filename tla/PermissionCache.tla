--------------------------- MODULE PermissionCache ---------------------------
(* One user's permission codes (rbac/selectors.py) and the version that      *)
(* rbac.services bumps inside the transaction of every grant, role or        *)
(* assignment change.                                                        *)
(*                                                                           *)
(* A code set is abstracted to the number of the change that last made it,   *)
(* in the order in which the changes commit.  Changes of different rows      *)
(* overlap freely: no lock is common to them.                                *)
EXTENDS Naturals

CONSTANTS
    Writers,      \* the processes that change grants
    Readers,      \* the processes that authorize requests
    MaxChanges,   \* bound: committed changes
    MaxVersion,   \* bound: the version counter
    MaxEvictions, \* bound: evictions of VERSION_KEY
    None          \* no version, or no entry

BoundsAssumption ==
    MaxChanges \in Nat /\ MaxVersion \in Nat \ {0, 1} /\ MaxEvictions \in Nat

Codes    == 0..MaxChanges
Versions == 1..MaxVersion
NoneAssumption == None \notin Codes /\ None \notin Versions

VARIABLES
    stored,    \* the codes the committed rows give
    version,   \* VERSION_KEY, None once evicted
    evictions, \* evictions so far
    entries,   \* [Versions -> Codes \cup {None}]: the user's cached codes
    tx,        \* [Writers -> TxPhases]
    next,      \* [Writers -> Versions]: the version it restarts the counter at
    rd,        \* [Readers -> {"none", "entry", "row", "fill"}]
    under,     \* [Readers -> Versions \cup {None}]: the version it read
    seen,      \* [Readers -> Codes]: the codes it read from the rows
    base       \* history: the codes stored when the version was last bumped

writing == <<stored, tx, next, base>>
keys    == <<version, evictions>>
reading == <<rd, under, seen>>
vars    == <<writing, keys, entries, reading>>

TxPhases == {"none", "open", "restart", "set", "bumped"}

(* A request has already set the counter.                                    *)
Init ==
    /\ stored = 0 /\ base = 0
    /\ version = 1 /\ evictions = 0
    /\ entries = [v \in Versions |-> None]
    /\ tx = [w \in Writers |-> "none"]
    /\ next = [w \in Writers |-> 1]
    /\ rd = [r \in Readers |-> "none"]
    /\ under = [r \in Readers |-> None]
    /\ seen = [r \in Readers |-> 0]

-----------------------------------------------------------------------------
(* rbac.services *)

Move(w, phase) == tx' = [tx EXCEPT ![w] = phase]

Change(w) ==
    /\ tx[w] = "none"
    /\ Move(w, "open")
    /\ UNCHANGED <<stored, next, base, keys, entries, reading>>

(* current_version() starts an evicted counter at 1.                         *)
CurrentVersion == IF version = None THEN 1 ELSE version

(* bump_version(): INCR, or, when the counter was evicted, current_version() *)
(* and then SET.                                                             *)
BumpVersion(w) ==
    /\ tx[w] = "open"
    /\ version # None /\ version < MaxVersion
    /\ version' = version + 1
    /\ base' = stored
    /\ Move(w, "bumped")
    /\ UNCHANGED <<stored, next, evictions, entries, reading>>

BumpEvicted(w) ==
    /\ tx[w] = "open"
    /\ version = None
    /\ Move(w, "restart")
    /\ UNCHANGED <<stored, next, base, keys, entries, reading>>

ReadForRestart(w) ==
    /\ tx[w] = "restart"
    /\ CurrentVersion < MaxVersion
    /\ version' = CurrentVersion
    /\ next' = [next EXCEPT ![w] = CurrentVersion + 1]
    /\ Move(w, "set")
    /\ UNCHANGED <<stored, base, evictions, entries, reading>>

SetVersion(w) ==
    /\ tx[w] = "set"
    /\ version' = next[w]
    /\ base' = stored
    /\ next' = [next EXCEPT ![w] = 1]
    /\ Move(w, "bumped")
    /\ UNCHANGED <<stored, evictions, entries, reading>>

Commit(w) ==
    /\ tx[w] = "bumped"
    /\ stored < MaxChanges
    /\ stored' = stored + 1
    /\ Move(w, "none")
    /\ UNCHANGED <<next, base, keys, entries, reading>>

Rollback(w) ==
    /\ tx[w] # "none"
    /\ next' = [next EXCEPT ![w] = 1]
    /\ Move(w, "none")
    /\ UNCHANGED <<stored, base, keys, entries, reading>>

Evict ==
    /\ version # None
    /\ evictions < MaxEvictions
    /\ version' = None
    /\ evictions' = evictions + 1
    /\ UNCHANGED <<writing, entries, reading>>

-----------------------------------------------------------------------------
(* permission_codes_for() *)

ReadDone(r) ==
    /\ rd' = [rd EXCEPT ![r] = "none"]
    /\ under' = [under EXCEPT ![r] = None]
    /\ seen' = [seen EXCEPT ![r] = 0]

ReadVersion(r) ==
    /\ rd[r] = "none"
    /\ version' = CurrentVersion
    /\ rd' = [rd EXCEPT ![r] = "entry"]
    /\ under' = [under EXCEPT ![r] = CurrentVersion]
    /\ UNCHANGED <<writing, evictions, entries, seen>>

ReadHit(r) ==
    /\ rd[r] = "entry"
    /\ entries[under[r]] # None
    /\ ReadDone(r)
    /\ UNCHANGED <<writing, keys, entries>>

ReadMiss(r) ==
    /\ rd[r] = "entry"
    /\ entries[under[r]] = None
    /\ rd' = [rd EXCEPT ![r] = "row"]
    /\ UNCHANGED <<writing, keys, entries, under, seen>>

MutVisible == 0
Visible == stored

ReadRow(r) ==
    /\ rd[r] = "row"
    /\ seen' = [seen EXCEPT ![r] = Visible]
    /\ rd' = [rd EXCEPT ![r] = "fill"]
    /\ UNCHANGED <<writing, keys, entries, under>>

MutKey(r) == CurrentVersion
Key(r) == under[r]

Fill(r) ==
    /\ rd[r] = "fill"
    /\ entries' = [entries EXCEPT ![Key(r)] = seen[r]]
    /\ ReadDone(r)
    /\ UNCHANGED <<writing, keys>>

(* The request fails or its process dies.                                    *)
GiveUp(r) ==
    /\ rd[r] # "none"
    /\ ReadDone(r)
    /\ UNCHANGED <<writing, keys, entries>>

(* TTL_SECONDS, or an eviction.                                              *)
EntryExpires(v) ==
    /\ entries[v] # None
    /\ entries' = [entries EXCEPT ![v] = None]
    /\ UNCHANGED <<writing, keys, reading>>

-----------------------------------------------------------------------------
WriterStep(w) ==
    \/ Change(w) \/ BumpVersion(w) \/ BumpEvicted(w) \/ ReadForRestart(w) \/ SetVersion(w)
    \/ Commit(w) \/ Rollback(w)

ReaderStep(r) ==
    \/ ReadVersion(r) \/ ReadHit(r) \/ ReadMiss(r) \/ ReadRow(r) \/ Fill(r) \/ GiveUp(r)

Next ==
    \/ \E w \in Writers : WriterStep(w)
    \/ \E r \in Readers : ReaderStep(r)
    \/ Evict
    \/ \E v \in Versions : EntryExpires(v)

Spec == Init /\ [][Next]_vars

(* An entry lives for its TTL.                                               *)
FairSpec == Spec /\ \A v \in Versions : WF_vars(EntryExpires(v))
-----------------------------------------------------------------------------
(* Properties                                                                *)

(* Every variable has its type.                                              *)
TypeOK ==
    /\ stored \in Codes /\ base \in Codes
    /\ version \in Versions \cup {None} /\ evictions \in 0..MaxEvictions
    /\ entries \in [Versions -> Codes \cup {None}]
    /\ tx \in [Writers -> TxPhases] /\ next \in [Writers -> Versions]
    /\ rd \in [Readers -> {"none", "entry", "row", "fill"}]
    /\ under \in [Readers -> Versions \cup {None}]
    /\ seen \in [Readers -> Codes]

(* While the version is not evicted, what the cache answers under it lacks   *)
(* none of the changes that were committed before its last bump: only a      *)
(* change that was between its bump and its commit can be missing, although  *)
(* a reader may fill the cache long after it read the rows.                  *)
OnlyChangesInFlightAreMissed ==
    evictions = 0 /\ version # None /\ entries[version] # None
        => entries[version] >= base

(* Codes that were taken away are not granted for ever: an overwritten code  *)
(* set stops being served for good, even after the version was evicted and   *)
(* counts through numbers it has used before.                                *)
OverwrittenGrantsDie ==
    \A c \in Codes : stored > c ~> [](version # None => entries[version] # c)
=============================================================================
