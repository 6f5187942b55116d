--------------------------- MODULE GenerationCache ---------------------------
(* One row of the settings (core/settings_service.py), or of the feature     *)
(* flags (core/flags.py, the same scheme), and its entries in the shared     *)
(* cache.  An entry's key names the generation it was filled under; a writer *)
(* bumps the generation inside its transaction and again once it committed.  *)
(*                                                                           *)
(* Values are abstracted to the number of the change that stored them; 0 is  *)
(* the row before the first one.  Writers of one row take turns: the row's   *)
(* lock, or the unique constraint while there is no row.  A write that finds *)
(* nothing to change has no number and bumps nothing.  A process that wrote  *)
(* inside a longer transaction (a data migration, say) may read the row      *)
(* before that transaction ends, and sees its own write.                     *)
EXTENDS Naturals

CONSTANTS
    Procs,     \* the processes that read and write the row
    MaxWrites, \* bound: changes
    MaxGen,    \* bound: generations
    None       \* no generation, or no entry

ASSUME BoundsAssumption == MaxWrites \in Nat /\ MaxGen \in Nat \ {0}

Versions    == 0..MaxWrites
Generations == 1..MaxGen
ASSUME NoneAssumption == None \notin Versions /\ None \notin Generations

VARIABLES
    stored,     \* the committed value
    written,    \* the last change, committed or not
    rolledBack, \* history: the changes that were rolled back
    finished,   \* history: the last change that returned after both bumps
    answered,   \* history: the newest value a write has returned for
    lost,       \* history: the changes whose bump on commit was lost
    generation, \* GENERATION_KEY, None once evicted
    issued,     \* the highest generation so far
    entries,    \* [Generations -> Versions \cup {None}]
    tx,         \* [Procs -> TxPhases]: where its write is
    draft,      \* [Procs -> Versions]: the value it writes
    rd,         \* [Procs -> ReadPhases]: where its read is
    under,      \* [Procs -> Generations \cup {None}]: the generation it read
    seen,       \* [Procs -> Versions]: the value it read from the row
    floor       \* history: `finished` when its read began

returned == <<finished, answered, lost>>
row   == <<stored, written, rolledBack, returned>>
keys  == <<generation, issued>>
write == <<tx, draft>>
read  == <<rd, under, seen, floor>>
vars  == <<row, keys, entries, write, read>>

TxPhases   == {"none", "open", "bumped", "unbumped", "committed"}
Locking    == {"open", "bumped", "unbumped"}
ReadPhases == {"none", "entry", "row", "fill"}

Init ==
    /\ stored = 0 /\ written = 0 /\ rolledBack = {}
    /\ finished = 0 /\ answered = 0 /\ lost = {}
    /\ generation = None /\ issued = 0
    /\ entries = [g \in Generations |-> None]
    /\ tx = [p \in Procs |-> "none"]
    /\ draft = [p \in Procs |-> 0]
    /\ rd = [p \in Procs |-> "none"]
    /\ under = [p \in Procs |-> None]
    /\ seen = [p \in Procs |-> 0]
    /\ floor = [p \in Procs |-> 0]

(* What a process remembers of a read or a write ends with it.               *)
ReadDone(p) ==
    /\ rd' = [rd EXCEPT ![p] = "none"]
    /\ under' = [under EXCEPT ![p] = None]
    /\ seen' = [seen EXCEPT ![p] = 0]
    /\ floor' = [floor EXCEPT ![p] = 0]

WriteDone(p) ==
    /\ tx' = [tx EXCEPT ![p] = "none"]
    /\ draft' = [draft EXCEPT ![p] = 0]

-----------------------------------------------------------------------------
(* The generation.  A missing one restarts at the clock, above every other.  *)

Restart ==
    /\ issued < MaxGen
    /\ generation' = issued + 1
    /\ issued' = issued + 1

MutBumpGeneration == UNCHANGED keys
BumpGeneration == Restart

Evict ==
    /\ generation # None
    /\ generation' = None
    /\ UNCHANGED <<row, issued, entries, write, read>>

-----------------------------------------------------------------------------
(* set_value(), reset(), set_flag() *)

MutUnlocked(p) == TRUE
Unlocked(p) == \A q \in Procs \ {p} : tx[q] \notin Locking

Write(p) ==
    /\ tx[p] = "none" /\ rd[p] = "none"
    /\ Unlocked(p)
    /\ written < MaxWrites
    /\ written' = written + 1
    /\ tx' = [tx EXCEPT ![p] = "open"]
    /\ draft' = [draft EXCEPT ![p] = written + 1]
    /\ UNCHANGED <<stored, rolledBack, returned, keys, entries, read>>

Newest(v, w) == IF v > w THEN v ELSE w

(* The row holds what is asked for already, or reset() finds none: nothing   *)
(* is stored and nothing bumped, whatever became of the bump of the change   *)
(* that did store it.  Where there is no row there is no lock to wait for.   *)
WriteNothing(p) ==
    /\ tx[p] = "none" /\ rd[p] = "none"
    /\ answered' = Newest(answered, stored)
    /\ UNCHANGED <<stored, written, rolledBack, finished, lost, keys, entries, write, read>>

(* _changed(): the bump inside the transaction ...                           *)
BumpInside(p) ==
    /\ tx[p] = "open"
    /\ Restart
    /\ tx' = [tx EXCEPT ![p] = "bumped"]
    /\ UNCHANGED <<row, entries, draft, read>>

(* ... which a failing cache only logs.                                      *)
BumpInsideFails(p) ==
    /\ tx[p] = "open"
    /\ tx' = [tx EXCEPT ![p] = "unbumped"]
    /\ UNCHANGED <<row, keys, entries, draft, read>>

Commit(p) ==
    /\ tx[p] \in {"bumped", "unbumped"} /\ rd[p] = "none"
    /\ stored' = draft[p]
    /\ tx' = [tx EXCEPT ![p] = "committed"]
    /\ UNCHANGED <<written, rolledBack, returned, keys, entries, draft, read>>

Rollback(p) ==
    /\ tx[p] \in Locking
    /\ rolledBack' = rolledBack \cup {draft[p]}
    /\ WriteDone(p) /\ ReadDone(p)
    /\ UNCHANGED <<stored, written, returned, keys, entries>>

(* committed(): the bump after the commit.                                   *)
BumpOnCommit(p) ==
    /\ tx[p] = "committed"
    /\ BumpGeneration
    /\ finished' = Newest(finished, draft[p])
    /\ answered' = Newest(answered, draft[p])
    /\ WriteDone(p)
    /\ UNCHANGED <<stored, written, rolledBack, lost, entries, read>>

(* The cache refuses it, or the process dies before its hook runs.           *)
BumpOnCommitFails(p) ==
    /\ tx[p] = "committed"
    /\ answered' = Newest(answered, draft[p])
    /\ lost' = lost \cup {draft[p]}
    /\ WriteDone(p)
    /\ UNCHANGED <<stored, written, rolledBack, finished, keys, entries, read>>

-----------------------------------------------------------------------------
(* _lookup(), _row() *)

Begin(p, phase, g) ==
    /\ tx[p] \notin {"open", "committed"}
    /\ rd[p] = "none"
    /\ rd' = [rd EXCEPT ![p] = phase]
    /\ under' = [under EXCEPT ![p] = g]
    /\ floor' = [floor EXCEPT ![p] = finished]
    /\ UNCHANGED <<row, entries, write, seen>>

ReadGeneration(p) ==
    \/ generation # None /\ Begin(p, "entry", generation) /\ UNCHANGED keys
    \/ generation = None /\ Begin(p, "entry", issued + 1) /\ Restart

(* No cache: the row is read, and nothing is cached.                         *)
ReadUncached(p) == Begin(p, "row", None) /\ UNCHANGED keys

ReadHit(p) ==
    /\ rd[p] = "entry"
    /\ entries[under[p]] # None
    /\ ReadDone(p)
    /\ UNCHANGED <<row, keys, entries, write>>

ReadMiss(p) ==
    /\ rd[p] = "entry"
    /\ entries[under[p]] = None
    /\ rd' = [rd EXCEPT ![p] = "row"]
    /\ UNCHANGED <<row, keys, entries, write, under, seen, floor>>

(* Read committed, and a transaction's own writes.  A failed read is never   *)
(* cached.                                                                   *)
MutVisible(p) == IF tx[p] \in Locking THEN draft[p] ELSE 0
Visible(p) == IF tx[p] \in Locking THEN draft[p] ELSE stored

ReadRow(p) ==
    /\ rd[p] = "row"
    /\ seen' = [seen EXCEPT ![p] = Visible(p)]
    /\ rd' = [rd EXCEPT ![p] = "fill"]
    /\ UNCHANGED <<row, keys, entries, write, under, floor>>

Fill(p) ==
    /\ rd[p] = "fill"
    /\ entries' = [g \in Generations |-> IF g = under[p] THEN seen[p] ELSE entries[g]]
    /\ ReadDone(p)
    /\ UNCHANGED <<row, keys, write>>

(* The database or the cache fails, or the process dies.                     *)
ReadFails(p) ==
    /\ rd[p] # "none"
    /\ ReadDone(p)
    /\ UNCHANGED <<row, keys, entries, write>>

(* ENTRY_TIMEOUT, or an eviction.                                            *)
EntryExpires(g) ==
    /\ entries[g] # None
    /\ entries' = [entries EXCEPT ![g] = None]
    /\ UNCHANGED <<row, keys, write, read>>

-----------------------------------------------------------------------------
ProcStep(p) ==
    \/ Write(p) \/ WriteNothing(p) \/ BumpInside(p) \/ BumpInsideFails(p) \/ Commit(p)
    \/ Rollback(p) \/ BumpOnCommit(p) \/ BumpOnCommitFails(p)
    \/ ReadGeneration(p) \/ ReadUncached(p) \/ ReadHit(p) \/ ReadMiss(p)
    \/ ReadRow(p) \/ Fill(p) \/ ReadFails(p)

Next ==
    \/ \E p \in Procs : ProcStep(p)
    \/ Evict
    \/ \E g \in Generations : EntryExpires(g)

Spec == Init /\ [][Next]_vars

(* An entry lives for its timeout.                                           *)
FairSpec == Spec /\ \A g \in Generations : WF_vars(EntryExpires(g))
-----------------------------------------------------------------------------
(* Properties                                                                *)

(* Every variable has its type.                                              *)
TypeOK ==
    /\ stored \in Versions /\ written \in Versions /\ rolledBack \subseteq Versions
    /\ finished \in Versions /\ answered \in Versions /\ lost \subseteq Versions
    /\ generation \in Generations \cup {None} /\ issued \in 0..MaxGen
    /\ entries \in [Generations -> Versions \cup {None}]
    /\ tx \in [Procs -> TxPhases] /\ draft \in [Procs -> Versions]
    /\ rd \in [Procs -> ReadPhases] /\ under \in [Procs -> Generations \cup {None}]
    /\ seen \in [Procs -> Versions] /\ floor \in [Procs -> Versions]

Pending(v) == \E p \in Procs : tx[p] = "committed" /\ draft[p] = v

(* The kill switch lands at once on every worker (core/flags.py 12-14): a    *)
(* read that begins after a change has returned with its bump never gets an  *)
(* older value, whatever other readers were filling, from whichever          *)
(* generation, and even if the generation was evicted in between.  That is   *)
(* so of every write that has returned, one that changed nothing included,   *)
(* unless the change that stored its value still has its bump on commit to   *)
(* do or has lost it: no other write can be missed.                          *)
ReadsSeeFinishedWrites ==
    /\ \A p \in Procs :
        /\ rd[p] = "entry" /\ entries[under[p]] # None => entries[under[p]] >= floor[p]
        /\ rd[p] = "fill" => seen[p] >= floor[p]
    /\ answered > finished => answered \in lost \/ Pending(answered)

(* Two writers of one row do not lose a write: what is stored is the newest  *)
(* write that was not rolled back and is not still open.                     *)
NewestWriteIsStored ==
    \A v \in (stored + 1)..written :
        v \in rolledBack \/ \E p \in Procs : tx[p] \in Locking /\ draft[p] = v

(* An overwritten value is not served for ever, even when the bump after the *)
(* commit was lost and a reader still holds the old row; nor is a value that *)
(* was rolled back, which its own transaction may have put into the shared   *)
(* cache and no bump takes out of it.                                        *)
OverwrittenValuesDie ==
    \A v \in Versions :
        stored > v \/ v \in rolledBack ~> [](generation # None => entries[generation] # v)
=============================================================================
