----------------------------- MODULE CacheProofs -----------------------------
(* The inductive invariants of the two caches, and the properties that       *)
(* follow, for any processes, values, generations and versions: the settings *)
(* and flags (Spec), and the permission codes (Perm!Spec).                   *)
EXTENDS MCCaches, TLAPS

USE BoundsAssumption, NoneAssumption DEF row, returned, keys, write, read

-----------------------------------------------------------------------------
(* Settings and flags: the inductive invariant *)

(* Writers take turns, so a later commit is of a later write.                *)
WritesInOrder ==
    /\ finished <= stored /\ stored <= written
    /\ \A p \in Procs :
        /\ tx[p] \in Locking => draft[p] = written /\ stored < written
        /\ tx[p] = "committed" => draft[p] <= stored
        /\ \A q \in Procs \ {p} : ~(tx[p] \in Locking /\ tx[q] \in Locking)

(* What is stored, and what a write was answered for, has had its bump on    *)
(* commit, is about to have it, or has lost it.                              *)
Vouched(v) == v > finished => v \in lost \/ Pending(v)
BumpsAccounted == Vouched(stored) /\ Vouched(answered)

(* A generation is above every one a key or a reader has.                    *)
GenerationsFresh ==
    /\ generation # None => generation = issued
    /\ \A g \in Generations : g > issued => entries[g] = None
    /\ \A p \in Procs : under[p] # None => under[p] <= issued

ReadsConsistent ==
    \A p \in Procs :
        /\ rd[p] = "none" => under[p] = None
        /\ rd[p] = "entry" => under[p] # None
        /\ floor[p] <= finished
        /\ rd[p] = "fill" => seen[p] >= floor[p]

(* `finished` moves with the generation: a generation has one floor, and the *)
(* current one's is `finished`.                                              *)
FloorsFollowGenerations ==
    \A p \in Procs : under[p] # None =>
        /\ under[p] = issued => floor[p] = finished
        /\ \A q \in Procs : under[q] = under[p] => floor[q] = floor[p]

(* No entry is older than the floor of its generation.                       *)
EntriesFollowGenerations ==
    \A g \in Generations : entries[g] # None =>
        /\ g = issued => entries[g] >= finished
        /\ \A p \in Procs : under[p] = g => entries[g] >= floor[p]

IInv ==
    /\ TypeOK /\ WritesInOrder /\ NewestWriteIsStored /\ BumpsAccounted
    /\ GenerationsFresh /\ ReadsConsistent
    /\ FloorsFollowGenerations /\ EntriesFollowGenerations

-----------------------------------------------------------------------------
(* Settings and flags: typing *)

LEMMA NextCases ==
    ASSUME [Next]_vars
    PROVE  \/ UNCHANGED vars
           \/ \E p \in Procs : ProcStep(p)
           \/ Evict
           \/ \E g \in Generations : EntryExpires(g)
BY DEF Next

LEMMA ReadDoneTyped ==
    ASSUME TypeOK, NEW p \in Procs, ReadDone(p)
    PROVE  /\ rd' \in [Procs -> ReadPhases] /\ under' \in [Procs -> Generations \cup {None}]
           /\ seen' \in [Procs -> Versions] /\ floor' \in [Procs -> Versions]
           /\ rd'[p] = "none" /\ under'[p] = None /\ seen'[p] = 0 /\ floor'[p] = 0
           /\ \A q \in Procs \ {p} : /\ rd'[q] = rd[q] /\ under'[q] = under[q]
                                     /\ seen'[q] = seen[q] /\ floor'[q] = floor[q]
BY DEF TypeOK, ReadDone, ReadPhases, Versions

LEMMA WriteDoneTyped ==
    ASSUME TypeOK, NEW p \in Procs, WriteDone(p)
    PROVE  /\ tx' \in [Procs -> TxPhases] /\ draft' \in [Procs -> Versions]
           /\ tx'[p] = "none" /\ draft'[p] = 0
           /\ \A q \in Procs \ {p} : tx'[q] = tx[q] /\ draft'[q] = draft[q]
BY DEF TypeOK, WriteDone, TxPhases, Versions

LEMMA RestartTyped ==
    ASSUME TypeOK, Restart
    PROVE  /\ generation' = issued + 1 /\ issued' = issued + 1
           /\ issued' \in Generations /\ issued' \in 0..MaxGen /\ None # issued'
BY DEF TypeOK, Restart, Generations

LEMMA BeginTyped ==
    ASSUME TypeOK, NEW p \in Procs, NEW phase \in ReadPhases, NEW g \in Generations \cup {None},
           Begin(p, phase, g)
    PROVE  /\ rd' \in [Procs -> ReadPhases] /\ under' \in [Procs -> Generations \cup {None}]
           /\ floor' \in [Procs -> Versions] /\ UNCHANGED <<row, entries, write, seen>>
           /\ rd[p] = "none" /\ rd'[p] = phase /\ under'[p] = g /\ floor'[p] = finished
           /\ \A q \in Procs \ {p} : rd'[q] = rd[q] /\ under'[q] = under[q] /\ floor'[q] = floor[q]
BY DEF TypeOK, Begin

(* A read begins under the current generation, a new one, or none.           *)
LEMMA ReadBegins ==
    ASSUME TypeOK, NEW p \in Procs, ReadGeneration(p) \/ ReadUncached(p)
    PROVE  \/ Begin(p, "entry", generation) /\ generation \in Generations /\ UNCHANGED keys
           \/ Begin(p, "entry", issued + 1) /\ Restart
           \/ Begin(p, "row", None) /\ UNCHANGED keys
BY DEF TypeOK, ReadGeneration, ReadUncached

LEMMA VisibleTyped ==
    ASSUME TypeOK, NEW p \in Procs
    PROVE  Visible(p) \in Versions
BY DEF TypeOK, Visible

(* Every step keeps the types.                                               *)
LEMMA TypeInductive ==
    ASSUME TypeOK, [Next]_vars
    PROVE  TypeOK'
<1>1. CASE UNCHANGED vars
    BY <1>1 DEF vars, TypeOK
<1>2. ASSUME NEW p \in Procs, ProcStep(p) PROVE TypeOK'
    <2>1. CASE Write(p)
        BY <2>1 DEF Write, TypeOK, TxPhases, Versions
    <2>12. CASE WriteNothing(p)
        BY <2>12 DEF WriteNothing, Newest, TypeOK
    <2>2. CASE BumpInside(p) \/ BumpInsideFails(p)
        BY <2>2, RestartTyped DEF BumpInside, BumpInsideFails, TypeOK, TxPhases
    <2>3. CASE Commit(p)
        BY <2>3 DEF Commit, TypeOK, TxPhases
    <2>4. CASE Rollback(p)
        <3>1. rolledBack' \subseteq Versions
            BY <2>4 DEF Rollback, TypeOK
        <3>. QED BY <2>4, <3>1, WriteDoneTyped, ReadDoneTyped DEF Rollback, TypeOK
    <2>5. CASE BumpOnCommit(p)
        <3>1. finished' \in Versions /\ answered' \in Versions
            BY <2>5 DEF BumpOnCommit, Newest, TypeOK
        <3>. QED BY <2>5, <3>1, WriteDoneTyped, RestartTyped
                 DEF BumpOnCommit, BumpGeneration, TypeOK
    <2>6. CASE BumpOnCommitFails(p)
        <3>1. answered' \in Versions /\ lost' \subseteq Versions
            BY <2>6 DEF BumpOnCommitFails, Newest, TypeOK
        <3>. QED BY <2>6, <3>1, WriteDoneTyped DEF BumpOnCommitFails, TypeOK
    <2>7. CASE ReadGeneration(p) \/ ReadUncached(p)
        <3>1. "entry" \in ReadPhases /\ "row" \in ReadPhases
            BY DEF ReadPhases
        <3>2. CASE Begin(p, "entry", generation) /\ generation \in Generations /\ UNCHANGED keys
            BY <3>1, <3>2, BeginTyped DEF TypeOK
        <3>3. CASE Begin(p, "entry", issued + 1) /\ Restart
            BY <3>1, <3>3, BeginTyped, RestartTyped DEF TypeOK
        <3>4. CASE Begin(p, "row", None) /\ UNCHANGED keys
            BY <3>1, <3>4, BeginTyped DEF TypeOK
        <3>. QED BY <2>7, <3>2, <3>3, <3>4, ReadBegins
    <2>8. CASE ReadHit(p) \/ ReadFails(p)
        BY <2>8, ReadDoneTyped DEF ReadHit, ReadFails, TypeOK
    <2>9. CASE ReadMiss(p)
        BY <2>9 DEF ReadMiss, TypeOK, ReadPhases
    <2>10. CASE ReadRow(p)
        BY <2>10, VisibleTyped DEF ReadRow, TypeOK, ReadPhases
    <2>11. CASE Fill(p)
        BY <2>11, ReadDoneTyped DEF Fill, TypeOK
    <2>. QED BY <1>2, <2>1, <2>2, <2>3, <2>4, <2>5, <2>6, <2>7, <2>8, <2>9, <2>10, <2>11,
                <2>12
             DEF ProcStep
<1>3. CASE Evict
    BY <1>3 DEF Evict, TypeOK
<1>4. CASE \E g \in Generations : EntryExpires(g)
    BY <1>4 DEF EntryExpires, TypeOK
<1>. QED BY <1>1, <1>2, <1>3, <1>4, NextCases

-----------------------------------------------------------------------------
(* Settings and flags: writes *)

(* The steps that are not part of a write leave the writes alone.            *)
LEMMA WriteCases ==
    ASSUME TypeOK, [Next]_vars
    PROVE  \/ UNCHANGED <<row, write>>
           \/ \E p \in Procs : \/ Write(p) \/ WriteNothing(p) \/ BumpInside(p) \/ BumpInsideFails(p)
                              \/ Commit(p) \/ Rollback(p) \/ BumpOnCommit(p) \/ BumpOnCommitFails(p)
<1>1. ASSUME NEW p \in Procs, ReadGeneration(p) \/ ReadUncached(p) PROVE UNCHANGED <<row, write>>
    BY <1>1, ReadBegins DEF Begin
<1>2. ASSUME NEW p \in Procs,
             ReadHit(p) \/ ReadMiss(p) \/ ReadRow(p) \/ Fill(p) \/ ReadFails(p)
      PROVE  UNCHANGED <<row, write>>
    BY <1>2 DEF ReadHit, ReadMiss, ReadRow, Fill, ReadFails
<1>. QED BY <1>1, <1>2, NextCases DEF vars, ProcStep, Evict, EntryExpires

(* A committed write is newer than those committed before, and none is lost. *)
LEMMA WritesInductive ==
    ASSUME TypeOK, WritesInOrder, NewestWriteIsStored, [Next]_vars
    PROVE  WritesInOrder' /\ NewestWriteIsStored'
<1>. USE DEF WritesInOrder, NewestWriteIsStored, Locking
<1>1. CASE UNCHANGED <<row, write>>
    BY <1>1
<1>2. ASSUME NEW p \in Procs, Write(p) PROVE WritesInOrder' /\ NewestWriteIsStored'
    <2>1. \A q \in Procs : tx[q] \notin Locking
        BY <1>2 DEF Write, Unlocked
    <2>2. WritesInOrder'
        BY <1>2, <2>1 DEF Write, TypeOK, Versions
    <2>3. ASSUME NEW v \in (stored' + 1)..written', v \notin rolledBack'
          PROVE  tx'[p] \in Locking /\ draft'[p] = v
        BY <1>2, <2>1, <2>3 DEF Write, TypeOK, Versions
    <2>. QED BY <2>2, <2>3
<1>3. ASSUME NEW p \in Procs, BumpInside(p) \/ BumpInsideFails(p)
      PROVE  WritesInOrder' /\ NewestWriteIsStored'
    <2>1. /\ UNCHANGED <<row, draft>> /\ tx[p] \in Locking /\ tx'[p] \in Locking
          /\ \A q \in Procs \ {p} : tx'[q] = tx[q]
        BY <1>3 DEF BumpInside, BumpInsideFails, TypeOK
    <2>. QED BY <2>1
<1>4. ASSUME NEW p \in Procs, Commit(p) PROVE WritesInOrder' /\ NewestWriteIsStored'
    <2>1. /\ draft[p] = written /\ stored < written /\ stored' = written
          /\ UNCHANGED <<written, rolledBack, finished, draft>>
          /\ tx'[p] = "committed" /\ \A q \in Procs \ {p} : tx'[q] = tx[q] /\ tx[q] \notin Locking
        BY <1>4 DEF Commit, TypeOK
    <2>. QED BY <2>1 DEF TypeOK, Versions
<1>5. ASSUME NEW p \in Procs, Rollback(p) PROVE WritesInOrder' /\ NewestWriteIsStored'
    <2>1. /\ UNCHANGED <<stored, written, finished>> /\ rolledBack' = rolledBack \cup {draft[p]}
          /\ tx'[p] = "none" /\ \A q \in Procs \ {p} : tx'[q] = tx[q] /\ draft'[q] = draft[q]
        BY <1>5, WriteDoneTyped DEF Rollback
    <2>. QED BY <2>1 DEF TypeOK, Versions
<1>6. ASSUME NEW p \in Procs, BumpOnCommit(p) \/ BumpOnCommitFails(p)
      PROVE  WritesInOrder' /\ NewestWriteIsStored'
    <2>1. /\ UNCHANGED <<stored, written, rolledBack>> /\ tx[p] = "committed"
          /\ tx'[p] = "none" /\ \A q \in Procs \ {p} : tx'[q] = tx[q] /\ draft'[q] = draft[q]
        BY <1>6, WriteDoneTyped DEF BumpOnCommit, BumpOnCommitFails
    <2>2. finished' \in {finished, draft[p]}
        BY <1>6 DEF BumpOnCommit, BumpOnCommitFails, Newest
    <2>. QED BY <2>1, <2>2 DEF TypeOK, Versions
<1>7. ASSUME NEW p \in Procs, WriteNothing(p) PROVE WritesInOrder' /\ NewestWriteIsStored'
    <2>1. UNCHANGED <<stored, written, rolledBack, finished, tx, draft>>
        BY <1>7 DEF WriteNothing
    <2>. QED BY <2>1
<1>. QED BY <1>1, <1>2, <1>3, <1>4, <1>5, <1>6, <1>7, WriteCases

(* A write that changes nothing is answered for what is stored, so whether   *)
(* reads see that is up to the bump of the change it repeats.                *)
LEMMA BumpsInductive ==
    ASSUME TypeOK, WritesInOrder, BumpsAccounted, [Next]_vars
    PROVE  BumpsAccounted'
<1>. USE DEF BumpsAccounted, Vouched, Pending
<1>1. CASE UNCHANGED <<row, write>>
    BY <1>1
<1>2. ASSUME NEW p \in Procs,
             Write(p) \/ BumpInside(p) \/ BumpInsideFails(p) \/ Rollback(p)
      PROVE  BumpsAccounted'
    <2>1. /\ UNCHANGED <<stored, returned>> /\ tx[p] # "committed"
          /\ \A q \in Procs \ {p} : tx'[q] = tx[q] /\ draft'[q] = draft[q]
        BY <1>2, WriteDoneTyped DEF Write, BumpInside, BumpInsideFails, Rollback, Locking, TypeOK
    <2>. QED BY <2>1
<1>3. ASSUME NEW p \in Procs, Commit(p) PROVE BumpsAccounted'
    <2>1. /\ tx[p] # "committed" /\ tx'[p] = "committed" /\ stored' = draft[p]
          /\ \A q \in Procs \ {p} : tx'[q] = tx[q]
          /\ UNCHANGED <<draft, returned>>
        BY <1>3 DEF Commit, TypeOK
    <2>. QED BY <2>1
<1>4. ASSUME NEW p \in Procs, BumpOnCommit(p) PROVE BumpsAccounted'
    <2>1. /\ UNCHANGED <<stored, lost>>
          /\ \A q \in Procs \ {p} : tx'[q] = tx[q] /\ draft'[q] = draft[q]
        BY <1>4, WriteDoneTyped DEF BumpOnCommit
    <2>2. finished' >= finished /\ finished' >= draft[p] /\ answered' \in {answered, draft[p]}
        BY <1>4 DEF BumpOnCommit, Newest, TypeOK, Versions
    <2>3. finished \in Nat /\ finished' \in Nat /\ draft[p] \in Nat /\ stored \in Nat /\ answered \in Nat
        BY <1>4 DEF BumpOnCommit, Newest, TypeOK, Versions
    <2>. QED BY <2>1, <2>2, <2>3
<1>5. ASSUME NEW p \in Procs, BumpOnCommitFails(p) PROVE BumpsAccounted'
    <2>1. /\ UNCHANGED <<stored, finished>> /\ lost' = lost \cup {draft[p]}
          /\ answered' \in {answered, draft[p]}
          /\ \A q \in Procs \ {p} : tx'[q] = tx[q] /\ draft'[q] = draft[q]
        BY <1>5, WriteDoneTyped DEF BumpOnCommitFails, Newest
    <2>. QED BY <2>1
<1>6. ASSUME NEW p \in Procs, WriteNothing(p) PROVE BumpsAccounted'
    <2>1. UNCHANGED <<stored, finished, lost, tx, draft>> /\ answered' \in {answered, stored}
        BY <1>6 DEF WriteNothing, Newest
    <2>. QED BY <2>1
<1>. QED BY <1>1, <1>2, <1>3, <1>4, <1>5, <1>6, WriteCases

-----------------------------------------------------------------------------
(* Settings and flags: reads *)

(* What the reads depend on changes in one of these ways.                    *)
LEMMA ReadCases ==
    ASSUME TypeOK, [Next]_vars
    PROVE  \/ UNCHANGED <<finished, issued, entries, read>> /\ generation' \in {generation, None}
           \/ Restart /\ UNCHANGED <<finished, entries, read>>
           \/ \E p \in Procs : \/ BumpOnCommit(p) \/ Fill(p) \/ ReadMiss(p) \/ ReadRow(p)
                              \/ ReadGeneration(p) \/ ReadUncached(p)
           \/ \E p \in Procs : ReadDone(p) /\ UNCHANGED <<finished, keys, entries>>
           \/ (\E g \in Generations : EntryExpires(g)) /\ UNCHANGED <<finished, keys, read>>
<1>1. ASSUME NEW p \in Procs,
             Write(p) \/ WriteNothing(p) \/ BumpInsideFails(p) \/ Commit(p) \/ BumpOnCommitFails(p)
      PROVE  UNCHANGED <<finished, keys, entries, read>>
    BY <1>1 DEF Write, WriteNothing, BumpInsideFails, Commit, BumpOnCommitFails
<1>2. ASSUME NEW p \in Procs, BumpInside(p) PROVE Restart /\ UNCHANGED <<finished, entries, read>>
    BY <1>2 DEF BumpInside
<1>3. ASSUME NEW p \in Procs, Rollback(p) \/ ReadHit(p) \/ ReadFails(p)
      PROVE  ReadDone(p) /\ UNCHANGED <<finished, keys, entries>>
    BY <1>3 DEF Rollback, ReadHit, ReadFails
<1>4. CASE Evict
    BY <1>4 DEF Evict
<1>5. CASE \E g \in Generations : EntryExpires(g)
    BY <1>5 DEF EntryExpires
<1>6. CASE UNCHANGED vars
    BY <1>6 DEF vars
<1>. QED BY <1>1, <1>2, <1>3, <1>4, <1>5, <1>6, NextCases DEF ProcStep

(* The part of the invariant about reads.                                    *)
ReadInv == /\ GenerationsFresh /\ ReadsConsistent
           /\ FloorsFollowGenerations /\ EntriesFollowGenerations

LEMMA GenerationFacts ==
    /\ \A v \in Versions : v \in Nat
    /\ \A g \in Generations : g \in Nat /\ g # None /\ g >= 1
    /\ \A i \in 0..MaxGen : i \in Nat
BY DEF Versions, Generations

(* A new generation has no reader and no entry, so any floor suits it.       *)
LEMMA RestartReads ==
    ASSUME TypeOK, TypeOK', ReadInv, Restart, UNCHANGED <<entries, read>>, finished' >= finished
    PROVE  ReadInv'
<1>1. generation' = issued + 1 /\ issued' = issued + 1 /\ issued \in Nat /\ issued' # None
    BY RestartTyped, GenerationFacts DEF TypeOK
<1>2. \A p \in Procs : under[p] # None => under[p] \in Nat /\ under[p] # issued'
    BY <1>1, GenerationFacts DEF TypeOK, ReadInv, GenerationsFresh
<1>3. \A g \in Generations : g \in Nat /\ (g >= issued' => entries[g] = None)
    BY <1>1, GenerationFacts DEF ReadInv, GenerationsFresh
<1>4. GenerationsFresh'
    BY <1>1, <1>2, <1>3 DEF ReadInv, GenerationsFresh
<1>5. ReadsConsistent'
    BY GenerationFacts DEF ReadInv, ReadsConsistent, TypeOK
<1>6. FloorsFollowGenerations'
    BY <1>2 DEF ReadInv, FloorsFollowGenerations
<1>7. EntriesFollowGenerations'
    BY <1>1, <1>3 DEF ReadInv, EntriesFollowGenerations
<1>. QED BY <1>4, <1>5, <1>6, <1>7 DEF ReadInv

(* A read that ends is no reader of its generation any more.                 *)
LEMMA ReadDoneReads ==
    ASSUME TypeOK, ReadInv, NEW p \in Procs, ReadDone(p), UNCHANGED <<finished, keys, entries>>
    PROVE  ReadInv'
<1>1. /\ rd'[p] = "none" /\ under'[p] = None /\ floor'[p] = 0 /\ finished \in Nat
      /\ \A q \in Procs \ {p} : /\ rd'[q] = rd[q] /\ under'[q] = under[q]
                                /\ seen'[q] = seen[q] /\ floor'[q] = floor[q]
    BY ReadDoneTyped, GenerationFacts DEF TypeOK
<1>2. GenerationsFresh' /\ ReadsConsistent'
    BY <1>1 DEF ReadInv, GenerationsFresh, ReadsConsistent
<1>3. FloorsFollowGenerations' /\ EntriesFollowGenerations'
    BY <1>1 DEF ReadInv, FloorsFollowGenerations, EntriesFollowGenerations
<1>. QED BY <1>2, <1>3 DEF ReadInv

(* A read that begins takes the floor of its generation.                     *)
LEMMA BeginReads ==
    ASSUME TypeOK, ReadInv, NEW p \in Procs, NEW g, NEW phase \in {"entry", "row"},
           Begin(p, phase, g), UNCHANGED keys,
           \/ g = issued /\ g \in Generations
           \/ g = None /\ phase = "row"
    PROVE  ReadInv'
<1>1. g \in Generations \cup {None} /\ phase \in ReadPhases /\ finished \in Nat /\ issued \in Nat
    BY GenerationFacts DEF ReadPhases, TypeOK
<1>2. /\ rd'[p] = phase /\ under'[p] = g /\ floor'[p] = finished
      /\ \A q \in Procs \ {p} : rd'[q] = rd[q] /\ under'[q] = under[q] /\ floor'[q] = floor[q]
      /\ UNCHANGED <<finished, entries, seen>>
    BY <1>1, BeginTyped
<1>3. GenerationsFresh' /\ ReadsConsistent'
    BY <1>1, <1>2, GenerationFacts DEF ReadInv, GenerationsFresh, ReadsConsistent
<1>4. FloorsFollowGenerations'
    BY <1>1, <1>2 DEF ReadInv, FloorsFollowGenerations
<1>5. EntriesFollowGenerations'
    BY <1>1, <1>2 DEF ReadInv, EntriesFollowGenerations
<1>. QED BY <1>3, <1>4, <1>5 DEF ReadInv

(* What a reader sees is as new as every write that had finished.            *)
LEMMA ReadRowReads ==
    ASSUME TypeOK, WritesInOrder, ReadInv, NEW p \in Procs, ReadRow(p)
    PROVE  ReadInv'
<1>1. Visible(p) >= finished /\ Visible(p) \in Nat /\ finished \in Nat /\ floor[p] \in Nat
    BY GenerationFacts DEF Visible, WritesInOrder, TypeOK
<1>2. /\ rd[p] = "row" /\ rd'[p] = "fill" /\ seen'[p] = Visible(p)
      /\ \A q \in Procs \ {p} : rd'[q] = rd[q] /\ seen'[q] = seen[q]
      /\ UNCHANGED <<finished, keys, entries, under, floor>>
    BY DEF ReadRow, TypeOK
<1>3. GenerationsFresh' /\ FloorsFollowGenerations' /\ EntriesFollowGenerations'
    BY <1>2 DEF ReadInv, GenerationsFresh, FloorsFollowGenerations, EntriesFollowGenerations
<1>4. ReadsConsistent'
    BY <1>1, <1>2 DEF ReadInv, ReadsConsistent
<1>. QED BY <1>3, <1>4 DEF ReadInv

(* A fill puts no value below its generation's floor.                        *)
LEMMA FillReads ==
    ASSUME TypeOK, ReadInv, NEW p \in Procs, Fill(p)
    PROVE  ReadInv'
<1>1. /\ rd[p] = "fill" /\ ReadDone(p) /\ UNCHANGED <<finished, keys>>
      /\ \A g \in Generations : entries'[g] = IF g = under[p] THEN seen[p] ELSE entries[g]
    BY DEF Fill
<1>2. seen[p] >= floor[p]
    BY <1>1 DEF ReadInv, ReadsConsistent
<1>3. \A g \in Generations : entries'[g] # None =>
          /\ g = issued => entries'[g] >= finished
          /\ \A q \in Procs : under[q] = g => entries'[g] >= floor[q]
    BY <1>1, <1>2, GenerationFacts DEF ReadInv, EntriesFollowGenerations, FloorsFollowGenerations
<1>4. \A g \in Generations : g > issued => entries'[g] = None
    BY <1>1, GenerationFacts DEF ReadInv, GenerationsFresh, TypeOK
<1>5. /\ rd'[p] = "none" /\ under'[p] = None /\ floor'[p] = 0 /\ finished \in Nat
      /\ \A q \in Procs \ {p} : /\ rd'[q] = rd[q] /\ under'[q] = under[q]
                                /\ seen'[q] = seen[q] /\ floor'[q] = floor[q]
    BY <1>1, ReadDoneTyped, GenerationFacts DEF TypeOK
<1>6. GenerationsFresh' /\ ReadsConsistent'
    BY <1>1, <1>4, <1>5 DEF ReadInv, GenerationsFresh, ReadsConsistent
<1>7. FloorsFollowGenerations'
    BY <1>1, <1>5 DEF ReadInv, FloorsFollowGenerations
<1>8. EntriesFollowGenerations'
    BY <1>1, <1>3, <1>5, GenerationFacts DEF EntriesFollowGenerations
<1>. QED BY <1>6, <1>7, <1>8 DEF ReadInv

(* A miss goes to the row, under the same generation.                        *)
LEMMA ReadMissReads ==
    ASSUME TypeOK, ReadInv, NEW p \in Procs, ReadMiss(p)
    PROVE  ReadInv'
<1>1. /\ rd'[p] = "row" /\ \A q \in Procs \ {p} : rd'[q] = rd[q]
      /\ UNCHANGED <<finished, keys, entries, under, seen, floor>>
    BY DEF ReadMiss, TypeOK
<1>2. GenerationsFresh' /\ FloorsFollowGenerations' /\ EntriesFollowGenerations'
    BY <1>1 DEF ReadInv, GenerationsFresh, FloorsFollowGenerations, EntriesFollowGenerations
<1>3. ReadsConsistent'
    BY <1>1 DEF ReadInv, ReadsConsistent
<1>. QED BY <1>2, <1>3 DEF ReadInv

(* Every step keeps every entry at or above its generation's floor.          *)
LEMMA ReadsInductive ==
    ASSUME TypeOK, TypeOK', WritesInOrder, ReadInv, [Next]_vars
    PROVE  ReadInv'
<1>1. CASE UNCHANGED <<finished, issued, entries, read>> /\ generation' \in {generation, None}
    BY <1>1 DEF ReadInv, GenerationsFresh, ReadsConsistent, FloorsFollowGenerations,
                EntriesFollowGenerations
<1>2. CASE Restart /\ UNCHANGED <<finished, entries, read>>
    BY <1>2, RestartReads, GenerationFacts DEF TypeOK
<1>3. ASSUME NEW p \in Procs, BumpOnCommit(p) PROVE ReadInv'
    <2>1. Restart /\ UNCHANGED <<entries, read>>
        BY <1>3 DEF BumpOnCommit, BumpGeneration
    <2>2. finished' >= finished
        BY <1>3, GenerationFacts DEF BumpOnCommit, Newest, TypeOK
    <2>. QED BY <2>1, <2>2, RestartReads
<1>4. ASSUME NEW p \in Procs, ReadGeneration(p) \/ ReadUncached(p) PROVE ReadInv'
    <2>1. CASE Begin(p, "entry", generation) /\ generation \in Generations /\ UNCHANGED keys
        BY <2>1, BeginReads, GenerationFacts DEF ReadInv, GenerationsFresh
    <2>2. CASE Begin(p, "entry", issued + 1) /\ Restart
        <3>1. issued' = issued + 1 /\ issued' \in Generations /\ issued \in Nat /\ generation' = issued'
            BY <2>2, RestartTyped, GenerationFacts DEF TypeOK
        <3>2. /\ rd[p] = "none" /\ rd'[p] = "entry" /\ under'[p] = issued' /\ floor'[p] = finished
              /\ \A q \in Procs \ {p} : rd'[q] = rd[q] /\ under'[q] = under[q] /\ floor'[q] = floor[q]
              /\ UNCHANGED <<finished, entries, seen>>
            BY <2>2, <3>1, BeginTyped DEF ReadPhases
        <3>3. \A q \in Procs : under[q] # None => under[q] \in Nat /\ under[q] <= issued
            BY GenerationFacts DEF TypeOK, ReadInv, GenerationsFresh
        <3>4. \A g \in Generations : g \in Nat /\ (g > issued => entries[g] = None)
            BY GenerationFacts DEF ReadInv, GenerationsFresh
        <3>5. GenerationsFresh'
            BY <3>1, <3>2, <3>3, <3>4, GenerationFacts DEF GenerationsFresh
        <3>6. ReadsConsistent'
            BY <3>1, <3>2, GenerationFacts DEF ReadInv, ReadsConsistent, TypeOK
        <3>7. FloorsFollowGenerations'
            BY <3>1, <3>2, <3>3 DEF ReadInv, FloorsFollowGenerations
        <3>8. EntriesFollowGenerations'
            BY <3>1, <3>2, <3>4 DEF ReadInv, EntriesFollowGenerations
        <3>. QED BY <3>5, <3>6, <3>7, <3>8 DEF ReadInv
    <2>3. CASE Begin(p, "row", None) /\ UNCHANGED keys
        BY <2>3, BeginReads
    <2>. QED BY <1>4, <2>1, <2>2, <2>3, ReadBegins
<1>5. ASSUME NEW p \in Procs, ReadDone(p), UNCHANGED <<finished, keys, entries>> PROVE ReadInv'
    BY <1>5, ReadDoneReads
<1>6. ASSUME NEW g \in Generations, EntryExpires(g), UNCHANGED <<finished, keys, read>> PROVE ReadInv'
    <2>1. \A h \in Generations : entries'[h] \in {entries[h], None}
        BY <1>6 DEF EntryExpires, TypeOK
    <2>2. GenerationsFresh' /\ ReadsConsistent'
        BY <1>6, <2>1 DEF ReadInv, GenerationsFresh, ReadsConsistent
    <2>3. FloorsFollowGenerations' /\ EntriesFollowGenerations'
        BY <1>6, <2>1 DEF ReadInv, FloorsFollowGenerations, EntriesFollowGenerations
    <2>. QED BY <2>2, <2>3 DEF ReadInv
<1>. QED BY <1>1, <1>2, <1>3, <1>4, <1>5, <1>6, ReadCases, FillReads, ReadMissReads, ReadRowReads

-----------------------------------------------------------------------------
(* Settings and flags: theorems *)

LEMMA InitHolds ==
    ASSUME Init
    PROVE  IInv
<1>1. TypeOK
    BY DEF Init, TypeOK, Versions, TxPhases, ReadPhases
<1>2. WritesInOrder /\ NewestWriteIsStored /\ BumpsAccounted
    BY DEF Init, WritesInOrder, NewestWriteIsStored, BumpsAccounted, Vouched, Locking
<1>3. GenerationsFresh /\ ReadsConsistent
    BY DEF Init, GenerationsFresh, ReadsConsistent
<1>4. FloorsFollowGenerations /\ EntriesFollowGenerations
    BY DEF Init, FloorsFollowGenerations, EntriesFollowGenerations
<1>. QED BY <1>1, <1>2, <1>3, <1>4 DEF IInv

LEMMA StepHolds ==
    ASSUME IInv, [Next]_vars
    PROVE  IInv'
<1>1. TypeOK'
    BY TypeInductive DEF IInv
<1>. QED BY <1>1, WritesInductive, BumpsInductive, ReadsInductive DEF IInv, ReadInv

(* The inductive invariant holds of every state of a row of the settings or  *)
(* the flags and its cache entries.                                          *)
THEOREM Inductive == Spec => []IInv
<1>1. Init => IInv
    BY InitHolds
<1>2. IInv /\ [Next]_vars => IInv'
    BY StepHolds
<1>. QED BY <1>1, <1>2, PTL DEF Spec

(* A read that begins after a change returned with its bump is answered with *)
(* it or with a newer one, and a write that returned without changing        *)
(* anything is missed only if the change it repeats can be: its bump on      *)
(* commit is still to come or was lost (core/settings_service.py,            *)
(* core/flags.py).                                                           *)
THEOREM ReadsAreFresh == Spec => []ReadsSeeFinishedWrites
<1>1. IInv => ReadsSeeFinishedWrites
    BY DEF IInv, ReadsSeeFinishedWrites, ReadsConsistent, EntriesFollowGenerations, TypeOK,
           BumpsAccounted, Vouched
<1>. QED BY <1>1, Inductive, PTL

(* No committed write of core/settings_service.py is lost to another.        *)
THEOREM NoWriteIsLost == Spec => []NewestWriteIsStored
<1>1. IInv => NewestWriteIsStored
    BY DEF IInv
<1>. QED BY <1>1, Inductive, PTL

-----------------------------------------------------------------------------
(* Permission codes: the inductive invariant *)

(* As long as the version is not evicted it only counts up, so a version has *)
(* no reader and no entry before the bump that makes it.                     *)
VersionsCountUp ==
    evictions = 0 =>
        /\ version # None
        /\ \A w \in Writers : pTx[w] \notin {"restart", "set"}
        /\ \A v \in Perm!Versions : v > version => pEntries[v] = None
        /\ \A r \in Readers : pUnder[r] # None => pUnder[r] <= version
        /\ \A r \in Readers : pRd[r] = "fill" /\ pUnder[r] = version => pSeen[r] >= base
        /\ base <= pStored

PermInv == Perm!TypeOK /\ VersionsCountUp /\ OnlyChangesInFlightAreMissed

LEMMA PermFacts ==
    /\ \A c \in Perm!Codes : c \in Nat /\ c # None
    /\ \A v \in Perm!Versions : v \in Nat /\ v # None
    /\ 1 \in Perm!Versions /\ None \notin Perm!Versions
BY PermAssumption DEF Perm!BoundsAssumption, Perm!NoneAssumption, Perm!Codes, Perm!Versions

LEMMA PermCases ==
    ASSUME [Perm!Next]_pvars
    PROVE  \/ UNCHANGED pvars
           \/ \E w \in Writers : Perm!WriterStep(w)
           \/ \E r \in Readers : Perm!ReaderStep(r)
           \/ Perm!Evict
           \/ \E v \in Perm!Versions : Perm!EntryExpires(v)
BY DEF Perm!Next

(* Permission codes: typing.                                                 *)
LEMMA PermReadDone ==
    ASSUME Perm!TypeOK, NEW r \in Readers, Perm!ReadDone(r)
    PROVE  /\ pRd' \in [Readers -> {"none", "entry", "row", "fill"}]
           /\ pUnder' \in [Readers -> Perm!Versions \cup {None}] /\ pSeen' \in [Readers -> Perm!Codes]
           /\ pRd'[r] = "none" /\ pUnder'[r] = None
           /\ \A q \in Readers \ {r} : pRd'[q] = pRd[q] /\ pUnder'[q] = pUnder[q] /\ pSeen'[q] = pSeen[q]
<1>1. 0 \in Perm!Codes
    BY PermAssumption DEF Perm!BoundsAssumption, Perm!Codes
<1>. QED BY <1>1 DEF Perm!TypeOK, Perm!ReadDone

LEMMA CurrentTyped ==
    ASSUME Perm!TypeOK
    PROVE  Perm!CurrentVersion \in Perm!Versions /\ (version # None => Perm!CurrentVersion = version)
BY PermFacts DEF Perm!CurrentVersion, Perm!TypeOK

LEMMA PermTypeInductive ==
    ASSUME Perm!TypeOK, [Perm!Next]_pvars
    PROVE  Perm!TypeOK'
<1>1. CASE UNCHANGED pvars
    BY <1>1 DEF pvars, Perm!TypeOK
<1>2. ASSUME NEW w \in Writers, Perm!WriterStep(w) PROVE Perm!TypeOK'
    <2>. USE DEF Perm!TypeOK, Perm!Move, Perm!TxPhases, Perm!keys, Perm!reading
    <2>1. CASE Perm!Change(w) \/ Perm!BumpEvicted(w)
        BY <2>1 DEF Perm!Change, Perm!BumpEvicted
    <2>2. CASE Perm!BumpVersion(w)
        <3>1. version' \in Perm!Versions
            BY <2>2, PermAssumption DEF Perm!BumpVersion, Perm!BoundsAssumption, Perm!Versions
        <3>. QED BY <2>2, <3>1 DEF Perm!BumpVersion
    <2>3. CASE Perm!ReadForRestart(w)
        <3>1. version' \in Perm!Versions
            BY <2>3, CurrentTyped DEF Perm!ReadForRestart
        <3>2. Perm!CurrentVersion + 1 \in Perm!Versions
            BY <2>3, CurrentTyped, PermAssumption
            DEF Perm!ReadForRestart, Perm!BoundsAssumption, Perm!Versions
        <3>. QED BY <2>3, <3>1, <3>2 DEF Perm!ReadForRestart
    <2>4. CASE Perm!SetVersion(w)
        BY <2>4, PermFacts DEF Perm!SetVersion
    <2>5. CASE Perm!Commit(w)
        <3>1. pStored' \in Perm!Codes
            BY <2>5, PermAssumption DEF Perm!Commit, Perm!BoundsAssumption, Perm!Codes
        <3>. QED BY <2>5, <3>1 DEF Perm!Commit
    <2>6. CASE Perm!Rollback(w)
        BY <2>6, PermFacts DEF Perm!Rollback
    <2>. QED BY <1>2, <2>1, <2>2, <2>3, <2>4, <2>5, <2>6 DEF Perm!WriterStep
<1>3. ASSUME NEW r \in Readers, Perm!ReaderStep(r) PROVE Perm!TypeOK'
    <2>. USE DEF Perm!writing, Perm!keys
    <2>1. CASE Perm!ReadVersion(r)
        BY <2>1, CurrentTyped DEF Perm!ReadVersion, Perm!TypeOK
    <2>2. CASE Perm!ReadHit(r) \/ Perm!GiveUp(r)
        BY <2>2, PermReadDone DEF Perm!ReadHit, Perm!GiveUp, Perm!TypeOK
    <2>3. CASE Perm!ReadMiss(r)
        BY <2>3 DEF Perm!ReadMiss, Perm!TypeOK
    <2>4. CASE Perm!ReadRow(r)
        BY <2>4 DEF Perm!ReadRow, Perm!Visible, Perm!TypeOK
    <2>5. CASE Perm!Fill(r)
        <3>1. pEntries' \in [Perm!Versions -> Perm!Codes \cup {None}]
            BY <2>5 DEF Perm!Fill, Perm!TypeOK
        <3>. QED BY <2>5, <3>1, PermReadDone DEF Perm!Fill, Perm!TypeOK
    <2>. QED BY <1>3, <2>1, <2>2, <2>3, <2>4, <2>5 DEF Perm!ReaderStep
<1>4. CASE Perm!Evict
    BY <1>4, PermAssumption
    DEF Perm!Evict, Perm!TypeOK, Perm!BoundsAssumption, Perm!writing, Perm!reading
<1>5. CASE \E v \in Perm!Versions : Perm!EntryExpires(v)
    BY <1>5 DEF Perm!EntryExpires, Perm!TypeOK, Perm!writing, Perm!keys, Perm!reading
<1>. QED BY <1>1, <1>2, <1>3, <1>4, <1>5, PermCases

(* Permission codes: the inductive step.                                     *)

(* A version that was never evicted cannot have been.                        *)
LEMMA EvictionsGrow ==
    ASSUME Perm!TypeOK, [Perm!Next]_pvars, evictions' = 0
    PROVE  evictions = 0 /\ ~Perm!Evict
<1>1. evictions \in Nat
    BY PermAssumption DEF Perm!TypeOK, Perm!BoundsAssumption
<1>2. CASE UNCHANGED pvars
    BY <1>1, <1>2 DEF pvars, Perm!Evict
<1>3. ASSUME NEW w \in Writers, Perm!WriterStep(w) PROVE evictions' = evictions
    BY <1>3 DEF Perm!WriterStep, Perm!Change, Perm!BumpVersion, Perm!BumpEvicted, Perm!keys,
                Perm!ReadForRestart, Perm!SetVersion, Perm!Commit, Perm!Rollback
<1>4. ASSUME NEW r \in Readers, Perm!ReaderStep(r) PROVE evictions' = evictions
    BY <1>4 DEF Perm!ReaderStep, Perm!ReadVersion, Perm!ReadHit, Perm!ReadMiss, Perm!ReadRow, Perm!keys,
                Perm!Fill, Perm!GiveUp
<1>5. ASSUME NEW v \in Perm!Versions, Perm!EntryExpires(v) PROVE evictions' = evictions
    BY <1>5 DEF Perm!EntryExpires, Perm!keys
<1>. QED BY <1>1, <1>2, <1>3, <1>4, <1>5, PermCases DEF Perm!Evict

LEMMA PermInductive ==
    ASSUME PermInv, [Perm!Next]_pvars
    PROVE  PermInv'
<1>1. Perm!TypeOK /\ Perm!TypeOK'
    BY PermTypeInductive DEF PermInv
<1>2. SUFFICES ASSUME evictions' = 0
               PROVE  VersionsCountUp' /\ OnlyChangesInFlightAreMissed'
    BY <1>1 DEF PermInv, VersionsCountUp, OnlyChangesInFlightAreMissed,
                Perm!OnlyChangesInFlightAreMissed
<1>3. evictions = 0 /\ ~Perm!Evict
    BY <1>1, <1>2, EvictionsGrow
<1>4. /\ version # None /\ version \in Nat /\ base \in Nat /\ pStored \in Nat /\ base <= pStored
      /\ \A w \in Writers : pTx[w] \notin {"restart", "set"}
      /\ \A v \in Perm!Versions : v > version => pEntries[v] = None
      /\ \A r \in Readers : pUnder[r] # None => pUnder[r] <= version
      /\ \A r \in Readers : pRd[r] = "fill" /\ pUnder[r] = version => pSeen[r] >= base
      /\ pEntries[version] # None => pEntries[version] >= base
      /\ Perm!CurrentVersion = version
    BY <1>1, <1>3, PermFacts, CurrentTyped
    DEF PermInv, VersionsCountUp, OnlyChangesInFlightAreMissed, Perm!OnlyChangesInFlightAreMissed,
        Perm!TypeOK
<1>. DEFINE Goal == VersionsCountUp' /\ OnlyChangesInFlightAreMissed'
<1>5. SUFFICES Goal
    OBVIOUS
<1>. USE DEF VersionsCountUp, OnlyChangesInFlightAreMissed, Perm!OnlyChangesInFlightAreMissed
<1>6. CASE UNCHANGED pvars
    BY <1>3, <1>4, <1>6 DEF pvars
<1>7. ASSUME NEW w \in Writers, Perm!WriterStep(w) PROVE Goal
    <2>1. CASE Perm!BumpVersion(w)
        <3>1. /\ version' = version + 1 /\ base' = pStored /\ pTx'[w] = "bumped"
              /\ \A u \in Writers \ {w} : pTx'[u] = pTx[u]
              /\ UNCHANGED <<pStored, evictions, pEntries, pRd, pUnder, pSeen>>
            BY <1>1, <2>1 DEF Perm!BumpVersion, Perm!Move, Perm!TypeOK, Perm!reading
        <3>2. version' \in Perm!Versions
            BY <1>1, <2>1, PermAssumption
            DEF Perm!BumpVersion, Perm!BoundsAssumption, Perm!Versions, Perm!TypeOK
        <3>3. \A r \in Readers : pUnder[r] # None => pUnder[r] \in Nat /\ pUnder[r] # version'
            <4>1. \A r \in Readers : pUnder[r] # None => pUnder[r] \in Nat
                BY <1>1, PermFacts DEF Perm!TypeOK
            <4>. QED BY <1>4, <3>1, <4>1
        <3>4. \A v \in Perm!Versions : v \in Nat /\ (v >= version' => pEntries[v] = None)
            BY <1>4, <3>1, PermFacts
        <3>. QED BY <1>4, <3>1, <3>2, <3>3, <3>4, PermFacts
    <2>2. CASE Perm!Change(w) \/ Perm!Rollback(w)
        <3>1. /\ pTx'[w] \in {"open", "none"} /\ \A u \in Writers \ {w} : pTx'[u] = pTx[u]
              /\ UNCHANGED <<pStored, base, version, evictions, pEntries, pRd, pUnder, pSeen>>
            BY <1>1, <2>2 DEF Perm!Change, Perm!Rollback, Perm!Move, Perm!TypeOK, Perm!keys, Perm!reading
        <3>. QED BY <1>4, <3>1
    <2>3. CASE Perm!Commit(w)
        <3>1. /\ pTx'[w] = "none" /\ \A u \in Writers \ {w} : pTx'[u] = pTx[u]
              /\ pStored' = pStored + 1
              /\ UNCHANGED <<base, version, evictions, pEntries, pRd, pUnder, pSeen>>
            BY <1>1, <2>3 DEF Perm!Commit, Perm!Move, Perm!TypeOK, Perm!keys, Perm!reading
        <3>. QED BY <1>4, <3>1
    <2>4. CASE Perm!BumpEvicted(w) \/ Perm!ReadForRestart(w) \/ Perm!SetVersion(w)
        BY <1>4, <2>4 DEF Perm!BumpEvicted, Perm!ReadForRestart, Perm!SetVersion
    <2>. QED BY <1>7, <2>1, <2>2, <2>3, <2>4 DEF Perm!WriterStep
<1>8. ASSUME NEW r \in Readers, Perm!ReaderStep(r) PROVE Goal
    <2>1. UNCHANGED <<pStored, base, pTx, evictions>> /\ version' = version
        BY <1>4, <1>8
        DEF Perm!ReaderStep, Perm!ReadVersion, Perm!ReadHit, Perm!ReadMiss, Perm!ReadRow, Perm!Fill,
            Perm!GiveUp, Perm!writing, Perm!keys
    <2>2. CASE Perm!ReadVersion(r) \/ Perm!ReadMiss(r)
        <3>1. /\ pRd'[r] # "fill" /\ pUnder'[r] \in {version, pUnder[r]}
              /\ \A q \in Readers \ {r} : pRd'[q] = pRd[q] /\ pUnder'[q] = pUnder[q]
              /\ UNCHANGED <<pEntries, pSeen>>
            BY <1>1, <1>4, <2>2 DEF Perm!ReadVersion, Perm!ReadMiss, Perm!TypeOK
        <3>. QED BY <1>4, <2>1, <3>1
    <2>3. CASE Perm!ReadHit(r) \/ Perm!GiveUp(r)
        <3>1. UNCHANGED pEntries /\ Perm!ReadDone(r)
            BY <2>3 DEF Perm!ReadHit, Perm!GiveUp
        <3>. QED BY <1>1, <1>4, <2>1, <3>1, PermReadDone
    <2>4. CASE Perm!ReadRow(r)
        <3>1. /\ pSeen'[r] = pStored /\ UNCHANGED <<pEntries, pUnder>>
              /\ \A q \in Readers \ {r} : pRd'[q] = pRd[q] /\ pSeen'[q] = pSeen[q]
            BY <1>1, <2>4 DEF Perm!ReadRow, Perm!Visible, Perm!TypeOK
        <3>. QED BY <1>4, <2>1, <3>1
    <2>5. CASE Perm!Fill(r)
        <3>1. Perm!ReadDone(r) /\ pRd[r] = "fill"
            BY <2>5 DEF Perm!Fill
        <3>2. \A v \in Perm!Versions : pEntries'[v] = IF v = pUnder[r] THEN pSeen[r] ELSE pEntries[v]
            BY <1>1, <2>5 DEF Perm!Fill, Perm!Key, Perm!TypeOK
        <3>3. \A v \in Perm!Versions : v > version => pEntries'[v] = None
            BY <1>1, <1>4, <3>2, PermFacts DEF Perm!TypeOK
        <3>4. pEntries'[version] # None => pEntries'[version] >= base
            BY <1>1, <1>4, <3>1, <3>2 DEF Perm!TypeOK
        <3>. QED BY <1>1, <1>4, <2>1, <3>1, <3>3, <3>4, PermReadDone
    <2>. QED BY <1>8, <2>2, <2>3, <2>4, <2>5 DEF Perm!ReaderStep
<1>9. ASSUME NEW v \in Perm!Versions, Perm!EntryExpires(v) PROVE Goal
    <2>1. /\ \A u \in Perm!Versions : pEntries'[u] \in {pEntries[u], None}
          /\ UNCHANGED <<pStored, base, pTx, version, evictions, pRd, pUnder, pSeen>>
        BY <1>1, <1>9
        DEF Perm!EntryExpires, Perm!writing, Perm!keys, Perm!reading, Perm!TypeOK
    <2>2. version \in Perm!Versions
        BY <1>1, <1>4 DEF Perm!TypeOK
    <2>. QED BY <1>4, <2>1, <2>2
<1>. QED BY <1>3, <1>6, <1>7, <1>8, <1>9, PermCases

-----------------------------------------------------------------------------
(* Permission codes: theorems *)

LEMMA PermInit ==
    ASSUME Perm!Init
    PROVE  PermInv
<1>1. Perm!TypeOK
    BY PermFacts, PermAssumption
    DEF Perm!Init, Perm!TypeOK, Perm!TxPhases, Perm!BoundsAssumption, Perm!Codes
<1>2. VersionsCountUp /\ OnlyChangesInFlightAreMissed
    BY PermFacts
    DEF Perm!Init, VersionsCountUp, OnlyChangesInFlightAreMissed, Perm!OnlyChangesInFlightAreMissed
<1>. QED BY <1>1, <1>2 DEF PermInv

(* The inductive invariant holds of every state of a user's cached           *)
(* permission codes, with any writers, readers and evictions.                *)
THEOREM PermInductiveInvariant == Perm!Spec => []PermInv
<1>1. Perm!Init => PermInv
    BY PermInit
<1>2. PermInv /\ [Perm!Next]_(Perm!vars) => PermInv'
    <2>1. [Perm!Next]_(Perm!vars) => [Perm!Next]_pvars
        BY DEF Perm!vars, pvars, Perm!writing, Perm!keys, Perm!reading
    <2>. QED BY <2>1, PermInductive
<1>. QED BY <1>1, <1>2, PTL DEF Perm!Spec

(* Until the version is evicted, rbac/selectors.py answers with every change *)
(* that was committed before the last bump.                                  *)
THEOREM OldChangesAreSeen == Perm!Spec => []OnlyChangesInFlightAreMissed
<1>1. PermInv => OnlyChangesInFlightAreMissed
    BY DEF PermInv
<1>. QED BY <1>1, PermInductiveInvariant, PTL

(* What MCCaches lets TLC explore are behaviours of the two caches.          *)
THEOREM EveryRunIsABehaviour == MCSpec => Spec /\ Perm!Spec
<1>1. MCInit => Init /\ Perm!Init
    BY DEF MCInit
<1>2. [MCNext]_<<vars, pvars, focus>> => [Next]_vars /\ [Perm!Next]_(Perm!vars)
    BY DEF MCNext, pvars, Perm!vars, Perm!writing, Perm!keys, Perm!reading
<1>. QED BY <1>1, <1>2, PTL DEF MCSpec, Spec, Perm!Spec
=============================================================================
