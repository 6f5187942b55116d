----------------------------- MODULE Encryption -----------------------------
(* Secrets encrypted at rest: the key ring (core/crypto.py), which the        *)
(* operator rotates (management/commands/rotate_encryption.py) while web      *)
(* processes write and delete the rows that are being rotated.                *)
(*                                                                            *)
(* A ciphertext is the key that it was made under, and Lost is a key that is  *)
(* in no ring.  A row's secret never changes: mfa.begin_setup() makes a row,  *)
(* under a key of its own.                                                    *)
EXTENDS FiniteSets, FiniteSetsExt, Integers, SequencesExt

CONSTANTS
    Webs,     \* web processes
    MaxKeys,  \* bound: master keys ever generated
    MaxRows,  \* bound: rows ever made
    Batch,    \* --batch
    NoRow, Lost

VARIABLES
    ring,     \* FIELD_ENCRYPTION_KEYS as configured, newest first
    loaded,   \* [Webs -> rings]: the ring that each process has started with
    keys,     \* keys generated so far
    rows,     \* [1..MaxRows -> keys \cup {Lost, NoRow}]
    made,     \* rows made so far: a key is never used again
    owned,    \* history: the rows that their owners have and have not deleted
    command,  \* what the rotate command has in hand
    verified  \* the ring for which --verify last found every row newest

vars == <<ring, loaded, keys, rows, made, owned, command, verified>>

Pks == 1..MaxRows
Idle == [phase |-> "idle"]

\* A row from before, under the only key or under one that is lost.
Init ==
    /\ ring = <<1>> /\ keys = 1
    /\ loaded = [w \in Webs |-> ring]
    /\ rows \in [Pks -> {NoRow, 1, Lost}] /\ \A pk \in 2..MaxRows : rows[pk] = NoRow
    /\ made = 1 /\ owned = {pk \in Pks : rows[pk] # NoRow}
    /\ command = Idle
    /\ verified = <<>>

-----------------------------------------------------------------------------
(* core/crypto.py *)

Newest(keyring) == Head(keyring)                        \* encrypt()
Readable(token, keyring) == token \in ToSet(keyring)    \* decrypt(), fingerprint_of()
\* self_test(): every key of the ring encrypts and decrypts.
SelfTest(keyring) == \A key \in ToSet(keyring) : key \in 1..keys

-----------------------------------------------------------------------------
(* The web *)

\* begin_setup(): a new row, whose key is the newest of the process.
Enrol(w) ==
    /\ made < MaxRows
    /\ made' = made + 1
    /\ rows' = [rows EXCEPT ![made'] = Newest(loaded[w])]
    /\ owned' = owned \cup {made'}
    /\ UNCHANGED <<ring, loaded, keys, command, verified>>

\* begin_setup() of another device, or disable()
Delete(pk) ==
    /\ pk \in owned
    /\ rows' = [rows EXCEPT ![pk] = NoRow]
    /\ owned' = owned \ {pk}
    /\ UNCHANGED <<ring, loaded, keys, made, command, verified>>

-----------------------------------------------------------------------------
(* rotate_encryption *)

Deployed == \A w \in Webs : loaded[w] = ring
AllRows == {pk \in Pks : rows[pk] # NoRow}

\* The tokens are read by one query; a row is written long after.
Rotate(dry) ==
    /\ command = Idle /\ Deployed
    /\ command' = [phase |-> "scan", dry |-> dry, todo |-> AllRows,
                   token |-> rows, pending |-> {}]
    /\ UNCHANGED <<made, ring, loaded, keys, rows, owned, verified>>

Row1 == Min(command.todo)
AlreadyNewest(pk) == command.token[pk] = Newest(ring)
Pends(pk) == ~AlreadyNewest(pk) /\ Readable(command.token[pk], ring) /\ ~command.dry

\* One row: already newest, left as unreadable, only counted, or pending.
Scan ==
    /\ command.phase = "scan" /\ command.todo # {} /\ Cardinality(command.pending) < Batch
    /\ command' = [command EXCEPT
         !.todo = @ \ {Row1},
         !.pending = IF Pends(Row1) THEN @ \cup {Row1} ELSE @]
    /\ UNCHANGED <<made, ring, loaded, keys, rows, owned, verified>>

\* flush(): bulk_update() of the rows that are still there, in one commit
MutWritten == command.pending
Written == command.pending \cap AllRows

Flush ==
    /\ command.phase = "scan" /\ command.pending # {}
    /\ Cardinality(command.pending) >= Batch \/ command.todo = {}
    /\ rows' = [pk \in Pks |-> IF pk \in Written THEN Newest(ring) ELSE rows[pk]]
    /\ command' = [command EXCEPT !.pending = {}]
    /\ UNCHANGED <<made, ring, loaded, keys, owned, verified>>

\* The command ends, or dies with what is pending.
End ==
    /\ command # Idle
    /\ command' = Idle
    /\ UNCHANGED <<made, ring, loaded, keys, rows, owned, verified>>

\* --verify: rows under an older key, or under none, mean that no key may go.
Clean == \A pk \in AllRows : rows[pk] = Newest(ring)
Verify ==
    /\ command = Idle /\ Deployed
    /\ verified' = IF Clean THEN ring ELSE <<>>
    /\ UNCHANGED <<ring, loaded, keys, rows, owned, made, command>>

-----------------------------------------------------------------------------
(* The operator follows the procedure: prepend, deploy, rotate, verify,       *)
(* remove, deploy.                                                            *)
Prepend ==
    /\ command = Idle /\ Deployed /\ keys < MaxKeys
    /\ keys' = keys + 1
    /\ ring' = <<keys'>> \o ring
    /\ UNCHANGED <<loaded, rows, owned, made, command, verified>>

RemoveOldKeys ==
    /\ command = Idle /\ Deployed /\ Len(ring) > 1 /\ verified = ring
    /\ ring' = <<Newest(ring)>>
    /\ UNCHANGED <<loaded, keys, rows, owned, made, command, verified>>

\* A process restarts with the configured ring.
Deploy(w) ==
    /\ loaded[w] # ring
    /\ SelfTest(ring)
    /\ loaded' = [loaded EXCEPT ![w] = ring]
    /\ UNCHANGED <<ring, keys, rows, owned, made, command, verified>>

Next ==
    \/ \E w \in Webs : Deploy(w) \/ Enrol(w)
    \/ \E pk \in Pks : Delete(pk)
    \/ \E dry \in BOOLEAN : Rotate(dry)
    \/ Scan \/ Flush \/ End \/ Verify \/ Prepend \/ RemoveOldKeys

Spec == Init /\ [][Next]_vars

-----------------------------------------------------------------------------
(* rotate_encryption.py: a crash loses "never the data".  No secret is locked *)
(* out by a key that the procedure removes, whatever is enrolled or deleted   *)
(* while the rows are scanned and whenever the command dies; and no deleted   *)
(* secret comes back.                                                         *)
SecretsStayReadable ==
    \A pk \in AllRows : pk \in owned /\ (rows[pk] = Lost \/ Readable(rows[pk], ring))
=============================================================================
