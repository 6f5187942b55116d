----------------------------- MODULE Resolution -----------------------------
(* Which value of a setting a request works with: resolve_setting() goes      *)
(* over the scopes, one lookup each, while others write, and the request      *)
(* remembers the answer until it ends (core/settings_service.py).             *)
(*                                                                            *)
(* A lookup is one step here and sees what is committed: what caching adds to *)
(* it is in GenerationCache.  The request may itself write, in a transaction  *)
(* that is still open, and then sees its own row.                             *)
EXTENDS SettingTypes

CONSTANTS
    Definitions, \* the declarations, one of which a behaviour is about
    JsonValues,  \* [Definitions -> the values that rows hold or are to hold]
    NoRow,
    MaxWrites    \* bound: writes of all processes

Scopes  == {"user", "tenant", "platform"}
Callers == {"user", "nobody"}

(* What a row may hold: the values above, those of defaults, and a number as *)
(* a write spells it.                                                        *)
Jsons ==
    {[str |-> text] : text \in DOMAIN Numeric}
        \cup UNION {JsonValues[d] \cup {ToJson(d.type, d.default)} : d \in Definitions}
Rows == [json : Jsons, locked : BOOLEAN]

(* SettingDef.problems(): a default is a value of its type.  Of a default of *)
(* Null it does not follow that there is one within the bounds.              *)
Registrable(d) ==
    /\ d.scopes \subseteq Scopes
    /\ d.type.name \in {"bool", "int", "decimal", "string", "choice", "str_list"}
    /\ Bounded(d.type) => /\ d.type.min \in Int /\ d.type.max \in Int
                          /\ d.default = Null => d.type.min <= d.type.max
    /\ Coerces(d, ToJson(d.type, d.default))
ValuesAssumption ==
    /\ \A d \in Definitions : Registrable(d)
    /\ \A text \in DOMAIN Numeric : Numeric[text] \in Int
    /\ \A json \in Jsons : Has(json, "int") => json.int \in Int
    /\ NoRow \notin Rows

VARIABLES
    def,      \* the declaration, never changed
    rows,     \* [Scopes -> [json, locked] or NoRow]: what is committed
    writes,   \* how many so far
    draft,    \* [scope, row]: the request's uncommitted write, or NoRow
    snapshot, \* [Callers -> [value, source, locked] or NoRow]
    read,     \* [caller, left, platform]: the resolve_setting() under way, the
              \* scopes it has yet to look up, the platform row it found
    calm,     \* history: since the request began or last wrote, nobody else
              \* wrote, it rolled nothing back and no lookup failed
    ceiling   \* history, [Callers -> BOOLEAN]: the platform's row was locked
              \* and readable all through the read

vars == <<def, rows, writes, draft, snapshot, read, calm, ceiling>>

Unread == [c \in Callers |-> NoRow]

(* Every row that this release or an earlier one may have left; at a scope   *)
(* that the setting no longer has, one stands for all, since none is read.   *)
RowsAt(scope) ==
    {NoRow} \cup [json : IF scope \in def.scopes THEN JsonValues[def]
                         ELSE {CHOOSE json \in JsonValues[def] : TRUE},
                  locked : IF scope = "platform" THEN BOOLEAN ELSE {FALSE}]

Init ==
    /\ def \in Definitions
    /\ \E u \in RowsAt("user"), t \in RowsAt("tenant"), p \in RowsAt("platform") :
          rows = [user |-> u, tenant |-> t, platform |-> p]
    /\ writes = 0 /\ draft = NoRow
    /\ snapshot = Unread /\ read = NoRow
    /\ calm = TRUE /\ ceiling = [c \in Callers |-> FALSE]

-----------------------------------------------------------------------------
(* What a row says *)

Usable(row) == row # NoRow /\ Readable(def, row.json)
Visible(scope) == IF draft # NoRow /\ draft.scope = scope THEN draft.row ELSE rows[scope]

Answer(row, source) ==
    [value |-> ReadAs(def, row.json), source |-> source, locked |-> row.locked]
Default == Answer([json |-> ToJson(def.type, def.default), locked |-> FALSE], "default")

-----------------------------------------------------------------------------
(* set_value(), or reset() when the row to be left is NoRow *)

(* _check_scope(), the guard on locking, and the coercion.                   *)
Accepted(scope, row) ==
    /\ scope \in def.scopes
    /\ row # NoRow => Coerces(def, row.json) /\ (row.locked => scope = "platform")

(* The row is written as the program reads it back.                          *)
Stored(row) ==
    IF row = NoRow THEN NoRow
    ELSE [row EXCEPT !.json = IF @ = Null THEN @ ELSE ToJson(def.type, Parse(def.type, @))]

(* What leaves the row as it is writes nothing.                              *)
Changes(scope, row) ==
    /\ writes < MaxWrites
    /\ Accepted(scope, row)
    /\ Stored(row) # Visible(scope)
    /\ writes' = writes + 1

CeilingAfter(scope) ==
    IF scope = "platform" /\ read # NoRow THEN [ceiling EXCEPT ![read.caller] = FALSE] ELSE ceiling

(* Another process's, which waits for the row or its unique index.           *)
Write(scope, row) ==
    /\ draft # NoRow => draft.scope # scope
    /\ Changes(scope, row)
    /\ rows' = [rows EXCEPT ![scope] = Stored(row)]
    /\ calm' = FALSE
    /\ ceiling' = CeilingAfter(scope)
    /\ UNCHANGED <<def, draft, snapshot, read>>

(* _changed(): the request forgets what it remembered of the key.            *)
WriteOwn(scope, row) ==
    /\ draft = NoRow /\ read = NoRow
    /\ Changes(scope, row)
    /\ draft' = [scope |-> scope, row |-> Stored(row)]
    /\ snapshot' = Unread
    /\ calm' = TRUE
    /\ UNCHANGED <<def, rows, read, ceiling>>

Commit ==
    /\ draft # NoRow /\ read = NoRow
    /\ rows' = [rows EXCEPT ![draft.scope] = draft.row]
    /\ draft' = NoRow
    /\ UNCHANGED <<def, writes, snapshot, read, calm, ceiling>>

(* What it read of its own row stays remembered.                             *)
Rollback ==
    /\ draft # NoRow /\ read = NoRow
    /\ draft' = NoRow
    /\ calm' = FALSE
    /\ UNCHANGED <<def, rows, writes, snapshot, read, ceiling>>

-----------------------------------------------------------------------------
(* resolve_setting() *)

(* memo_key: the user is part of it.                                         *)
MutMemoKey(c) == "nobody"
MemoKey(c) == c

(* _scope_ids(): a caller who is nobody has only the platform.               *)
Steps(c) == {s \in def.scopes : s # "platform" => c = "user"}

(* The platform is looked up first, for its lock.                            *)
Turn == [platform |-> 1, user |-> 2, tenant |-> 3]
IsNext(scope) ==
    /\ read # NoRow /\ scope \in read.left
    /\ \A s \in read.left : Turn[scope] <= Turn[s]

Resolve(c) ==
    /\ read = NoRow /\ snapshot[MemoKey(c)] = NoRow
    /\ read' = [caller |-> c, left |-> Steps(c), platform |-> NoRow]
    /\ ceiling' = [ceiling EXCEPT ![c] = /\ "platform" \in def.scopes
                                         /\ Usable(Visible("platform"))
                                         /\ Visible("platform").locked]
    /\ UNCHANGED <<def, rows, writes, draft, snapshot, calm>>

Return(answer) ==
    /\ read' = NoRow
    /\ snapshot' = [snapshot EXCEPT ![MemoKey(read.caller)] = answer]
    /\ UNCHANGED <<def, rows, writes, draft, calm, ceiling>>

Skip(scope, platform) ==
    /\ read' = [read EXCEPT !.left = @ \ {scope}, !.platform = platform]
    /\ UNCHANGED <<def, rows, writes, draft, snapshot>>

(* A locked platform row is the answer, an unlocked one only if the user and *)
(* the tenant have none.  A row that no longer coerces is as good as none.   *)
LookUp(scope) ==
    /\ IsNext(scope)
    /\ LET row == Visible(scope) IN
       IF Usable(row) /\ (row.locked \/ scope # "platform")
       THEN Return(Answer(row, scope))
       ELSE /\ Skip(scope, IF Usable(row) THEN row ELSE read.platform)
            /\ UNCHANGED <<calm, ceiling>>

(* The database, or the resolver of tenants, fails: the scope is skipped.    *)
LookUpFails(scope) ==
    /\ IsNext(scope)
    /\ Skip(scope, read.platform)
    /\ calm' = FALSE
    /\ ceiling' = CeilingAfter(scope)

Finish ==
    /\ read # NoRow /\ read.left = {}
    /\ Return(IF read.platform = NoRow THEN Default ELSE Answer(read.platform, "platform"))

(* SettingsSnapshotMiddleware: the next request remembers nothing.           *)
NextRequest ==
    /\ draft = NoRow /\ read = NoRow
    /\ snapshot' = Unread /\ calm' = TRUE
    /\ UNCHANGED <<def, rows, writes, draft, read, ceiling>>

Next ==
    \/ \E s \in Scopes : \E row \in RowsAt(s) : Write(s, row) \/ WriteOwn(s, row)
    \/ Commit \/ Rollback
    \/ \E c \in Callers : Resolve(c)
    \/ \E s \in Scopes : LookUp(s) \/ LookUpFails(s)
    \/ Finish
    \/ NextRequest

Spec == Init /\ [][Next]_vars

-----------------------------------------------------------------------------
(* Properties *)

(* The documented order: a locked platform row, the user, the tenant, the    *)
(* platform, the code default.                                               *)
Order == [user |-> 1, tenant |-> 2, platform |-> 3]
Rank(scope) == IF scope = "platform" /\ Visible(scope).locked THEN 0 ELSE Order[scope]
UsableBy(c) == {s \in def.scopes : Usable(Visible(s)) /\ (c = "user" \/ s = "platform")}
Effective(c, answer) ==
    IF UsableBy(c) = {} THEN answer = Default
    ELSE \E s \in UsableBy(c) : /\ \A t \in UsableBy(c) : Rank(s) <= Rank(t)
                               /\ answer = Answer(Visible(s), s)

\* What a request works with is what the settings say at that moment, its own
\* writes included, unless others write or a lookup fails (resolve_setting).
WorksWithWhatIsSet ==
    calm => \A c \in Callers : snapshot[c] = NoRow \/ Effective(c, snapshot[c])

\* A lock beats an override of the user, whoever writes other scopes during the
\* read and whatever else fails.
LocksHold ==
    \A c \in Callers : ceiling[c] /\ snapshot[c] # NoRow => snapshot[c].source = "platform"

\* Whatever a row holds, what is read keeps the bounds of this release: "a row
\* written before a floor existed cannot get past it" (settings_registry.py).
FloorsHold ==
    \A c \in Callers :
        snapshot[c] # NoRow => LET v == snapshot[c].value
                               IN  IF v = Null THEN def.nullable ELSE InBounds(def.type, v)

\* A user's own value is nobody else's.
OwnValuesArePrivate == snapshot["nobody"] # NoRow => snapshot["nobody"].source \in {"platform", "default"}

\* What is accepted by a write is what a read gives back.
WrittenIsRead ==
    \A json \in JsonValues[def] :
        Coerces(def, json) =>
            LET row == Stored([json |-> json, locked |-> FALSE])
            IN  /\ Readable(def, row.json)
                /\ ReadAs(def, row.json) = IF json = Null THEN Null ELSE Parse(def.type, json)

SettingsMeanWhatTheySay ==
    WorksWithWhatIsSet /\ LocksHold /\ FloorsHold /\ OwnValuesArePrivate /\ WrittenIsRead
=============================================================================
