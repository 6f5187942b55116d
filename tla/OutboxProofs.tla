---------------------------- MODULE OutboxProofs ----------------------------
(* The outbox's type invariant, its inductive invariant, the safety          *)
(* properties that follow from it, and that it implements OutboxPromise, for *)
(* any messages, workers, semantics and bounds.                              *)
EXTENDS OutboxProperties, FiniteSetTheorems, TLAPS

USE SemanticsAssumption, BoundsAssumption, NoClaimAssumption

(* The four kinds of step, one per disjunct of Next.                         *)
LEMMA NextCases ==
    ASSUME Next
    PROVE  \/ \E m \in Msgs : Enqueue(m) \/ BackoffElapses(m) \/ LeaseExpires(m)
                                \/ Recover(m) \/ MarkSent(m) \/ Resend(m)
           \/ \E m \in Msgs, kind \in Kinds : Dismiss(m, kind)
           \/ \E w \in Workers : ProviderAccepts(w) \/ Deliver(w) \/ SettleHeld(w)
                                   \/ SettleLost(w) \/ Late(w) \/ Crash(w)
           \/ \E w \in Workers, m \in Msgs : Claim(w, m)
BY DEF Next, RowStep, WorkerStep

(* The statuses that the actions write by name.                              *)
LEMMA StatusNames == {"leased", "sent", "retry"} \subseteq Statuses
BY DEF Statuses

(* MoveTo keeps the rows' type.                                              *)
LEMMA MoveTyped ==
    ASSUME row \in [Msgs -> Rows], NEW m \in Msgs, NEW s \in Statuses, MoveTo(m, s)
    PROVE  row' \in [Msgs -> Rows]
BY DEF MoveTo, Rows

(* Release sets a worker back between two messages, and keeps the types.     *)
LEMMA ReleaseTyped ==
    ASSUME TypeOK, NEW w \in Workers, Release(w)
    PROVE  /\ phase' \in [Workers -> Phases]
           /\ claim' \in [Workers -> Claims \cup {NoClaim}]
           /\ outcome' \in [Workers -> Outcomes \cup {"none"}]
BY DEF TypeOK, Release, Phases

(* deliver() always makes an Outcome, and so does settle()'s dead letter.    *)
LEMMA ConvertedIsOutcome ==
    ASSUME NEW m, NEW result \in Outcomes \cup Raised
    PROVE  Converted(m, result) \in Outcomes
BY DEF Converted, Outcomes, Raised

LEMMA SettledStatusIsStatus ==
    ASSUME NEW c, NEW o \in Outcomes
    PROVE  SettledStatus(c, o) \in Statuses \cap Outcomes
BY DEF SettledStatus, Outcomes, Statuses

LEMMA ResultsAreResults ==
    ASSUME NEW m, NEW taken, NEW r \in Results(m, taken)
    PROVE  r \in Outcomes \cup Raised
BY DEF Results, Outcomes, Raised

(* A worker that is not idle holds a claim.                                  *)
LEMMA BusyHoldsClaim ==
    ASSUME TypeOK, WorkersConsistent, NEW w \in Workers, phase[w] # "idle"
    PROVE  claim[w] \in Claims
BY DEF TypeOK, WorkersConsistent

LEMMA TypeInductive ==
    ASSUME TypeOK, WorkersConsistent, [Next]_vars
    PROVE  TypeOK' /\ WorkersConsistent'
<1>. USE DEF WorkersConsistent
<1>1. CASE UNCHANGED vars
    BY <1>1 DEF vars, TypeOK
<1>2. ASSUME NEW m \in Msgs, Enqueue(m)
      PROVE  TypeOK' /\ WorkersConsistent'
    <2>1. PICK due \in BOOLEAN :
             row' = [row EXCEPT ![m] = [NoRow EXCEPT !.status = "pending",
                                                     !.max = MaxAttempts, !.due = due]]
        BY <1>2 DEF Enqueue
    <2>2. NoRow \in Rows
        BY DEF NoRow, Rows, Statuses
    <2>3. [NoRow EXCEPT !.status = "pending", !.max = MaxAttempts, !.due = due] \in Rows
        BY <2>2, BoundsAssumption DEF Rows, Statuses
    <2>4. row' \in [Msgs -> Rows]
        BY <2>1, <2>2, <2>3 DEF TypeOK
    <2>. QED
        BY <1>2, <2>4 DEF TypeOK, Enqueue, workerVars
<1>3. ASSUME NEW m \in Msgs, BackoffElapses(m)
      PROVE  TypeOK' /\ WorkersConsistent'
    <2>1. row[m] \in Rows
        BY DEF TypeOK
    <2>2. [row[m] EXCEPT !.due = TRUE] \in Rows
        BY <2>1 DEF Rows
    <2>3. row' = [row EXCEPT ![m] = [row[m] EXCEPT !.due = TRUE]]
        BY <1>3 DEF BackoffElapses
    <2>4. row' \in [Msgs -> Rows]
        BY <2>2, <2>3 DEF TypeOK
    <2>. QED
        BY <1>3, <2>4 DEF TypeOK, BackoffElapses, workerVars
<1>4. ASSUME NEW m \in Msgs, LeaseExpires(m)
      PROVE  TypeOK' /\ WorkersConsistent'
    <2>1. row[m] \in Rows
        BY DEF TypeOK
    <2>2. [row[m] EXCEPT !.expired = TRUE] \in Rows
        BY <2>1 DEF Rows
    <2>3. row' = [row EXCEPT ![m] = [row[m] EXCEPT !.expired = TRUE]]
        BY <1>4 DEF LeaseExpires
    <2>4. row' \in [Msgs -> Rows]
        BY <2>2, <2>3 DEF TypeOK
    <2>. QED
        BY <1>4, <2>4 DEF TypeOK, LeaseExpires, workerVars
<1>5. ASSUME NEW m \in Msgs, Recover(m)
      PROVE  TypeOK' /\ WorkersConsistent'
    <2>1. RecoveredStatus(m) \in Statuses /\ OpenedBy(RecoveredStatus(m)) \subseteq Kinds
        BY DEF RecoveredStatus, Statuses, OpenedBy, Kinds
    <2>. QED
        BY <1>5, <2>1, MoveTyped DEF TypeOK, Recover, workerVars
<1>6. ASSUME NEW m \in Msgs, MarkSent(m)
      PROVE  TypeOK' /\ WorkersConsistent'
    <2>1. row' \in [Msgs -> Rows]
        BY <1>6, StatusNames, MoveTyped DEF TypeOK, MarkSent
    <2>. QED
        BY <1>6, <2>1 DEF TypeOK, MarkSent, workerVars
<1>7. ASSUME NEW m \in Msgs, Resend(m)
      PROVE  TypeOK' /\ WorkersConsistent'
    <2>1. row' \in [Msgs -> Rows]
        BY <1>7, StatusNames DEF TypeOK, Resend, Rows
    <2>. QED
        BY <1>7, <2>1 DEF TypeOK, Resend, workerVars
<1>8. ASSUME NEW m \in Msgs, NEW kind \in Kinds, Dismiss(m, kind)
      PROVE  TypeOK' /\ WorkersConsistent'
    BY <1>8 DEF TypeOK, Dismiss, workerVars
<1>9. ASSUME NEW w \in Workers, NEW m \in Msgs, Claim(w, m)
      PROVE  TypeOK' /\ WorkersConsistent'
    <2>1. row' \in [Msgs -> Rows]
        BY <1>9, StatusNames DEF TypeOK, Claim, Rows
    <2>2. claim'[w] \in Claims /\ claim'[w] # NoClaim
        BY <1>9 DEF TypeOK, Claim, Rows, Claims
    <2>. QED
        BY <1>9, <2>1, <2>2 DEF TypeOK, Claim, Phases
<1>10. ASSUME NEW w \in Workers, ProviderAccepts(w)
       PROVE  TypeOK' /\ WorkersConsistent'
    <2>1. claim[w] \in Claims
        BY <1>10, BusyHoldsClaim DEF ProviderAccepts
    <2>. QED
        BY <1>10, <2>1 DEF TypeOK, ProviderAccepts, Phases, Claims
<1>11. ASSUME NEW w \in Workers, Deliver(w)
       PROVE  TypeOK' /\ WorkersConsistent'
    <2>1. outcome'[w] \in Outcomes /\ outcome' = [outcome EXCEPT ![w] = outcome'[w]]
        BY <1>11, ConvertedIsOutcome, ResultsAreResults DEF TypeOK, Deliver
    <2>2. outcome'[w] # "none"
        BY <2>1 DEF Outcomes
    <2>. QED
        BY <1>11, <2>1, <2>2 DEF TypeOK, Deliver, Phases
<1>12. ASSUME NEW w \in Workers, SettleHeld(w)
       PROVE  TypeOK' /\ WorkersConsistent'
    <2>1. claim[w] \in Claims /\ outcome[w] \in Outcomes
        BY <1>12, BusyHoldsClaim DEF SettleHeld, TypeOK
    <2>2. /\ SettledStatus(claim[w], outcome[w]) \in Statuses
          /\ OpenedBy(SettledStatus(claim[w], outcome[w])) \subseteq Kinds
        BY <2>1, SettledStatusIsStatus DEF OpenedBy, Kinds
    <2>3. row' \in [Msgs -> Rows] /\ open' \in [Msgs -> SUBSET Kinds]
        BY <1>12, <2>1, <2>2, MoveTyped DEF TypeOK, SettleHeld, Claims
    <2>4. Release(w)
        BY <1>12 DEF SettleHeld
    <2>5. UNCHANGED <<resends, accepts>>
        BY <1>12 DEF SettleHeld
    <2>6. WorkersConsistent'
        BY <2>4 DEF TypeOK, Release, Phases
    <2>. QED
        BY <2>3, <2>4, <2>5, <2>6, ReleaseTyped DEF TypeOK
<1>13. ASSUME NEW w \in Workers, SettleLost(w)
       PROVE  TypeOK' /\ WorkersConsistent'
    BY <1>13 DEF TypeOK, SettleLost, Release, Phases
<1>14. ASSUME NEW w \in Workers, Late(w)
       PROVE  TypeOK' /\ WorkersConsistent'
    <2>1. claim[w] \in Claims
        BY <1>14, BusyHoldsClaim DEF Late
    <2>2. row' \in [Msgs -> Rows] /\ open' \in [Msgs -> SUBSET Kinds]
        BY <1>14, <2>1, StatusNames, MoveTyped DEF TypeOK, Late, Claims
    <2>3. Release(w) /\ UNCHANGED <<resends, accepts>>
        BY <1>14 DEF Late
    <2>4. WorkersConsistent'
        BY <2>3 DEF TypeOK, Release, Phases
    <2>. QED
        BY <2>2, <2>3, <2>4, ReleaseTyped DEF TypeOK
<1>15. ASSUME NEW w \in Workers, Crash(w)
       PROVE  TypeOK' /\ WorkersConsistent'
    BY <1>15 DEF TypeOK, Crash, Release, Phases
<1>. QED
    BY NextCases, <1>1, <1>2, <1>3, <1>4, <1>5, <1>6, <1>7, <1>8, <1>9, <1>10,
       <1>11, <1>12, <1>13, <1>14, <1>15

(* Type correctness, for every number of messages and workers.               *)
THEOREM TypeCorrect == Spec => [](TypeOK /\ WorkersConsistent)
<1>1. Init => TypeOK /\ WorkersConsistent
    BY DEF Init, TypeOK, WorkersConsistent, NoRow, Rows, Statuses, Phases
<1>2. TypeOK /\ WorkersConsistent /\ [Next]_vars => (TypeOK /\ WorkersConsistent)'
    BY TypeInductive
<1>. QED
    BY <1>1, <1>2, PTL DEF Spec

-----------------------------------------------------------------------------
(* What the actions do, point by point *)

(* A moved row keeps its token and its attempt counters.                     *)
LEMMA MoveFacts ==
    ASSUME TypeOK, NEW x \in Msgs, NEW s \in Statuses, MoveTo(x, s)
    PROVE  \A m \in Msgs :
              /\ row'[m].token = row[m].token
              /\ row'[m].attempts = row[m].attempts
              /\ row'[m].max = row[m].max
              /\ row'[m].status = IF m = x THEN s ELSE row[m].status
              /\ m # x => row'[m] = row[m]
BY DEF TypeOK, MoveTo, Rows

(* A released worker is idle; the others go on with what they have.          *)
LEMMA ReleaseFacts ==
    ASSUME TypeOK, NEW u \in Workers, Release(u)
    PROVE  /\ phase'[u] = "idle"
           /\ \A w \in Workers \ {u} :
                 phase'[w] = phase[w] /\ claim'[w] = claim[w] /\ outcome'[w] = outcome[w]
BY DEF TypeOK, Release

LEMMA ClaimFacts ==
    ASSUME TypeOK, NEW u \in Workers, NEW x \in Msgs, Claim(u, x)
    PROVE  /\ row[x].status \in {"pending", "retry"}
           /\ row'[x].status = "leased"
           /\ row'[x].token = row[x].token + 1
           /\ row'[x].attempts = row[x].attempts + 1
           /\ row'[x].max = row[x].max
           /\ \A m \in Msgs \ {x} : row'[m] = row[m]
           /\ phase[u] = "idle"
           /\ phase'[u] = "sending"
           /\ claim'[u].msg = x
           /\ claim'[u].token = row[x].token + 1
           /\ claim'[u].attempt = row[x].attempts + 1
           /\ claim'[u].max = row[x].max
           /\ claim'[u].request = resends[x]
           /\ \A w \in Workers \ {u} : phase'[w] = phase[w] /\ claim'[w] = claim[w]
           /\ UNCHANGED <<open, outcome, resends, accepts>>
BY DEF TypeOK, Claim, Due, Rows

LEMMA AcceptFacts ==
    ASSUME TypeOK, WorkersConsistent, NEW u \in Workers, ProviderAccepts(u)
    PROVE  /\ claim[u] \in Claims
           /\ phase[u] = "sending"
           /\ phase'[u] = "accepted"
           /\ \A w \in Workers \ {u} : phase'[w] = phase[w]
           /\ accepts'[claim[u].msg] = accepts[claim[u].msg]
                 \cup {[token |-> claim[u].token, request |-> claim[u].request]}
           /\ \A m \in Msgs \ {claim[u].msg} : accepts'[m] = accepts[m]
           /\ UNCHANGED <<row, open, claim, outcome, resends>>
<1>1. claim[u] \in Claims
    BY BusyHoldsClaim DEF ProviderAccepts
<1>. QED
    BY <1>1 DEF TypeOK, ProviderAccepts, Claims

(* A step that is not a claim issues no token and starts no worker.          *)
KeepsClaims ==
    /\ \A m \in Msgs :
          /\ row'[m].token = row[m].token
          /\ row'[m].attempts = row[m].attempts
          /\ row'[m].status = "absent" => row'[m] = row[m]
          /\ row'[m].status = "leased" =>
                /\ row[m].status = "leased"
                /\ row'[m].max = row[m].max
                /\ resends'[m] = resends[m]
          /\ resends'[m] >= resends[m]
    /\ \A w \in Workers, m \in Msgs :
          /\ Busy(w, m)' => Busy(w, m) /\ claim'[w] = claim[w]
          /\ Sending(w, m)' => Sending(w, m)
    /\ accepts' = accepts \/ \E w \in Workers : ProviderAccepts(w)

LEMMA KeepsClaimsUnlessClaim ==
    ASSUME TypeOK, WorkersConsistent, TokensIssued, [Next]_vars,
           \A w \in Workers, m \in Msgs : ~Claim(w, m)
    PROVE  KeepsClaims
<1>. USE DEF KeepsClaims, Busy, Sending
<1>1. CASE UNCHANGED vars
    BY <1>1 DEF vars, TypeOK
<1>2. ASSUME NEW x \in Msgs, Enqueue(x) PROVE KeepsClaims
    <2>1. row[x] = NoRow
        BY <1>2 DEF Enqueue, TokensIssued, AbsentUntouched
    <2>. QED
        BY <1>2, <2>1 DEF Enqueue, NoRow, TypeOK, Rows, workerVars
<1>3. ASSUME NEW x \in Msgs, BackoffElapses(x) PROVE KeepsClaims
    BY <1>3 DEF BackoffElapses, TypeOK, Rows, workerVars
<1>4. ASSUME NEW x \in Msgs, LeaseExpires(x) PROVE KeepsClaims
    BY <1>4 DEF LeaseExpires, TypeOK, Rows, workerVars
<1>5. ASSUME NEW x \in Msgs, Recover(x) PROVE KeepsClaims
    <2>1. RecoveredStatus(x) \in Statuses /\ RecoveredStatus(x) \notin {"absent", "leased"}
        BY DEF RecoveredStatus, Statuses
    <2>. QED
        BY <1>5, <2>1, MoveFacts DEF Recover, TypeOK, workerVars
<1>6. ASSUME NEW x \in Msgs, MarkSent(x) PROVE KeepsClaims
    BY <1>6, MoveFacts, StatusNames DEF MarkSent, TypeOK, workerVars
<1>7. ASSUME NEW x \in Msgs, Resend(x) PROVE KeepsClaims
    BY <1>7 DEF Resend, TypeOK, Rows, workerVars
<1>8. ASSUME NEW x \in Msgs, NEW kind \in Kinds, Dismiss(x, kind) PROVE KeepsClaims
    BY <1>8 DEF Dismiss, TypeOK, workerVars
<1>9. ASSUME NEW u \in Workers, ProviderAccepts(u) PROVE KeepsClaims
    BY <1>9, AcceptFacts DEF TypeOK
<1>10. ASSUME NEW u \in Workers, Deliver(u) PROVE KeepsClaims
    BY <1>10 DEF Deliver, TypeOK
<1>11. ASSUME NEW u \in Workers, SettleHeld(u) PROVE KeepsClaims
    <2>1. claim[u] \in Claims /\ outcome[u] \in Outcomes
        BY <1>11, BusyHoldsClaim DEF SettleHeld, TypeOK, WorkersConsistent
    <2>2. /\ SettledStatus(claim[u], outcome[u]) \in Statuses
          /\ SettledStatus(claim[u], outcome[u]) \notin {"absent", "leased"}
        BY <2>1, SettledStatusIsStatus DEF Outcomes
    <2>3. /\ MoveTo(claim[u].msg, SettledStatus(claim[u], outcome[u])) /\ Release(u)
          /\ UNCHANGED <<resends, accepts>>
        BY <1>11 DEF SettleHeld
    <2>4. claim[u].msg \in Msgs
        BY <2>1 DEF Claims
    <2>. QED
        BY <2>2, <2>3, <2>4, MoveFacts, ReleaseFacts DEF TypeOK
<1>12. ASSUME NEW u \in Workers, SettleLost(u) PROVE KeepsClaims
    BY <1>12 DEF SettleLost, Release, TypeOK
<1>13. ASSUME NEW u \in Workers, Late(u) PROVE KeepsClaims
    <2>1. claim[u] \in Claims
        BY <1>13, BusyHoldsClaim DEF Late
    <2>2. /\ MoveTo(claim[u].msg, "sent") \/ UNCHANGED row
          /\ Release(u)
          /\ UNCHANGED <<resends, accepts>>
        BY <1>13 DEF Late
    <2>3. claim[u].msg \in Msgs
        BY <2>1 DEF Claims
    <2>. QED
        BY <2>2, <2>3, MoveFacts, ReleaseFacts, StatusNames DEF TypeOK
<1>14. ASSUME NEW u \in Workers, Crash(u) PROVE KeepsClaims
    BY <1>14, ReleaseFacts DEF Crash, TypeOK
<1>. QED
    BY NextCases, <1>1, <1>2, <1>3, <1>4, <1>5, <1>6, <1>7, <1>8, <1>9, <1>10,
       <1>11, <1>12, <1>13, <1>14

-----------------------------------------------------------------------------
(* The inductive invariant, conjunct by conjunct *)

LEMMA TokensInductive ==
    ASSUME TypeOK, WorkersConsistent, TokensIssued, [Next]_vars
    PROVE  TokensIssued'
<1>. USE DEF TokensIssued
<1>1. \A w \in Workers, m \in Msgs : Busy(w, m) => claim[w] \in Claims
    BY BusyHoldsClaim DEF Busy
<1>2. ASSUME NEW u \in Workers, NEW x \in Msgs, Claim(u, x)
      PROVE  TokensIssued'
    <2>1. /\ \A w \in Workers \ {u}, m \in Msgs :
                 Busy(w, m)' <=> Busy(w, m) /\ claim'[w] = claim[w]
          /\ \A m \in Msgs : Busy(u, m)' <=> m = x
        BY <1>2, ClaimFacts DEF Busy
    <2>2. row[x] \in Rows /\ resends[x] \in Nat
        BY DEF TypeOK
    <2>3. ASSUME NEW m \in Msgs PROVE ClaimsIssued(m)'
        BY <1>1, <1>2, <2>1, <2>2, ClaimFacts DEF ClaimsIssued, Rows, Claims
    <2>4. ASSUME NEW m \in Msgs PROVE AcceptsIssued(m)'
        <3>1. \A a \in accepts[m] : a \in [token : Nat, request : Nat]
            BY DEF TypeOK
        <3>. QED
            BY <1>2, <2>2, <3>1, ClaimFacts DEF AcceptsIssued, Rows
    <2>5. ASSUME NEW m \in Msgs PROVE TokensUnique(m)'
        <3>1. \A w \in Workers \ {u} : Busy(w, x) => claim[w].token < row[x].token + 1
            BY <1>1, <2>2 DEF ClaimsIssued, Claims, Rows
        <3>. QED
            BY <1>1, <1>2, <2>1, <2>2, <3>1, ClaimFacts DEF TokensUnique, Claims, Rows
    <2>6. ASSUME NEW m \in Msgs PROVE AbsentUntouched(m)'
        BY <1>2, <2>1, ClaimFacts DEF AbsentUntouched
    <2>. QED
        BY <2>3, <2>4, <2>5, <2>6
<1>3. ASSUME KeepsClaims
      PROVE  TokensIssued'
    <2>. USE <1>3 DEF KeepsClaims
    <2>1. TypeOK'
        BY TypeInductive
    <2>2. ASSUME NEW m \in Msgs PROVE ClaimsIssued(m)'
        BY <1>1, <2>1 DEF ClaimsIssued, TypeOK, Claims
    <2>3. ASSUME NEW m \in Msgs, NEW a \in accepts'[m]
          PROVE  a.token <= row'[m].token /\ a.request <= resends'[m]
        <3>1. a \in [token : Nat, request : Nat] /\ resends[m] \in Nat /\ resends'[m] \in Nat
            BY <2>1 DEF TypeOK
        <3>2. CASE a \in accepts[m]
            BY <3>1, <3>2 DEF AcceptsIssued
        <3>3. CASE a \notin accepts[m]
            <4>1. PICK u \in Workers : ProviderAccepts(u)
                BY <3>3
            <4>2. /\ claim[u].msg = m /\ Busy(u, m) /\ claim[u] \in Claims
                  /\ a = [token |-> claim[u].token, request |-> claim[u].request]
                BY <3>3, <4>1, AcceptFacts DEF Busy, Claims
            <4>. QED
                BY <3>1, <4>2 DEF ClaimsIssued, Claims
        <3>. QED
            BY <3>2, <3>3
    <2>4. ASSUME NEW m \in Msgs PROVE TokensUnique(m)'
        BY DEF TokensUnique
    <2>5. ASSUME NEW m \in Msgs PROVE AbsentUntouched(m)'
        <3>1. ASSUME NEW u \in Workers, ProviderAccepts(u), row[m].status = "absent"
              PROVE  accepts'[m] = accepts[m]
            BY <3>1, AcceptFacts DEF AbsentUntouched, Busy, Claims
        <3>. QED
            BY <3>1 DEF AbsentUntouched
    <2>. QED
        BY <2>2, <2>3, <2>4, <2>5 DEF AcceptsIssued
<1>. QED
    BY <1>2, <1>3, KeepsClaimsUnlessClaim

LEMMA ClaimsInductive ==
    ASSUME TypeOK, WorkersConsistent, TokensIssued, ClaimsCurrent, [Next]_vars
    PROVE  ClaimsCurrent'
<1>1. \A w \in Workers, m \in Msgs : Busy(w, m) => claim[w] \in Claims
    BY BusyHoldsClaim DEF Busy
<1>2. ASSUME NEW u \in Workers, NEW x \in Msgs, Claim(u, x)
      PROVE  ClaimsCurrent'
    <2>1. \A w \in Workers \ {u}, m \in Msgs : Busy(w, m)' => Busy(w, m) /\ claim'[w] = claim[w]
        BY <1>2, ClaimFacts DEF Busy
    <2>2. ASSUME NEW w \in Workers \ {u}, Busy(w, x)
          PROVE  claim[w].token # row[x].token + 1
        BY <1>1, <2>2 DEF TokensIssued, ClaimsIssued, TypeOK, Claims, Rows
    <2>. QED
        BY <1>2, <2>1, <2>2, ClaimFacts DEF ClaimsCurrent, HoldsLease, Busy
<1>3. ASSUME KeepsClaims
      PROVE  ClaimsCurrent'
    BY <1>3 DEF KeepsClaims, ClaimsCurrent, HoldsLease, Busy
<1>. QED
    BY <1>2, <1>3, KeepsClaimsUnlessClaim

(* Which steps move a row, and how: seen from one row.                       *)
RowKept(m) ==
    /\ row'[m].status = row[m].status
    /\ row'[m].attempts = row[m].attempts
    /\ row'[m].max = row[m].max
    /\ row'[m].token = row[m].token
    /\ open'[m] \subseteq open[m]
    /\ resends'[m] = resends[m]

RowMoved(m, s) ==
    /\ row'[m].status = s
    /\ row'[m].attempts = row[m].attempts
    /\ row'[m].max = row[m].max
    /\ row'[m].token = row[m].token

(* A worker settles, or late settles, the message it holds.                  *)
SettledBy(u, m) ==
    /\ SettleHeld(u)
    /\ claim[u].msg = m
    /\ row[m].status = "leased"
    /\ claim[u].token = row[m].token
    /\ outcome[u] \in Outcomes
    /\ RowMoved(m, SettledStatus(claim[u], outcome[u]))
    /\ open'[m] = open[m] \cup OpenedBy(SettledStatus(claim[u], outcome[u]))

ConfirmedBy(u, m) ==
    /\ Late(u)
    /\ claim[u].msg = m
    /\ row[m].status \in {"unknown", "retry", "failed"}
    /\ RowMoved(m, "sent")
    /\ open'[m] = open[m] \ ClearedByLate

RecoveredStep(m) ==
    /\ Recover(m)
    /\ RowMoved(m, RecoveredStatus(m))
    /\ open'[m] = open[m] \cup OpenedBy(RecoveredStatus(m))

MarkedStep(m) ==
    /\ MarkSent(m)
    /\ RowMoved(m, "sent")
    /\ open'[m] = open[m] \ {"outbox.unknown"}

ResentStep(m) ==
    /\ Resend(m)
    /\ row[m].status = "unknown"
    /\ row'[m].status = "retry"
    /\ row'[m].attempts = row[m].attempts
    /\ row'[m].max = row[m].attempts + 1
    /\ resends'[m] = resends[m] + 1
    /\ open'[m] = open[m] \ {"outbox.unknown"}

EnqueuedStep(m) ==
    /\ Enqueue(m)
    /\ row[m].status = "absent"
    /\ row'[m].status = "pending"
    /\ row'[m].attempts = 0
    /\ row'[m].max = MaxAttempts
    /\ open'[m] = open[m]

LEMMA RowSteps ==
    ASSUME TypeOK, WorkersConsistent, [Next]_vars, NEW m \in Msgs
    PROVE  \/ RowKept(m)
           \/ EnqueuedStep(m)
           \/ \E u \in Workers : Claim(u, m)
           \/ \E u \in Workers : SettledBy(u, m)
           \/ \E u \in Workers : ConfirmedBy(u, m)
           \/ RecoveredStep(m)
           \/ MarkedStep(m)
           \/ ResentStep(m)
<1>. DEFINE Goal == \/ RowKept(m)
                    \/ EnqueuedStep(m)
                    \/ \E u \in Workers : Claim(u, m)
                    \/ \E u \in Workers : SettledBy(u, m)
                    \/ \E u \in Workers : ConfirmedBy(u, m)
                    \/ RecoveredStep(m)
                    \/ MarkedStep(m)
                    \/ ResentStep(m)
<1>1. CASE UNCHANGED vars
    BY <1>1 DEF vars, RowKept
<1>2. ASSUME NEW x \in Msgs, Enqueue(x) PROVE Goal
    <2>1. CASE m = x
        BY <1>2, <2>1 DEF Enqueue, EnqueuedStep, NoRow, TypeOK
    <2>2. CASE m # x
        BY <1>2, <2>2 DEF Enqueue, RowKept, TypeOK
    <2>. QED
        BY <2>1, <2>2
<1>3. ASSUME NEW x \in Msgs, BackoffElapses(x) PROVE Goal
    BY <1>3 DEF BackoffElapses, RowKept, TypeOK, Rows
<1>4. ASSUME NEW x \in Msgs, LeaseExpires(x) PROVE Goal
    BY <1>4 DEF LeaseExpires, RowKept, TypeOK, Rows
<1>5. ASSUME NEW x \in Msgs, Recover(x) PROVE Goal
    <2>1. RecoveredStatus(x) \in Statuses
        BY DEF RecoveredStatus, Statuses
    <2>2. MoveTo(x, RecoveredStatus(x))
          /\ open' = [open EXCEPT ![x] = @ \cup OpenedBy(RecoveredStatus(x))]
          /\ resends' = resends
        BY <1>5 DEF Recover
    <2>3. CASE m = x
        BY <1>5, <2>1, <2>2, <2>3, MoveFacts DEF RecoveredStep, RowMoved, TypeOK
    <2>4. CASE m # x
        BY <2>1, <2>2, <2>4, MoveFacts DEF RowKept, TypeOK
    <2>. QED
        BY <2>3, <2>4
<1>6. ASSUME NEW x \in Msgs, MarkSent(x) PROVE Goal
    <2>1. /\ MoveTo(x, "sent")
          /\ open' = [open EXCEPT ![x] = @ \ {"outbox.unknown"}]
          /\ resends' = resends
        BY <1>6 DEF MarkSent
    <2>2. CASE m = x
        BY <1>6, <2>1, <2>2, MoveFacts, StatusNames DEF MarkedStep, RowMoved, TypeOK
    <2>3. CASE m # x
        BY <2>1, <2>3, MoveFacts, StatusNames DEF RowKept, TypeOK
    <2>. QED
        BY <2>2, <2>3
<1>7. ASSUME NEW x \in Msgs, Resend(x) PROVE Goal
    BY <1>7 DEF Resend, ResentStep, RowKept, TypeOK, Rows
<1>8. ASSUME NEW x \in Msgs, NEW kind \in Kinds, Dismiss(x, kind) PROVE Goal
    BY <1>8 DEF Dismiss, RowKept, TypeOK
<1>9. ASSUME NEW u \in Workers, NEW x \in Msgs, Claim(u, x) PROVE Goal
    BY <1>9, ClaimFacts DEF RowKept
<1>10. ASSUME NEW u \in Workers, ProviderAccepts(u) \/ Deliver(u) \/ SettleLost(u) \/ Crash(u)
       PROVE  Goal
    BY <1>10 DEF ProviderAccepts, Deliver, SettleLost, Crash, RowKept
<1>11. ASSUME NEW u \in Workers, SettleHeld(u) PROVE Goal
    <2>1. claim[u] \in Claims /\ outcome[u] \in Outcomes
        BY <1>11, BusyHoldsClaim DEF SettleHeld, TypeOK, WorkersConsistent
    <2>. DEFINE s == SettledStatus(claim[u], outcome[u])
    <2>2. s \in Statuses /\ claim[u].msg \in Msgs
        BY <2>1, SettledStatusIsStatus DEF Claims
    <2>3. /\ MoveTo(claim[u].msg, s)
          /\ open' = [open EXCEPT ![claim[u].msg] = @ \cup OpenedBy(s)]
          /\ HoldsLease(claim[u])
          /\ resends' = resends
        BY <1>11 DEF SettleHeld
    <2>. HIDE DEF s
    <2>4. CASE m = claim[u].msg
        <3>1. RowMoved(m, s) /\ open'[m] = open[m] \cup OpenedBy(s)
            BY <2>2, <2>3, <2>4, MoveFacts DEF RowMoved, TypeOK
        <3>. QED
            BY <1>11, <2>1, <2>3, <2>4, <3>1 DEF SettledBy, HoldsLease, s
    <2>5. CASE m # claim[u].msg
        BY <2>2, <2>3, <2>5, MoveFacts DEF RowKept, TypeOK
    <2>. QED
        BY <2>4, <2>5
<1>12. ASSUME NEW u \in Workers, Late(u) PROVE Goal
    <2>1. claim[u].msg \in Msgs
        BY <1>12, BusyHoldsClaim DEF Late, Claims
    <2>0. resends' = resends
        BY <1>12 DEF Late
    <2>2. CASE UNCHANGED <<row, open>>
        BY <2>0, <2>2 DEF RowKept
    <2>3. CASE /\ ParkedUnder(claim[u])
               /\ MoveTo(claim[u].msg, "sent")
               /\ open' = [open EXCEPT ![claim[u].msg] = @ \ ClearedByLate]
        <3>1. CASE m = claim[u].msg
            BY <1>12, <2>1, <2>3, <3>1, MoveFacts, StatusNames
               DEF ConfirmedBy, RowMoved, ParkedUnder, TypeOK
        <3>2. CASE m # claim[u].msg
            BY <2>0, <2>1, <2>3, <3>2, MoveFacts, StatusNames DEF RowKept, TypeOK
        <3>. QED
            BY <3>1, <3>2
    <2>. QED
        BY <1>12, <2>2, <2>3 DEF Late
<1>. QED
    BY NextCases, <1>1, <1>2, <1>3, <1>4, <1>5, <1>6, <1>7, <1>8, <1>9, <1>10, <1>11, <1>12

LEMMA AttemptsInductive ==
    ASSUME TypeOK, WorkersConsistent, ClaimsCurrent, AttemptsBounded, [Next]_vars
    PROVE  AttemptsBounded'
<1>. SUFFICES ASSUME NEW m \in Msgs
              PROVE  /\ row'[m].attempts <= row'[m].max
                     /\ row'[m].status \in {"pending", "retry"}
                            => row'[m].attempts < row'[m].max
    BY DEF AttemptsBounded
<1>. USE DEF AttemptsBounded
<1>1. row[m] \in Rows
    BY DEF TypeOK
<1>2. CASE RowKept(m)
    BY <1>2 DEF RowKept
<1>3. CASE EnqueuedStep(m)
    BY <1>3 DEF EnqueuedStep
<1>4. ASSUME NEW u \in Workers, Claim(u, m)
      PROVE  row'[m].attempts <= row'[m].max /\ row'[m].status = "leased"
    BY <1>1, <1>4, ClaimFacts DEF Rows
<1>5. ASSUME NEW u \in Workers, SettledBy(u, m)
      PROVE  /\ row'[m].attempts <= row'[m].max
             /\ row'[m].status = "retry" => row'[m].attempts < row'[m].max
             /\ row'[m].status # "pending"
    <2>1. claim[u].attempt = row[m].attempts /\ claim[u].max = row[m].max
        BY <1>5 DEF SettledBy, SettleHeld, ClaimsCurrent, Busy
    <2>. QED
        BY <1>1, <1>5, <2>1
           DEF SettledBy, RowMoved, SettledStatus, Exhausted, Outcomes, Rows
<1>6. ASSUME NEW u \in Workers, ConfirmedBy(u, m)
      PROVE  row'[m].attempts <= row'[m].max /\ row'[m].status = "sent"
    BY <1>6 DEF ConfirmedBy, RowMoved
<1>7. CASE RecoveredStep(m)
    BY <1>1, <1>7 DEF RecoveredStep, RowMoved, RecoveredStatus, Exhausted, Rows
<1>8. CASE MarkedStep(m)
    BY <1>8 DEF MarkedStep, RowMoved
<1>9. CASE ResentStep(m)
    BY <1>1, <1>9 DEF ResentStep, Rows
<1>. QED
    BY <1>2, <1>3, <1>4, <1>5, <1>6, <1>7, <1>8, <1>9, RowSteps

LEMMA FindingsInductive ==
    ASSUME TypeOK, WorkersConsistent, FindingsFollowRows, [Next]_vars
    PROVE  FindingsFollowRows'
<1>. SUFFICES ASSUME NEW m \in Msgs
              PROVE  /\ "outbox.unknown" \in open'[m] => row'[m].status = "unknown"
                     /\ "outbox.failed" \in open'[m] => row'[m].status = "failed"
    BY DEF FindingsFollowRows
<1>. DEFINE Follows == /\ "outbox.unknown" \in open'[m] => row'[m].status = "unknown"
                       /\ "outbox.failed" \in open'[m] => row'[m].status = "failed"
<1>. USE DEF FindingsFollowRows, OpenedBy, ClearedByLate, Kinds
<1>1. open[m] \subseteq Kinds
    BY DEF TypeOK
<1>2. ASSUME RowKept(m) PROVE Follows
    BY <1>2 DEF RowKept
<1>3. ASSUME EnqueuedStep(m) PROVE Follows
    BY <1>3 DEF EnqueuedStep
<1>4. ASSUME NEW u \in Workers, Claim(u, m) PROVE Follows
    BY <1>1, <1>4, ClaimFacts
<1>5. ASSUME NEW u \in Workers, SettledBy(u, m)
      PROVE  Follows
    BY <1>5 DEF SettledBy, RowMoved
<1>6. ASSUME NEW u \in Workers, ConfirmedBy(u, m) PROVE Follows
    BY <1>1, <1>6 DEF ConfirmedBy
<1>7. ASSUME RecoveredStep(m) PROVE Follows
    BY <1>7 DEF RecoveredStep, Recover, StaleLease, RowMoved
<1>8. ASSUME MarkedStep(m) PROVE Follows
    BY <1>8 DEF MarkedStep, MarkSent
<1>9. ASSUME ResentStep(m) PROVE Follows
    BY <1>9 DEF ResentStep
<1>. HIDE DEF Follows
<1>10. Follows
    BY <1>2, <1>3, <1>4, <1>5, <1>6, <1>7, <1>8, <1>9, RowSteps
<1>. QED
    BY <1>10 DEF Follows

-----------------------------------------------------------------------------
(* At most once per request *)

(* On an at_most_once topic a handler whose call the provider took answers   *)
(* SENT or UNKNOWN, whatever it returned or raised.                          *)
LEMMA TakenAnswers ==
    ASSUME NEW m \in AtMostOnce, NEW r \in Results(m, TRUE)
    PROVE  Converted(m, r) \in {"sent", "unknown"}
<1>1. m \notin AtLeastOnce
    BY DEF AtMostOnce
<1>2. r \in {"sent", "unknown", "transient", "permanent", "not_an_outcome"}
    BY <1>1 DEF Results, Raised
<1>3. CASE r \in {"sent", "unknown"}
    BY <1>3 DEF Converted, Outcomes
<1>4. CASE r \in {"transient", "permanent", "not_an_outcome"}
    BY <1>1, <1>4 DEF Converted, Outcomes
<1>. QED
    BY <1>2, <1>3, <1>4

(* The step, seen from the acceptances of one message.                       *)
AcceptedBy(u, m) ==
    /\ ProviderAccepts(u)
    /\ Sending(u, m)
    /\ claim[u] \in Claims
    /\ accepts'[m] = accepts[m] \cup
          {[token |-> claim[u].token, request |-> claim[u].request]}
    /\ ~Sending(u, m)'
    /\ UNCHANGED <<row, claim, outcome, resends>>

LEMMA AcceptSteps ==
    ASSUME TypeOK, WorkersConsistent, KeepsClaims, NEW m \in Msgs
    PROVE  accepts'[m] = accepts[m] \/ \E u \in Workers : AcceptedBy(u, m)
<1>1. CASE accepts' = accepts
    BY <1>1
<1>2. ASSUME NEW u \in Workers, ProviderAccepts(u)
      PROVE  accepts'[m] = accepts[m] \/ AcceptedBy(u, m)
    BY <1>2, AcceptFacts DEF AcceptedBy, Sending
<1>. QED
    BY <1>1, <1>2 DEF KeepsClaims

(* A worker that has answered "nothing was sent" has just done so, or had    *)
(* before.                                                                   *)
LEMMA OutcomeSteps ==
    ASSUME TypeOK, WorkersConsistent, [Next]_vars, NEW w \in Workers,
           outcome'[w] # "none"
    PROVE  outcome'[w] = outcome[w] \/ Deliver(w)
<1>1. CASE UNCHANGED vars
    BY <1>1 DEF vars
<1>2. ASSUME NEW m \in Msgs, NEW u \in Workers, Claim(u, m)
      PROVE  outcome' = outcome
    BY <1>2 DEF Claim
<1>3. ASSUME NEW u \in Workers, ProviderAccepts(u) \/ Deliver(u) \/ SettleHeld(u)
                                  \/ SettleLost(u) \/ Late(u) \/ Crash(u)
      PROVE  outcome'[w] = outcome[w] \/ Deliver(w)
    <2>1. CASE Deliver(u)
        BY <2>1 DEF Deliver, TypeOK
    <2>2. CASE Release(u)
        BY <2>2 DEF Release, TypeOK
    <2>. QED
        BY <1>3, <2>1, <2>2 DEF ProviderAccepts, SettleHeld, SettleLost, Late, Crash
<1>4. ASSUME NEW m \in Msgs, NEW kind \in Kinds,
             \/ Enqueue(m) \/ BackoffElapses(m) \/ LeaseExpires(m)
             \/ Recover(m) \/ MarkSent(m) \/ Resend(m) \/ Dismiss(m, kind)
      PROVE  outcome' = outcome
    BY <1>4 DEF Enqueue, BackoffElapses, LeaseExpires, Recover, MarkSent, Resend, Dismiss,
                workerVars
<1>. QED
    BY NextCases, <1>1, <1>2, <1>3, <1>4 DEF Kinds

LEMMA SpentInductive ==
    ASSUME TypeOK, WorkersConsistent, TokensIssued, SpentOnce, [Next]_vars
    PROVE  SpentOnce'
<1>. SUFFICES ASSUME NEW m \in AtMostOnce
              PROVE  RequestUnspent(m)' /\ RequestHeld(m)' /\ TokenUnspent(m)' /\ OneSpender(m)'
    BY DEF SpentOnce, AtMostOnce
<1>1. /\ m \in Msgs /\ m \notin AtLeastOnce
      /\ RequestUnspent(m) /\ RequestHeld(m) /\ TokenUnspent(m) /\ OneSpender(m)
      /\ ClaimsIssued(m) /\ AcceptsIssued(m) /\ TokensUnique(m)
    BY DEF SpentOnce, AtMostOnce, TokensIssued
<1>2. \A w \in Workers : Busy(w, m) => claim[w] \in Claims
    BY BusyHoldsClaim DEF Busy
<1>3. \A w \in Workers : Sending(w, m) => Busy(w, m)
    BY DEF Sending, Busy
<1>4. row[m] \in Rows /\ resends[m] \in Nat
      /\ \A a \in accepts[m] : a \in [token : Nat, request : Nat]
    BY <1>1 DEF TypeOK
<1>5. ASSUME NEW u \in Workers, Claim(u, m)
      PROVE  RequestUnspent(m)' /\ RequestHeld(m)' /\ TokenUnspent(m)' /\ OneSpender(m)'
    <2>1. /\ row'[m].status = "leased" /\ row'[m].token = row[m].token + 1
          /\ Sending(u, m)' /\ ~Sending(u, m) /\ outcome[u] = "none"
          /\ claim'[u].token = row[m].token + 1 /\ claim'[u].request = resends[m]
          /\ resends' = resends /\ accepts' = accepts
          /\ RequestUnspent(m) /\ row[m].status \in {"pending", "retry"}
        BY <1>1, <1>5, ClaimFacts DEF Sending, WorkersConsistent
    <2>2. ASSUME NEW w \in Workers \ {u}
          PROVE  /\ Sending(w, m)' <=> Sending(w, m)
                 /\ Busy(w, m)' <=> Busy(w, m)
                 /\ claim'[w] = claim[w] /\ outcome'[w] = outcome[w]
        BY <1>1, <1>5, <2>2, ClaimFacts DEF Sending, Busy
    <2>3. \A a \in accepts[m] : a.request # resends[m] /\ a.token # row[m].token + 1
        BY <1>1, <1>4, <2>1 DEF RequestUnspent, AcceptsIssued, Rows
    <2>4. \A w \in Workers : Sending(w, m) => claim[w].request # resends[m]
        BY <2>1 DEF RequestUnspent
    <2>5. RequestUnspent(m)' /\ RequestHeld(m)'
        BY <2>1, <2>2, <2>3, <2>4 DEF RequestUnspent, RequestHeld
    <2>6. TokenUnspent(m)'
        BY <1>1, <2>1, <2>2, <2>3 DEF TokenUnspent
    <2>7. OneSpender(m)'
        BY <1>1, <2>1, <2>2, <2>3, <2>4 DEF OneSpender
    <2>. QED
        BY <2>5, <2>6, <2>7
<1>6. ASSUME NEW u \in Workers, NEW x \in Msgs, x # m, Claim(u, x)
      PROVE  RequestUnspent(m)' /\ RequestHeld(m)' /\ TokenUnspent(m)' /\ OneSpender(m)'
    <2>1. /\ row'[m] = row[m] /\ resends' = resends /\ accepts' = accepts /\ outcome' = outcome
          /\ ~Busy(u, m)' /\ ~Sending(u, m)'
        BY <1>1, <1>6, ClaimFacts DEF Sending, Busy
    <2>2. ASSUME NEW w \in Workers \ {u}
          PROVE  /\ Sending(w, m)' <=> Sending(w, m)
                 /\ Busy(w, m)' <=> Busy(w, m)
                 /\ claim'[w] = claim[w]
        BY <1>1, <1>6, <2>2, ClaimFacts DEF Sending, Busy
    <2>. QED
        BY <1>1, <2>1, <2>2 DEF RequestUnspent, RequestHeld, TokenUnspent, OneSpender
<1>7. ASSUME KeepsClaims, accepts'[m] = accepts[m] \/ \E u \in Workers : AcceptedBy(u, m)
      PROVE  RequestUnspent(m)' /\ RequestHeld(m)' /\ TokenUnspent(m)' /\ OneSpender(m)'
    <2>1. \A w \in Workers : Sending(w, m)' => Sending(w, m) /\ claim'[w] = claim[w]
        BY <1>1, <1>7 DEF KeepsClaims, Sending, Busy
    <2>2. \A w \in Workers : Busy(w, m)' => Busy(w, m) /\ claim'[w] = claim[w]
        BY <1>1, <1>7 DEF KeepsClaims
    <2>3. ASSUME NEW a \in accepts'[m], a \notin accepts[m]
          PROVE  \E u \in Workers :
                    AcceptedBy(u, m) /\ a.token = claim[u].token /\ a.request = claim[u].request
        BY <1>7, <2>3 DEF AcceptedBy
    <2>4. RequestHeld(m)'
        <3>1. SUFFICES ASSUME row'[m].status = "leased"
                       PROVE  RequestHeld(m)'
            BY DEF RequestHeld
        <3>2. row[m].status = "leased" /\ resends'[m] = resends[m] /\ row'[m].token = row[m].token
            BY <1>1, <1>7, <3>1 DEF KeepsClaims
        <3>3. ASSUME NEW a \in accepts'[m], a.request = resends[m]
              PROVE  a.token = row[m].token
            BY <1>1, <2>3, <3>2, <3>3 DEF RequestHeld, AcceptedBy
        <3>. QED
            BY <1>1, <2>1, <3>2, <3>3 DEF RequestHeld
    <2>5. OneSpender(m)'
        <3>1. ASSUME NEW w \in Workers, Sending(w, m)', NEW a \in accepts'[m]
              PROVE  a.request # claim'[w].request
            BY <1>1, <2>1, <2>3, <3>1 DEF OneSpender, AcceptedBy
        <3>. QED
            BY <1>1, <2>1, <3>1 DEF OneSpender
    <2>6. TokenUnspent(m)'
        <3>1. SUFFICES ASSUME NEW w \in Workers,
                              \/ Sending(w, m)'
                              \/ Busy(w, m)' /\ outcome'[w] \in {"retry", "failed", "skipped"},
                              NEW a \in accepts'[m]
                       PROVE  a.token # claim'[w].token
            BY DEF TokenUnspent
        <3>2. Busy(w, m) /\ claim'[w] = claim[w]
            BY <1>3, <2>1, <2>2, <3>1
        <3>3. \/ Sending(w, m)
              \/ outcome[w] \in {"retry", "failed", "skipped"}
            <4>1. CASE Sending(w, m)'
                BY <2>1, <4>1
            <4>2. CASE outcome'[w] \in {"retry", "failed", "skipped"} /\ Deliver(w)
                <5>1. claim[w].msg = m /\ outcome \in [Workers -> Outcomes \cup {"none"}]
                    BY <3>2 DEF Busy, TypeOK
                <5>2. CASE phase[w] = "accepted"
                    <6>1. PICK r \in Results(m, TRUE) : outcome'[w] = Converted(m, r)
                        BY <4>2, <5>1, <5>2 DEF Deliver
                    <6>. QED
                        BY <4>2, <6>1, TakenAnswers
                <5>3. CASE phase[w] = "sending"
                    BY <5>1, <5>3 DEF Sending
                <5>. QED
                    BY <4>2, <5>2, <5>3 DEF Deliver
            <4>. QED
                BY <3>1, <4>1, <4>2, OutcomeSteps
        <3>4. CASE a \in accepts[m]
            BY <1>1, <3>2, <3>3, <3>4 DEF TokenUnspent
        <3>5. CASE a \notin accepts[m]
            <4>1. PICK u \in Workers : AcceptedBy(u, m) /\ a.token = claim[u].token
                BY <2>3, <3>5
            <4>2. u # w
                <5>1. outcome[u] = "none" /\ outcome' = outcome
                    BY <4>1 DEF AcceptedBy, Sending, WorkersConsistent
                <5>. QED
                    BY <3>1, <4>1, <5>1 DEF AcceptedBy
            <4>. QED
                BY <1>1, <1>3, <3>2, <4>1, <4>2 DEF TokensUnique, AcceptedBy
        <3>. QED
            BY <3>4, <3>5
    <2>7. RequestUnspent(m)'
        <3>. DEFINE Unspent == /\ \A a \in accepts[m] : a.request # resends'[m]
                               /\ \A w \in Workers : Sending(w, m)
                                     => claim[w].request # resends'[m]
        <3>1. ASSUME Unspent PROVE RequestUnspent(m)'
            BY <2>1, <2>3, <3>1 DEF RequestUnspent, AcceptedBy
        <3>2. ASSUME RowKept(m) PROVE RequestUnspent(m)'
            BY <1>1, <3>1, <3>2 DEF RowKept, RequestUnspent
        <3>3. ASSUME EnqueuedStep(m) PROVE RequestUnspent(m)'
            BY <1>1, <3>1, <3>3 DEF EnqueuedStep, Enqueue, RequestUnspent
        <3>4. ASSUME NEW u \in Workers, SettledBy(u, m) PROVE RequestUnspent(m)'
            <4>1. /\ phase[u] = "answered" /\ claim[u].msg = m /\ resends' = resends
                  /\ row[m].status = "leased" /\ claim[u].token = row[m].token
                  /\ row'[m].status = SettledStatus(claim[u], outcome[u])
                BY <3>4 DEF SettledBy, SettleHeld, RowMoved
            <4>2. CASE outcome[u] \in {"retry", "failed", "skipped"}
                <5>1. Busy(u, m)
                    BY <4>1 DEF Busy
                <5>2. \A a \in accepts[m] : a.token # row[m].token
                    BY <1>1, <4>1, <4>2, <5>1 DEF TokenUnspent
                <5>3. ASSUME NEW w \in Workers, Sending(w, m)
                      PROVE  claim[w].token # row[m].token
                    <6>1. w # u
                        BY <4>1, <5>3 DEF Sending
                    <6>. QED
                        BY <1>1, <1>3, <4>1, <5>1, <5>3, <6>1 DEF TokensUnique
                <5>4. Unspent
                    BY <1>1, <4>1, <5>2, <5>3 DEF RequestHeld
                <5>. QED
                    BY <3>1, <5>4
            <4>3. CASE outcome[u] \notin {"retry", "failed", "skipped"}
                <5>1. row'[m].status \in {"sent", "unknown"}
                    BY <3>4, <4>1, <4>3 DEF SettledStatus, SettledBy, Outcomes
                <5>. QED
                    BY <5>1 DEF RequestUnspent
            <4>. QED
                BY <4>2, <4>3
        <3>5. ASSUME NEW u \in Workers, ConfirmedBy(u, m) PROVE RequestUnspent(m)'
            BY <3>5 DEF ConfirmedBy, RowMoved, RequestUnspent
        <3>6. ASSUME RecoveredStep(m) PROVE RequestUnspent(m)'
            BY <1>1, <3>6 DEF RecoveredStep, RowMoved, RecoveredStatus, RequestUnspent
        <3>7. ASSUME MarkedStep(m) PROVE RequestUnspent(m)'
            BY <3>7 DEF MarkedStep, RowMoved, RequestUnspent
        <3>8. ASSUME ResentStep(m) PROVE RequestUnspent(m)'
            <4>1. resends'[m] = resends[m] + 1
                BY <3>8 DEF ResentStep
            <4>2. Unspent
                BY <1>1, <1>2, <1>3, <1>4, <4>1 DEF ClaimsIssued, AcceptsIssued, Claims
            <4>. QED
                BY <3>1, <4>2
        <3>9. ASSUME NEW u \in Workers, Claim(u, m) PROVE RequestUnspent(m)'
            BY <1>5, <3>9
        <3>. QED
            BY <1>1, <3>2, <3>3, <3>4, <3>5, <3>6, <3>7, <3>8, <3>9, RowSteps
    <2>. QED
        BY <2>4, <2>5, <2>6, <2>7
<1>. QED
    BY <1>1, <1>5, <1>6, <1>7, KeepsClaimsUnlessClaim, AcceptSteps

-----------------------------------------------------------------------------
(* Theorems *)

LEMMA OncePerRequestInductive ==
    ASSUME TypeOK, WorkersConsistent, TokensIssued, SpentOnce, AtMostOncePerRequest, [Next]_vars
    PROVE  AtMostOncePerRequest'
<1>. SUFFICES ASSUME NEW m \in AtMostOnce, NEW a \in accepts'[m], NEW b \in accepts'[m],
                     a.request = b.request
              PROVE  a = b
    BY DEF AtMostOncePerRequest, AtMostOnce
<1>1. m \in Msgs /\ \A x, y \in accepts[m] : x.request = y.request => x = y
    BY DEF AtMostOncePerRequest, AtMostOnce
<1>2. CASE accepts'[m] = accepts[m]
    BY <1>1, <1>2
<1>3. ASSUME NEW u \in Workers, AcceptedBy(u, m)
      PROVE  a = b
    <2>1. \A x \in accepts[m] : x.request # claim[u].request
        BY <1>3 DEF SpentOnce, OneSpender, AcceptedBy
    <2>. QED
        BY <1>1, <1>3, <2>1 DEF AcceptedBy
<1>4. ASSUME NEW u \in Workers, NEW x \in Msgs, Claim(u, x)
      PROVE  accepts' = accepts
    BY <1>4 DEF Claim
<1>. QED
    BY <1>1, <1>2, <1>3, <1>4, KeepsClaimsUnlessClaim, AcceptSteps

(* IInv is inductive: it holds initially, and every step of any worker, of   *)
(* the sweep, of a human or of time preserves it.                            *)
THEOREM Inductive == Spec => []IInv
<1>1. Init => IInv
    <2>. SUFFICES ASSUME Init PROVE IInv
        OBVIOUS
    <2>1. TypeOK /\ WorkersConsistent
        BY DEF Init, TypeOK, WorkersConsistent, NoRow, Rows, Statuses, Phases
    <2>2. TokensIssued
        BY DEF Init, TokensIssued, ClaimsIssued, AcceptsIssued, TokensUnique,
               AbsentUntouched, Busy
    <2>3. ClaimsCurrent /\ SpentOnce
        BY DEF Init, ClaimsCurrent, SpentOnce, RequestUnspent, RequestHeld,
               TokenUnspent, OneSpender, Busy, Sending, AtMostOnce, NoRow
    <2>4. AttemptsBounded /\ FindingsFollowRows /\ AtMostOncePerRequest
        BY DEF Init, AttemptsBounded, FindingsFollowRows, AtMostOncePerRequest,
               AtMostOnce, NoRow
    <2>. QED
        BY <2>1, <2>2, <2>3, <2>4 DEF IInv
<1>2. IInv /\ [Next]_vars => IInv'
    BY TypeInductive, TokensInductive, ClaimsInductive, AttemptsInductive,
       FindingsInductive, SpentInductive, OncePerRequestInductive DEF IInv
<1>. QED
    BY <1>1, <1>2, PTL DEF Spec

(* On an at_most_once topic the provider accepts a message at most once per  *)
(* request, whatever crashes, hangs, late answers, recoveries and resends.   *)
THEOREM DeliveredAtMostOncePerRequest == Spec => []AtMostOncePerRequest
BY Inductive, PTL DEF IInv

(* No row is ever attempted more often than its cap allows.                  *)
THEOREM AttemptsStayBounded == Spec => []AttemptsBounded
BY Inductive, PTL DEF IInv

(* An open outbox finding is always about a row still in the state it names. *)
THEOREM FindingsAlwaysFollowRows == Spec => []FindingsFollowRows
BY Inductive, PTL DEF IInv

(* An at_most_once row that is dead-lettered, skipped or waiting was not     *)
(* accepted since it was last asked for.                                     *)
THEOREM WrittenOffMeansNotSent == Spec => []WrittenOffWasNotSent
<1>1. IInv => WrittenOffWasNotSent
    BY DEF IInv, SpentOnce, RequestUnspent, WrittenOffWasNotSent
<1>. QED
    BY <1>1, Inductive, PTL

(* sent and skipped are final.                                               *)
THEOREM SettledStaysSettled == Spec => SettledIsFinal
<1>1. ASSUME IInv, [Next]_vars, NEW m \in Msgs, row[m].status \in {"sent", "skipped"}
      PROVE  row'[m].status = row[m].status
    <2>1. ASSUME NEW u \in Workers, Claim(u, m) PROVE FALSE
        BY <1>1, <2>1 DEF Claim, Due
    <2>. QED
        BY <1>1, <2>1, RowSteps DEF IInv, RowKept, EnqueuedStep, SettledBy, ConfirmedBy,
           RecoveredStep, Recover, StaleLease, MarkedStep, MarkSent, ResentStep
<1>2. IInv /\ [Next]_vars =>
         [\A m \in Msgs : row[m].status \in {"sent", "skipped"}
                              => row'[m].status = row[m].status]_vars
    BY <1>1
<1>. QED
    BY <1>2, Inductive, PTL DEF Spec, SettledIsFinal

(* No step parks a row without opening its finding.                          *)
THEOREM ParkedRowsAreReported == Spec => ParkedIsReported
<1>. DEFINE Reported(m) ==
         /\ row'[m].status = "unknown" /\ row[m].status # "unknown"
               => "outbox.unknown" \in open'[m]
         /\ row'[m].status = "failed" /\ row[m].status # "failed"
               => "outbox.failed" \in open'[m]
<1>1. ASSUME IInv, [Next]_vars, NEW m \in Msgs
      PROVE  Reported(m)
    <2>1. ASSUME NEW u \in Workers, Claim(u, m) PROVE row'[m].status = "leased"
        BY <1>1, <2>1, ClaimFacts DEF IInv
    <2>. QED
        BY <1>1, <2>1, RowSteps DEF IInv, RowKept, RowMoved, EnqueuedStep, SettledBy,
           ConfirmedBy, RecoveredStep, MarkedStep, ResentStep, OpenedBy
<1>2. IInv /\ [Next]_vars => [\A m \in Msgs : Reported(m)]_vars
    BY <1>1
<1>. QED
    BY <1>2, Inductive, PTL DEF Spec, ParkedIsReported

-----------------------------------------------------------------------------
(* Refinement: every step of the outbox is a step of OutboxPromise, or none. *)

(* What the acceptances have to do with the claims: there are finitely many, *)
(* none under the token of a worker that is still sending, and one at least  *)
(* once a worker says so; a message nobody enqueued was not asked for again. *)
AcceptsCounted(m) ==
    /\ IsFiniteSet(accepts[m])
    /\ \A w \in Workers : Sending(w, m) => \A a \in accepts[m] : a.token # claim[w].token
    /\ \A w \in Workers : Busy(w, m) /\ (phase[w] \in {"accepted", "late"} \/ outcome[w] = "sent")
                              => accepts[m] # {}
    /\ row[m].status = "absent" => resends[m] = 0

PromiseInv == \A m \in Msgs : AcceptsCounted(m)

(* A worker whose call the provider took has just had it taken, or had it    *)
(* before; only one with a SENT to report is late.                           *)
LEMMA AcceptedPhases ==
    ASSUME TypeOK, WorkersConsistent, [Next]_vars, NEW w \in Workers,
           phase'[w] \in {"accepted", "late"}
    PROVE  phase'[w] = phase[w] \/ ProviderAccepts(w) \/ outcome[w] = "sent"
<1>1. CASE UNCHANGED vars
    BY <1>1 DEF vars
<1>2. ASSUME NEW m \in Msgs, NEW u \in Workers, Claim(u, m)
      PROVE  phase'[w] = phase[w]
    BY <1>2, ClaimFacts
<1>3. ASSUME NEW u \in Workers, ProviderAccepts(u)
      PROVE  phase'[w] = phase[w] \/ ProviderAccepts(w)
    BY <1>3, AcceptFacts
<1>4. ASSUME NEW u \in Workers, Deliver(u) \/ SettleHeld(u) \/ SettleLost(u) \/ Late(u) \/ Crash(u)
      PROVE  phase'[w] = phase[w] \/ outcome[w] = "sent"
    <2>1. CASE Deliver(u)
        BY <2>1 DEF Deliver, TypeOK
    <2>2. CASE Release(u)
        BY <2>2, ReleaseFacts
    <2>3. CASE SettleLost(u)
        BY <2>2, <2>3 DEF SettleLost, TypeOK
    <2>. QED
        BY <1>4, <2>1, <2>2, <2>3 DEF SettleHeld, Late, Crash
<1>5. ASSUME NEW m \in Msgs, NEW kind \in Kinds,
             \/ Enqueue(m) \/ BackoffElapses(m) \/ LeaseExpires(m)
             \/ Recover(m) \/ MarkSent(m) \/ Resend(m) \/ Dismiss(m, kind)
      PROVE  phase' = phase
    BY <1>5 DEF Enqueue, BackoffElapses, LeaseExpires, Recover, MarkSent, Resend, Dismiss,
                workerVars
<1>. QED
    BY NextCases, <1>1, <1>2, <1>3, <1>4, <1>5 DEF Kinds

LEMMA SentIsTrue ==
    ASSUME NEW m, NEW r \in Results(m, FALSE)
    PROVE  Converted(m, r) # "sent"
<1>1. r \in {"retry", "failed", "skipped", "unknown", "not_configured", "transient",
             "permanent", "not_an_outcome"}
    BY DEF Results, Outcomes, Raised
<1>. QED
    BY <1>1 DEF Converted, Outcomes

LEMMA PromiseInvInductive ==
    ASSUME TypeOK, WorkersConsistent, TokensIssued, PromiseInv, [Next]_vars
    PROVE  PromiseInv'
<1>. SUFFICES ASSUME NEW m \in Msgs PROVE AcceptsCounted(m)'
    BY DEF PromiseInv
<1>1. AcceptsCounted(m) /\ AcceptsIssued(m) /\ ClaimsIssued(m) /\ TokensUnique(m)
    BY DEF PromiseInv, TokensIssued
<1>2. row[m] \in Rows /\ resends[m] \in Nat
      /\ \A a \in accepts[m] : a \in [token : Nat, request : Nat]
    BY DEF TypeOK
<1>3. \A w \in Workers : Busy(w, m) => claim[w] \in Claims
    BY BusyHoldsClaim DEF Busy
<1>4. ASSUME NEW u \in Workers, NEW x \in Msgs, Claim(u, x) PROVE AcceptsCounted(m)'
    <2>1. UNCHANGED <<resends, accepts, outcome>> /\ phase'[u] = "sending" /\ outcome[u] = "none"
        BY <1>4, ClaimFacts DEF WorkersConsistent
    <2>2. \A w \in Workers \ {u} : phase'[w] = phase[w] /\ claim'[w] = claim[w]
        BY <1>4, ClaimFacts
    <2>3. ASSUME NEW w \in Workers, Sending(w, m)', NEW a \in accepts[m]
          PROVE  a.token # claim'[w].token
        <3>1. CASE w = u
            <4>1. x = m /\ claim'[u].token = row[m].token + 1
                BY <1>4, <2>3, <3>1, ClaimFacts DEF Sending
            <4>. QED
                BY <1>1, <1>2, <3>1, <4>1 DEF AcceptsIssued, Rows
        <3>2. CASE w # u
            BY <1>1, <2>2, <2>3, <3>2 DEF AcceptsCounted, Sending
        <3>. QED
            BY <3>1, <3>2
    <2>4. ASSUME NEW w \in Workers, Busy(w, m)',
                 phase'[w] \in {"accepted", "late"} \/ outcome'[w] = "sent"
          PROVE  accepts[m] # {}
        <3>1. w # u
            BY <2>1, <2>4
        <3>. QED
            BY <1>1, <2>1, <2>2, <2>4, <3>1 DEF AcceptsCounted, Busy
    <2>5. row'[m].status = "absent" => row[m].status = "absent"
        BY <1>4, ClaimFacts
    <2>. QED
        BY <1>1, <2>1, <2>3, <2>4, <2>5 DEF AcceptsCounted
<1>5. ASSUME \A u \in Workers, x \in Msgs : ~Claim(u, x) PROVE AcceptsCounted(m)'
    <2>1. KeepsClaims
        BY <1>5, KeepsClaimsUnlessClaim
    <2>2. /\ \A w \in Workers : Busy(w, m)' => Busy(w, m) /\ claim'[w] = claim[w]
          /\ \A w \in Workers : Sending(w, m)' => Sending(w, m) /\ Busy(w, m)'
          /\ row'[m].status = "absent" => row'[m] = row[m]
        BY <2>1 DEF KeepsClaims, Sending, Busy
    <2>3. accepts'[m] = accepts[m] \/ \E u \in Workers : AcceptedBy(u, m)
        BY <2>1, AcceptSteps
    <2>4. IsFiniteSet(accepts'[m]) /\ (accepts[m] # {} => accepts'[m] # {})
        <3>1. PICK e : accepts'[m] = accepts[m] \/ accepts'[m] = accepts[m] \cup {e}
            BY <2>3 DEF AcceptedBy
        <3>2. IsFiniteSet(accepts[m]) /\ IsFiniteSet(accepts[m] \cup {e})
            BY <1>1, FS_AddElement DEF AcceptsCounted
        <3>. QED
            BY <3>1, <3>2
    <2>5. ASSUME NEW w \in Workers, Sending(w, m)', NEW a \in accepts'[m]
          PROVE  a.token # claim'[w].token
        <3>1. Sending(w, m) /\ Busy(w, m) /\ claim'[w] = claim[w]
            BY <2>2, <2>5
        <3>2. CASE a \in accepts[m]
            BY <1>1, <3>1, <3>2 DEF AcceptsCounted
        <3>3. ASSUME NEW u \in Workers, AcceptedBy(u, m), a \notin accepts[m]
              PROVE  a.token # claim'[w].token
            <4>1. a.token = claim[u].token /\ u # w /\ Busy(u, m)
                BY <2>5, <3>3 DEF AcceptedBy, Sending, Busy
            <4>. QED
                BY <1>1, <3>1, <4>1 DEF TokensUnique
        <3>. QED
            BY <2>3, <2>5, <3>2, <3>3
    <2>6. ASSUME NEW w \in Workers, Busy(w, m)', phase'[w] \in {"accepted", "late"}
          PROVE  accepts'[m] # {}
        <3>1. CASE phase'[w] = phase[w] \/ outcome[w] = "sent"
            BY <1>1, <2>2, <2>4, <2>6, <3>1 DEF AcceptsCounted
        <3>2. CASE ProviderAccepts(w)
            BY <2>2, <2>6, <3>2, AcceptFacts DEF Busy
        <3>. QED
            BY <2>6, <3>1, <3>2, AcceptedPhases
    <2>7. ASSUME NEW w \in Workers, Busy(w, m)', outcome'[w] = "sent"
          PROVE  accepts'[m] # {}
        <3>1. CASE outcome'[w] = outcome[w]
            BY <1>1, <2>2, <2>4, <2>7, <3>1 DEF AcceptsCounted
        <3>2. CASE Deliver(w)
            <4>1. phase[w] # "accepted" => phase[w] = "accepted"
              <5> SUFFICES ASSUME phase[w] # "accepted" PROVE FALSE
                OBVIOUS
              <5>1. PICK r \in Results(claim[w].msg, FALSE) :
                        outcome'[w] = Converted(claim[w].msg, r)
                BY <3>2 DEF Deliver, TypeOK
              <5>. QED
                BY <2>7, <5>1, SentIsTrue
            <4>. QED
                BY <1>1, <2>2, <2>4, <2>7, <4>1 DEF AcceptsCounted
        <3>. QED
            BY <2>7, <3>1, <3>2, OutcomeSteps
    <2>8. row'[m].status = "absent" => resends'[m] = 0
        <3>1. ASSUME row'[m].status = "absent" PROVE resends'[m] = resends[m] /\ row[m].status = "absent"
            BY <1>5, <2>2, <3>1, RowSteps
               DEF RowKept, EnqueuedStep, SettledBy, RowMoved, SettledStatus, ConfirmedBy,
                   RecoveredStep, RecoveredStatus, MarkedStep, ResentStep
        <3>. QED
            BY <1>1, <3>1 DEF AcceptsCounted
    <2>. QED
        BY <2>4, <2>5, <2>6, <2>7, <2>8 DEF AcceptsCounted
<1>. QED
    BY <1>4, <1>5

LEMMA PromiseInductive == Spec => []PromiseInv
<1>1. Init => PromiseInv
    BY FS_EmptySet DEF Init, PromiseInv, AcceptsCounted, Sending, Busy
<1>2. IInv /\ PromiseInv /\ [Next]_vars => PromiseInv'
    BY PromiseInvInductive DEF IInv
<1>. QED
    BY <1>1, <1>2, Inductive, PTL DEF Spec

(* Where the promise about a message stands, by its row's status.            *)
StateOf(status) ==
    CASE status \in {"pending", "leased", "retry"} -> "owed"
      [] status = "failed"                         -> "dead"
      [] status = "unknown"                        -> "asked"
      [] OTHER                                     -> status

LEMMA PromiseStateAt ==
    /\ PromiseState = [m \in Msgs |-> StateOf(row[m].status)]
    /\ PromiseState' = [m \in Msgs |-> StateOf(row'[m].status)]
BY DEF PromiseState, StateOf

LEMMA StatesOf ==
    /\ StateOf("absent") = "absent"
    /\ \A s \in {"pending", "leased", "retry"} : StateOf(s) = "owed"
    /\ StateOf("failed") = "dead"
    /\ StateOf("unknown") = "asked"
    /\ \A s \in {"sent", "skipped"} : StateOf(s) = s
BY DEF StateOf

(* A step that changes one message's status, or none's, is an update of the  *)
(* promise about that message.                                               *)
LEMMA PromiseMoves ==
    ASSUME NEW x \in Msgs, \A m \in Msgs \ {x} : row'[m].status = row[m].status
    PROVE  /\ PromiseState[x] = StateOf(row[x].status)
           /\ PromiseState' = [PromiseState EXCEPT ![x] = StateOf(row'[x].status)]
           /\ StateOf(row'[x].status) = StateOf(row[x].status) => PromiseState' = PromiseState
BY PromiseStateAt

LEMMA PromiseStays ==
    ASSUME \A m \in Msgs : row'[m].status = row[m].status
    PROVE  PromiseState' = PromiseState
BY PromiseStateAt

(* A step that neither enqueues nor resends asks for nothing again.          *)
LEMMA RequestsStay ==
    ASSUME resends' = resends,
           \A m \in Msgs : row'[m].status = "absent" <=> row[m].status = "absent"
    PROVE  PromiseRequests' = PromiseRequests
BY DEF PromiseRequests

(* An enqueue, and a resend, ask once more.                                  *)
LEMMA RequestAgain ==
    ASSUME NEW x \in Msgs, row'[x].status # "absent",
           \A m \in Msgs \ {x} : row'[m] = row[m] /\ resends'[m] = resends[m],
           \/ row[x].status = "absent" /\ resends[x] = 0 /\ resends'[x] = 0
           \/ row[x].status # "absent" /\ resends'[x] = resends[x] + 1 /\ resends[x] \in Nat
    PROVE  PromiseRequests' = [PromiseRequests EXCEPT ![x] = @ + 1]
<1>. DEFINE Asked(m) == IF row[m].status = "absent" THEN 0 ELSE 1 + resends[m]
<1>1. PromiseRequests = [m \in Msgs |-> Asked(m)] /\ PromiseRequests' = [m \in Msgs |-> Asked(m)']
    BY DEF PromiseRequests
<1>2. Asked(x)' = Asked(x) + 1
    OBVIOUS
<1>3. \A m \in Msgs \ {x} : Asked(m)' = Asked(m)
    OBVIOUS
<1>. HIDE DEF Asked
<1>. QED
    BY <1>1, <1>2, <1>3

Accepted == [m \in Msgs |-> Cardinality(accepts[m])]

(* A step of the outbox that moves one message as the abstract outbox does.  *)
PromiseStep ==
    Promise!PromiseNext \/ (PromiseState' = PromiseState /\ PromiseRequests' = PromiseRequests
                            /\ Accepted' = Accepted)

LEMMA Confirms ==
    ASSUME PromiseInv, NEW x \in Msgs, accepts[x] # {},
           row[x].status \in {"leased", "unknown", "retry", "failed"}, row'[x].status = "sent",
           \A m \in Msgs \ {x} : row'[m].status = row[m].status,
           UNCHANGED <<resends, accepts>>
    PROVE  Promise!PromiseNext
<1>1. Accepted' = Accepted
    BY DEF Accepted
<1>2. Accepted[x] > 0
    BY FS_EmptySet, FS_CardinalityType DEF Accepted, PromiseInv, AcceptsCounted
<1>3. PromiseRequests' = PromiseRequests
    BY RequestsStay
<1>4. /\ PromiseState[x] \in {"owed", "dead", "asked"}
      /\ PromiseState' = [PromiseState EXCEPT ![x] = "sent"]
    BY PromiseMoves, StatesOf
<1>5. Promise!Confirm(x)
    BY <1>1, <1>2, <1>3, <1>4 DEF Promise!Confirm, Promise!Becomes, Accepted
<1>. QED
    BY <1>5 DEF Promise!PromiseNext

LEMMA Closes ==
    ASSUME NEW x \in Msgs,
           \/ row[x].status = "leased" /\ row'[x].status \in {"skipped", "failed", "unknown"}
           \/ row[x].status = "unknown" /\ row'[x].status = "sent",
           \A m \in Msgs \ {x} : row'[m].status = row[m].status,
           UNCHANGED <<resends, accepts>>
    PROVE  Promise!PromiseNext
<1>1. Accepted' = Accepted
    BY DEF Accepted
<1>2. PromiseRequests' = PromiseRequests
    BY RequestsStay
<1>3. \/ /\ PromiseState[x] = "owed"
         /\ \/ PromiseState' = [PromiseState EXCEPT ![x] = "skipped"]
            \/ PromiseState' = [PromiseState EXCEPT ![x] = "dead"]
            \/ PromiseState' = [PromiseState EXCEPT ![x] = "asked"]
      \/ PromiseState[x] = "asked" /\ PromiseState' = [PromiseState EXCEPT ![x] = "sent"]
    BY PromiseMoves, StatesOf
<1>4. Promise!Close(x)
    BY <1>1, <1>2, <1>3 DEF Promise!Close, Promise!Becomes, Accepted
<1>. QED
    BY <1>4 DEF Promise!PromiseNext

(* The provider's acceptance: of a message that was asked for, and on an     *)
(* at_most_once topic for a request of which it has accepted nothing yet.    *)
LEMMA Accepts ==
    ASSUME IInv, PromiseInv, NEW u \in Workers, ProviderAccepts(u)
    PROVE  Promise!PromiseNext
<1>. DEFINE x == claim[u].msg
            e == [token |-> claim[u].token, request |-> claim[u].request]
<1>1. TypeOK /\ WorkersConsistent /\ TokensIssued /\ SpentOnce /\ AtMostOncePerRequest
    BY DEF IInv
<1>2. /\ claim[u] \in Claims /\ Sending(u, x) /\ Busy(u, x)
      /\ accepts'[x] = accepts[x] \cup {e}
      /\ \A m \in Msgs \ {x} : accepts'[m] = accepts[m]
      /\ row' = row /\ resends' = resends
    BY <1>1, AcceptFacts DEF Sending, Busy
<1>3. x \in Msgs /\ claim[u].request \in Nat
    BY <1>2 DEF Claims
<1>4. /\ AcceptsCounted(x) /\ IsFiniteSet(accepts[x]) /\ e \notin accepts[x]
      /\ row[x].status # "absent"
      /\ claim[u].request <= resends[x]
    BY <1>1, <1>2, <1>3 DEF PromiseInv, AcceptsCounted, TokensIssued, AbsentUntouched, ClaimsIssued
<1>. HIDE DEF x, e
<1>5. /\ Cardinality(accepts'[x]) = Cardinality(accepts[x]) + 1
      /\ Cardinality(accepts[x]) \in Nat
    BY <1>2, <1>4, FS_AddElement, FS_CardinalityType
<1>6. Accepted' = [Accepted EXCEPT ![x] = @ + 1]
    BY <1>2, <1>3, <1>5 DEF Accepted
<1>7. PromiseState' = PromiseState /\ PromiseRequests' = PromiseRequests
    BY <1>2, PromiseStays, RequestsStay
<1>8. PromiseState[x] # "absent"
    <2>1. row[x].status \in Statuses \ {"absent"}
        BY <1>1, <1>3, <1>4 DEF TypeOK, Rows
    <2>. QED
        BY <1>3, <2>1, PromiseStateAt, StatesOf DEF Statuses
<1>9. ASSUME x \notin AtLeastOnce PROVE Accepted[x] < PromiseRequests[x]
    <2>. DEFINE T == (0..resends[x]) \ {claim[u].request}
                f == [a \in accepts[x] |-> a.request]
    <2>1. x \in AtMostOnce /\ resends[x] \in Nat
        BY <1>1, <1>3, <1>9 DEF AtMostOnce, TypeOK
    <2>2. IsFiniteSet(T) /\ Cardinality(T) = resends[x]
        <3>1. IsFiniteSet(0..resends[x]) /\ Cardinality(0..resends[x]) = resends[x] + 1
            BY <2>1, FS_Interval
        <3>2. claim[u].request \in 0..resends[x]
            BY <1>3, <1>4, <2>1
        <3>3. IsFiniteSet(T) /\ Cardinality(T) = Cardinality(0..resends[x]) - 1
            BY <3>1, <3>2, FS_RemoveElement
        <3>. QED
            BY <2>1, <3>1, <3>3
    <2>3. \A a \in accepts[x] : a.request \in 0..resends[x] /\ a.request # claim[u].request
        <3>1. \A a \in accepts[x] : a \in [token : Nat, request : Nat]
            BY <1>1, <1>3 DEF TypeOK
        <3>2. AcceptsIssued(x) /\ OneSpender(x)
            BY <1>1, <1>3, <2>1 DEF TokensIssued, SpentOnce
        <3>3. \A a \in accepts[x] : a.request # claim[u].request
            BY <1>2, <3>2 DEF OneSpender
        <3>. QED
            BY <2>1, <3>1, <3>2, <3>3 DEF AcceptsIssued
    <2>4. \A a, b \in accepts[x] : a.request = b.request => a = b
        BY <1>1, <2>1 DEF AtMostOncePerRequest
    <2>5. f \in [accepts[x] -> T]
        BY <2>3
    <2>6. ~ \E a, b \in accepts[x] : a # b /\ f[a] = f[b]
        BY <2>4
    <2>. HIDE DEF T, f
    <2>7. ~ (Cardinality(T) < Cardinality(accepts[x]))
        BY <1>4, <2>2, <2>5, <2>6, FS_PigeonHole
    <2>8. Cardinality(accepts[x]) <= resends[x]
        BY <1>5, <2>1, <2>2, <2>7
    <2>9. Accepted[x] = Cardinality(accepts[x]) /\ PromiseRequests[x] = 1 + resends[x]
        BY <1>3, <1>4 DEF Accepted, PromiseRequests
    <2>. QED
        BY <1>5, <2>1, <2>8, <2>9
<1>10. Promise!Accept(x)
    BY <1>6, <1>7, <1>8, <1>9 DEF Promise!Accept, Accepted
<1>. QED
    BY <1>3, <1>10 DEF Promise!PromiseNext

(* A worker settles: what was taken is confirmed, what can be is tried       *)
(* again, the rest is closed.                                                *)
LEMMA Settles ==
    ASSUME IInv, PromiseInv, NEW u \in Workers, SettleHeld(u)
    PROVE  PromiseStep
<1>. DEFINE x == claim[u].msg
            s == SettledStatus(claim[u], outcome[u])
<1>1. TypeOK /\ WorkersConsistent
    BY DEF IInv
<1>2. claim[u] \in Claims /\ outcome[u] \in Outcomes /\ Busy(u, x)
    BY <1>1, BusyHoldsClaim DEF SettleHeld, TypeOK, WorkersConsistent, Busy
<1>3. x \in Msgs /\ s \in Statuses \cap Outcomes /\ (s = "sent" => outcome[u] = "sent")
    BY <1>2, SettledStatusIsStatus DEF Claims, SettledStatus
<1>4. /\ MoveTo(x, s) /\ row[x].status = "leased" /\ UNCHANGED <<resends, accepts>>
    BY DEF SettleHeld, HoldsLease
<1>. HIDE DEF x, s
<1>5. row'[x].status = s /\ \A m \in Msgs \ {x} : row'[m].status = row[m].status
    BY <1>1, <1>3, <1>4, MoveFacts
<1>6. CASE s = "sent"
    <2>1. accepts[x] # {}
        BY <1>2, <1>3, <1>6 DEF PromiseInv, AcceptsCounted
    <2>. QED
        BY <1>3, <1>4, <1>5, <1>6, <2>1, Confirms DEF PromiseStep
<1>7. CASE s = "retry"
    BY <1>3, <1>4, <1>5, <1>7, PromiseMoves, StatesOf, RequestsStay DEF PromiseStep, Accepted
<1>8. CASE s \in {"skipped", "failed", "unknown"}
    BY <1>3, <1>4, <1>5, <1>8, Closes DEF PromiseStep
<1>. QED
    BY <1>3, <1>6, <1>7, <1>8 DEF Outcomes

(* A late SENT confirms a row that was parked or waits for another attempt.  *)
LEMMA LateConfirms ==
    ASSUME IInv, PromiseInv, NEW u \in Workers, Late(u)
    PROVE  PromiseStep
<1>. DEFINE x == claim[u].msg
<1>1. TypeOK /\ WorkersConsistent
    BY DEF IInv
<1>2. claim[u] \in Claims /\ Busy(u, x)
    BY <1>1, BusyHoldsClaim DEF Late, Busy
<1>3. x \in Msgs
    BY <1>2 DEF Claims
<1>4. UNCHANGED <<resends, accepts>>
    BY DEF Late
<1>5. CASE ParkedUnder(claim[u]) /\ MoveTo(x, "sent")
    <2>2. accepts[x] # {}
        BY <1>2, <1>3 DEF Late, PromiseInv, AcceptsCounted
    <2>3. row'[x].status = "sent" /\ \A m \in Msgs \ {x} : row'[m].status = row[m].status
        BY <1>1, <1>3, <1>5, MoveFacts, StatusNames
    <2>4. row[x].status \in {"unknown", "retry", "failed"}
        BY <1>5 DEF ParkedUnder
    <2>. QED
        BY <1>3, <1>4, <2>2, <2>3, <2>4, Confirms DEF PromiseStep
<1>6. CASE UNCHANGED row
    BY <1>4, <1>6, PromiseStays, RequestsStay DEF PromiseStep, Accepted
<1>. QED
    BY <1>5, <1>6 DEF Late

(* The sweep and the humans: parked, dead, asked, or owed again.             *)
LEMMA RowStepsPromise ==
    ASSUME IInv, PromiseInv, NEW x \in Msgs, RowStep(x)
    PROVE  PromiseStep
<1>1. TypeOK /\ WorkersConsistent /\ AcceptsCounted(x) /\ accepts' = accepts
    BY DEF IInv, PromiseInv, RowStep, Enqueue, BackoffElapses, LeaseExpires, Recover, MarkSent, Resend
<1>2. Accepted' = Accepted
    BY <1>1 DEF Accepted
<1>3. CASE Enqueue(x)
    <2>1. /\ row[x].status = "absent" /\ row'[x].status = "pending" /\ resends' = resends
          /\ \A m \in Msgs \ {x} : row'[m] = row[m]
        BY <1>1, <1>3 DEF Enqueue, TypeOK, NoRow
    <2>2. PromiseRequests' = [PromiseRequests EXCEPT ![x] = @ + 1]
        BY <1>1, <2>1, RequestAgain DEF AcceptsCounted
    <2>3. Promise!Request(x, {"absent"})
        BY <1>2, <2>1, <2>2, PromiseMoves, StatesOf DEF Promise!Request, Promise!Becomes, Accepted
    <2>. QED
        BY <2>3 DEF PromiseStep, Promise!PromiseNext
<1>4. CASE BackoffElapses(x) \/ LeaseExpires(x)
    <2>1. resends' = resends /\ \A m \in Msgs : row'[m].status = row[m].status
        BY <1>1, <1>4 DEF BackoffElapses, LeaseExpires, TypeOK, Rows
    <2>. QED
        BY <1>2, <2>1, PromiseStays, RequestsStay DEF PromiseStep
<1>5. CASE Recover(x)
    <2>1. /\ RecoveredStatus(x) \in {"unknown", "failed", "retry"}
          /\ row[x].status = "leased" /\ resends' = resends
          /\ MoveTo(x, RecoveredStatus(x))
        BY <1>5 DEF Recover, StaleLease, RecoveredStatus
    <2>2. /\ row'[x].status = RecoveredStatus(x)
          /\ \A m \in Msgs \ {x} : row'[m].status = row[m].status
        BY <1>1, <2>1, MoveFacts DEF Statuses
    <2>3. CASE RecoveredStatus(x) = "retry"
        BY <1>2, <2>1, <2>2, <2>3, PromiseMoves, StatesOf, RequestsStay DEF PromiseStep
    <2>4. CASE RecoveredStatus(x) \in {"unknown", "failed"}
        BY <1>1, <2>1, <2>2, <2>4, Closes DEF PromiseStep
    <2>. QED
        BY <2>1, <2>3, <2>4
<1>6. CASE MarkSent(x)
    <2>1. row[x].status = "unknown" /\ resends' = resends /\ MoveTo(x, "sent")
        BY <1>6 DEF MarkSent
    <2>2. row'[x].status = "sent" /\ \A m \in Msgs \ {x} : row'[m].status = row[m].status
        BY <1>1, <2>1, MoveFacts, StatusNames
    <2>. QED
        BY <1>1, <2>1, <2>2, Closes DEF PromiseStep
<1>7. CASE Resend(x)
    <2>1. /\ row[x].status = "unknown" /\ row'[x].status = "retry"
          /\ \A m \in Msgs \ {x} : row'[m] = row[m] /\ resends'[m] = resends[m]
          /\ resends'[x] = resends[x] + 1 /\ resends[x] \in Nat
        BY <1>1, <1>7 DEF Resend, TypeOK
    <2>2. PromiseRequests' = [PromiseRequests EXCEPT ![x] = @ + 1]
        BY <2>1, RequestAgain
    <2>3. Promise!Request(x, {"asked"})
        BY <1>2, <2>1, <2>2, PromiseMoves, StatesOf DEF Promise!Request, Promise!Becomes, Accepted
    <2>. QED
        BY <2>3 DEF PromiseStep, Promise!PromiseNext
<1>. QED
    BY <1>3, <1>4, <1>5, <1>6, <1>7 DEF RowStep

(* Step simulation.                                                          *)
LEMMA PromiseSimulation ==
    ASSUME IInv, PromiseInv, [Next]_vars
    PROVE  PromiseStep
<1>1. CASE UNCHANGED vars
    BY <1>1, PromiseStays, RequestsStay DEF PromiseStep, Accepted, vars
<1>2. ASSUME NEW u \in Workers, Deliver(u) \/ SettleLost(u) \/ Crash(u) PROVE PromiseStep
    BY <1>2, PromiseStays, RequestsStay
       DEF PromiseStep, Accepted, Deliver, SettleLost, Crash
<1>3. ASSUME NEW x \in Msgs, NEW kind \in Kinds, Dismiss(x, kind) PROVE PromiseStep
    BY <1>3, PromiseStays, RequestsStay DEF PromiseStep, Accepted, Dismiss
<1>4. ASSUME NEW u \in Workers, NEW x \in Msgs, Claim(u, x) PROVE PromiseStep
    <2>1. /\ row[x].status \in {"pending", "retry"} /\ row'[x].status = "leased"
          /\ \A m \in Msgs \ {x} : row'[m] = row[m]
          /\ UNCHANGED <<resends, accepts>>
        BY <1>4, ClaimFacts DEF IInv
    <2>. QED
        BY <2>1, PromiseMoves, StatesOf, RequestsStay DEF PromiseStep, Accepted
<1>5. ASSUME NEW u \in Workers, ProviderAccepts(u) PROVE PromiseStep
    BY <1>5, Accepts DEF PromiseStep
<1>. QED
    BY <1>1, <1>2, <1>3, <1>4, <1>5, Settles, LateConfirms, RowStepsPromise
       DEF Next, WorkerStep

(* The outbox implements OutboxPromise, for any messages, workers, attempts  *)
(* and resends.                                                              *)
THEOREM OutboxKeepsPromise == Spec => KeepsPromise
<1>1. Init => Promise!PromiseInit
    BY FS_EmptySet DEF Init, Promise!PromiseInit, PromiseState, PromiseRequests, NoRow
<1>2. IInv /\ PromiseInv /\ [Next]_vars => [Promise!PromiseNext]_(Promise!promiseVars)
    BY PromiseSimulation DEF PromiseStep, Promise!promiseVars, Accepted
<1>. QED
    BY <1>1, <1>2, Inductive, PromiseInductive, PTL DEF Spec, KeepsPromise, Promise!PromiseSpec
=============================================================================
