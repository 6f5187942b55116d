------------------------------- MODULE Client -------------------------------
(* The browser's side of a session: the one transport of the frontend        *)
(* (frontend/src/core/lib/api/client.ts), the cookie jar its tabs share, and *)
(* what the API answers.  A call that is answered 401 waits for the refresh  *)
(* of its tab, which every call of the tab shares, and is sent once more.    *)
(*                                                                           *)
(* One login is followed: its rows are numbered, each rotation ends one and  *)
(* starts the next (tokens.py).  A call carries the access cookie of a row,  *)
(* a refresh the refresh token of a row.  Calls and answers are in flight    *)
(* for any time and may be lost; a tab gives up at its timeout, and what it  *)
(* sent may still arrive.  The CSRF cookie names the row of the access       *)
(* cookie, with which it is set and cleared, and adds nothing; the liveness  *)
(* cache (Sessions) is taken to be up to date.                               *)
EXTENDS Naturals
CONSTANTS
    Tabs,    \* the open tabs: each has its own module state
    Calls,   \* bound: the calls of the pages, each made once
    TabOf,   \* [Calls -> Tabs]
    Kind,    \* [Calls -> {"call", "logout"}]
    MaxRow   \* bound: rows of the login

None   == 0      \* no cookie
Nobody == "-"    \* who waits for a refresh that was given up

\* A message tells from its name what it is about.
NamesAssumption == /\ TabOf \in [Calls -> Tabs] /\ Calls \cap Tabs = {}
                   /\ Nobody \notin Calls \cup Tabs

VARIABLES
    jar,     \* [access, refresh]: the cookies of the browser
    tip,     \* the row that is not rotated yet
    ended,   \* how the login ended: "no", "logout", "late" or "reuse"
    state,   \* [Calls -> ...]: where each call is, or how it was settled
    asking,  \* the tabs whose `refreshing` is set
    wire,    \* the messages in flight, either way
    effects, \* history, [Calls -> Nat]: how often the API acted on the call
    tries,   \* history, [Calls -> Nat]: how often it was sent
    crossed  \* history: a refresh met another tab's, or one that was given up

vars == <<jar, tip, ended, state, asking, wire, effects, tries, crossed>>

Signed(s) == [access |-> s, refresh |-> s]

Init ==
    /\ jar = Signed(1) /\ tip = 1 /\ ended = "no"
    /\ state = [c \in Calls |-> "new"]
    /\ asking = {} /\ wire = {}
    /\ effects = [c \in Calls |-> 0] /\ tries = [c \in Calls |-> 0]
    /\ crossed = FALSE

-----------------------------------------------------------------------------
(* Messages: a call (try tells it from its replay), a refresh, an answer.    *)
Sent(c, s)    == [to |-> "api", of |-> c, try |-> tries[c] + 1, with |-> s]
Asked(t)      == [to |-> "refresh", of |-> t, try |-> 1, with |-> jar.refresh]
Answers(m, what, s) == (wire \ {m}) \cup {[m EXCEPT !.to = what, !.with = s]}
RefreshOf(who) == {m \in wire : m.of \in who}
Waiters(t)     == {c \in Calls : TabOf[c] = t /\ state[c] = "refreshing"}

(* send(): the cookies are those of the moment it is sent.                   *)
MakeCall(c) ==
    /\ state[c] = "new"
    /\ state' = [state EXCEPT ![c] = "waiting"]
    /\ wire' = wire \cup {Sent(c, jar.access)}
    /\ tries' = [tries EXCEPT ![c] = @ + 1]
    /\ UNCHANGED <<jar, tip, ended, asking, effects, crossed>>

-----------------------------------------------------------------------------
(* The API *)

Alive(s) == s = tip /\ ended = "no"

(* CookieJWTAuthentication: no cookie, or one that is no longer good, is a   *)
(* 401.  A logout revokes the row it came with, and clears the cookies.      *)
ServeCall(m) ==
    LET out == Kind[m.of] = "logout" IN
    /\ m.to = "api"
    /\ IF Alive(m.with)
       THEN /\ effects' = [effects EXCEPT ![m.of] = @ + 1]
            /\ ended' = IF out THEN "logout" ELSE ended
            /\ wire' = Answers(m, IF out THEN "clear" ELSE "done", None)
       ELSE /\ wire' = Answers(m, "401", None)
            /\ UNCHANGED <<effects, ended>>
    /\ UNCHANGED <<jar, tip, state, asking, tries, crossed>>

(* RefreshView and tokens.rotate(): the current row is rotated; the one      *)
(* before it is answered with the current row's tokens within the grace;     *)
(* any other ends the login.  A refusal clears the cookies.                  *)
Rotate(m) ==
    /\ m.with \in {tip, tip - 1} \ {None} /\ ended = "no"
    /\ tip' = IF m.with = tip THEN tip + 1 ELSE tip
    /\ tip' <= MaxRow
    /\ wire' = Answers(m, "set", tip')
    /\ UNCHANGED ended

Refuse(m) ==
    /\ m.with = None \/ ended # "no" \/ m.with < tip
    /\ ended' = IF m.with = None \/ ended # "no" THEN ended
                ELSE IF m.with = tip - 1 THEN "late" ELSE "reuse"
    /\ wire' = Answers(m, "clear", None)
    /\ UNCHANGED tip

ServeRefresh(m) ==
    /\ m.to = "refresh"
    /\ Rotate(m) \/ Refuse(m)
    /\ UNCHANGED <<jar, state, asking, effects, tries, crossed>>

-----------------------------------------------------------------------------
(* The answers.  The browser applies their cookies first.                    *)

Cookies(m) ==
    jar' = IF m.to \in {"set", "clear"} THEN Signed(m.with) ELSE jar

(* refreshOnce(): the tab's refresh, unless one is under way.                *)
MutShared(t) == FALSE
Shared(t) == t \in asking

GetAnswer(m) ==
    LET c == m.of
        t == TabOf[c] IN
    /\ c \in Calls /\ m.to # "api"
    /\ state[c] = IF m.try = 1 THEN "waiting" ELSE "replayed"
    /\ Cookies(m)
    /\ IF m.to = "401" /\ m.try = 1
       THEN /\ state' = [state EXCEPT ![c] = "refreshing"]
            /\ asking' = asking \cup {t}
            /\ wire' = (wire \ {m}) \cup (IF Shared(t) THEN {} ELSE {Asked(t)})
            /\ crossed' = (crossed \/ (~Shared(t) /\ RefreshOf((Tabs \ {t}) \cup {Nobody}) # {}))
       ELSE /\ state' = [state EXCEPT ![c] = IF m.to = "401" THEN "unauth" ELSE "done"]
            /\ wire' = wire \ {m}
            /\ UNCHANGED <<asking, crossed>>
    /\ UNCHANGED <<tip, ended, effects, tries>>

(* The refresh of a tab is answered: every call that waits is sent once      *)
(* more, with the new cookies, or told its 401.                              *)
GetRefresh(m) ==
    LET W == Waiters(m.of) IN
    /\ m.of \in asking /\ m.to # "refresh"
    /\ Cookies(m)
    /\ asking' = asking \ {m.of}
    /\ IF m.to = "set"
       THEN /\ state' = [c \in Calls |-> IF c \in W THEN "replayed" ELSE state[c]]
            /\ wire' = (wire \ {m}) \cup {Sent(c, m.with) : c \in W}
            /\ tries' = [c \in Calls |-> IF c \in W THEN tries[c] + 1 ELSE tries[c]]
       ELSE /\ state' = [c \in Calls |-> IF c \in W THEN "unauth" ELSE state[c]]
            /\ wire' = wire \ {m}
            /\ UNCHANGED tries
    /\ UNCHANGED <<tip, ended, effects, crossed>>

(* The network fails, or the timeout passes: a call is told so and is not    *)
(* sent again; a refresh that fails leaves the waiting calls their 401.      *)
CallFails(c) ==
    /\ state[c] \in {"waiting", "replayed"}
    /\ state' = [state EXCEPT ![c] = "failed"]
    /\ UNCHANGED <<jar, tip, ended, asking, wire, effects, tries, crossed>>

RefreshFails(t) ==
    /\ t \in asking
    /\ asking' = asking \ {t}
    /\ state' = [c \in Calls |-> IF c \in Waiters(t) THEN "unauth" ELSE state[c]]
    /\ wire' = {IF m.of = t THEN [m EXCEPT !.of = Nobody] ELSE m : m \in wire}
    /\ crossed' = (crossed \/ RefreshOf({t}) # {})
    /\ UNCHANGED <<jar, tip, ended, effects, tries>>

Lose(m) ==
    /\ wire' = wire \ {m}
    /\ UNCHANGED <<jar, tip, ended, state, asking, effects, tries, crossed>>

(* ACCESS_TOKEN_LIFETIME: the cookie goes, and what it was sent with.        *)
AccessExpires ==
    /\ jar.access # None
    /\ jar' = [jar EXCEPT !.access = None]
    /\ wire' = {IF m.to = "api" /\ m.with = jar.access THEN [m EXCEPT !.with = None] ELSE m
                  : m \in wire}
    /\ UNCHANGED <<tip, ended, state, asking, effects, tries, crossed>>

Next ==
    \/ \E c \in Calls : MakeCall(c) \/ CallFails(c)
    \/ \E m \in wire : \/ ServeCall(m) \/ ServeRefresh(m)
                       \/ GetAnswer(m) \/ GetRefresh(m) \/ Lose(m)
    \/ \E t \in Tabs : RefreshFails(t)
    \/ AccessExpires

Spec == Init /\ [][Next]_vars

-----------------------------------------------------------------------------
(* Properties *)

\* The API acts on a call at most once, however its 401s, its replay, its
\* timeout and its stray copies fall (sendWithRetry, client.ts:165).
ActedOnOnce == \A c \in Calls : effects[c] <= 1 /\ tries[c] <= 2

\* No call waits for a refresh that nobody sent, and a tab has one in flight.
OneRefreshPerTab ==
    /\ \A t \in Tabs : Waiters(t) # {} => t \in asking
    /\ \A t \in Tabs : \A m, n \in RefreshOf({t}) : m = n

\* The browser's own tokens are taken for a thief's only if a refresh crossed
\* another tab's or one that was given up: one tab never needs the grace
\* (refreshOnce, client.ts:155; _grace_reissue, tokens.py:280).
ReuseNeedsACrossing == ended = "reuse" => crossed

\* What the transport promises its callers and its session.
ClientIsSound == ActedOnOnce /\ OneRefreshPerTab /\ ReuseNeedsACrossing
=============================================================================
