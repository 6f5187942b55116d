------------------------------ MODULE MCClient ------------------------------
(* Two tabs of one browser on a network that loses nothing, with no timeout: *)
(* the left tab makes two calls, the right one makes one.                    *)
CONSTANTS LeftTab, RightTab, FirstCall, LateCall, OtherCall, MaxRow
VARIABLES jar, tip, ended, state, asking, wire, effects, tries, crossed

Pages == {FirstCall, LateCall, OtherCall}
Tab == INSTANCE Client
         WITH Tabs <- {LeftTab, RightTab}, Calls <- Pages,
              TabOf <- [c \in Pages |-> IF c = OtherCall THEN RightTab ELSE LeftTab],
              Kind <- [c \in Pages |-> "call"]

MCNext ==
    \/ \E c \in Pages : Tab!MakeCall(c)
    \/ \E m \in wire : \/ Tab!ServeCall(m) \/ Tab!ServeRefresh(m)
                       \/ Tab!GetAnswer(m) \/ Tab!GetRefresh(m)
    \/ Tab!AccessExpires
MCSpec ==
    Tab!Init /\ [][MCNext]_<<jar, tip, ended, state, asking, wire, effects, tries, crossed>>

\* "Two tabs refreshing at once is ordinary use, not theft" (settings.py:316):
\* no refresh of the browser's own is taken for a reused token.
TwoTabsAreNoTheft == ended # "reuse"
=============================================================================
