---------------------------- MODULE MCLiveness ----------------------------
(* What must happen in the end, each behaviour about one part of the system:  *)
(* the sessions or the loop of a reconciler.  The two share no variable; the  *)
(* fairness is that of Sessions and of Reconciler.                            *)
EXTENDS SessionsProperties

CONSTANTS MaxPk, BatchSize, Resumable, Drifting, MaxUpsets
VARIABLES focus, needs, held, findings, cursor, pass, upsets

recvars == <<needs, held, findings, cursor, pass, upsets>>

Rec == INSTANCE Reconciler
ASSUME Rec!SizesAssumption

MCInit == Init /\ Rec!Init /\ focus \in {"sessions", "reconciler"}
MCNext ==
    \/ focus = "sessions" /\ Next /\ UNCHANGED <<recvars, focus>>
    \/ focus = "reconciler" /\ Rec!Next /\ UNCHANGED <<vars, focus>>

MCSpec ==
    /\ MCInit /\ [][MCNext]_<<vars, recvars, focus>>
    /\ \A s \in Sids : WF_vars(focus = "sessions" /\ CacheExpires(s))
    /\ WF_recvars(focus = "reconciler" /\ Rec!RunStep)
    /\ \A pk \in 1..MaxPk : WF_recvars(focus = "reconciler" /\ Rec!LetGo(pk))

\* See Reconciler.
EveryRowIsServed == focus = "reconciler" => Rec!EveryRowIsServed
=============================================================================
