---------------------------- MODULE MCSchedules ----------------------------
(* Two releases: the second changes one job and unschedules the other.        *)
EXTENDS TLC

CONSTANTS Syncs, Kept, Dropped, Unscheduled, NoRow, MaxRows
VARIABLES tasks, owner, made, byHand, alone, sync

Sched == INSTANCE Schedules
           WITH Names <- {Kept, Dropped},
                Releases <- {(Kept :> "old") @@ (Dropped :> "old"),
                             (Kept :> "new") @@ (Dropped :> Unscheduled)}

MCInit == Sched!Init
MCNext == Sched!Next
MCSpec == MCInit /\ [][MCNext]_<<tasks, owner, made, byHand, alone, sync>>

\* See Schedules.
ToggleSurvives == Sched!ToggleSurvives
=============================================================================
