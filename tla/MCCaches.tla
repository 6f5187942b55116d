------------------------------ MODULE MCCaches ------------------------------
(* The two generation-keyed caches, each in the behaviours that are about it: *)
(* settings and flags, or permission codes.  They share no state.             *)
EXTENDS GenerationCache

CONSTANTS Writers, Readers, MaxChanges, MaxVersion, MaxEvictions
VARIABLES focus, pStored, version, evictions, pEntries, pTx, next, pRd, pUnder, pSeen, base

Perm == INSTANCE PermissionCache
          WITH stored <- pStored, entries <- pEntries, tx <- pTx, rd <- pRd,
               under <- pUnder, seen <- pSeen
pvars == <<pStored, version, evictions, pEntries, pTx, next, pRd, pUnder, pSeen, base>>
ASSUME PermAssumption == Perm!BoundsAssumption /\ Perm!NoneAssumption

MCInit == Init /\ Perm!Init /\ focus \in {"settings", "permissions"}
MCNext ==
  \/ focus = "settings" /\ Next /\ UNCHANGED <<pvars, focus>>
  \/ focus = "permissions" /\ Perm!Next /\ UNCHANGED <<vars, focus>>
MCSpec ==
  /\ MCInit /\ [][MCNext]_<<vars, pvars, focus>>
  /\ \A g \in Generations : WF_vars(EntryExpires(g))
  /\ \A v \in Perm!Versions : WF_pvars(Perm!EntryExpires(v))

\* See PermissionCache.
OnlyChangesInFlightAreMissed == Perm!OnlyChangesInFlightAreMissed
OverwrittenGrantsDie == Perm!OverwrittenGrantsDie
=============================================================================
