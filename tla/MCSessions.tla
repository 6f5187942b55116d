----------------------------- MODULE MCSessions -----------------------------
(* Instances of the sessions model.  Requests, readers and logins are each   *)
(* interchangeable.                                                          *)
EXTENDS SessionsProperties, TLC

MCSymmetry == Permutations(Families) \cup Permutations(Procs) \cup Permutations(Readers)
=============================================================================
