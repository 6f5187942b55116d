------------------------------- MODULE MCSignIn -------------------------------
(* An instance of SignIn for TLC.  Processes and nonces are interchangeable. *)
EXTENDS SignInProperties, TLC

Symmetry == Permutations(Procs) \cup Permutations(Nonces)
=============================================================================
