------------------------------ MODULE MCOutbox ------------------------------
(* Instances of the outbox: messages of each delivery semantics, two or      *)
(* three drain workers.  Workers are interchangeable.                        *)
EXTENDS OutboxProperties, TLC

MCSymmetry == Permutations(Workers)
=============================================================================
