------------------------------ MODULE MCOutbox ------------------------------
(* Values of Outbox's constants for TLC. *)
EXTENDS Outbox, TLC

\* Every replica was built with every destination.
HasAll == [p \in Replicas |-> Destinations]

\* Destinations are interchangeable where all of them are as reliable, and
\* replicas where all of them have the same destinations.
Symmetry == Permutations(Destinations) \cup Permutations(Replicas)
=============================================================================
