-------------------------- MODULE MCEventSubscriber --------------------------
(* Small instances of EventSubscriber.                                     *)
EXTENDS EventSubscriber, TLC

Symmetry == Permutations(Instances) \cup Permutations(Entities) \cup Permutations(Conns)
=============================================================================
