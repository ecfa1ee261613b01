---------------------------- MODULE MCLifecycle ----------------------------
(* Lifecycle on a small instance: the sandboxes and the terminals are      *)
(* interchangeable.                                                        *)
EXTENDS Lifecycle, TLC

Symmetry == Permutations(VMs) \cup Permutations(Terminals)
=============================================================================
