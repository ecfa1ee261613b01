----------------------------- MODULE MCPorts -----------------------------
(* Ports on a small instance.  The sandboxes are interchangeable: nothing  *)
(* in Ports orders them, so their permutations are a sound symmetry.       *)
EXTENDS Ports, TLC

Symmetry == Permutations(VMs)
=============================================================================
