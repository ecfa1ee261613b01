----------------------------- MODULE MCAllow -----------------------------
(* Allow on a small instance: one entry every list has, two to grant.      *)
(* Squid refuses a list that has both, as it refuses a domain beside one   *)
(* of its own subdomains.                                                  *)
EXTENDS Allow, TLC

CONSTANTS base, d, sub, nofile

\* A value TLC can compare with a list.
MCAbsent == {nofile}

MCRefused == {l \in SUBSET {base, d, sub} : {d, sub} \subseteq l}

Symmetry == Permutations(VMs) \cup Permutations(Terminals)
=============================================================================
