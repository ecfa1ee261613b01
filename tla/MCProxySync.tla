---------------------------- MODULE MCProxySync ----------------------------
(* ProxySync on a small instance: two sandboxes, a list body squid accepts *)
(* besides the blank one, one it refuses, and two versions of squid.conf.  *)
EXTENDS ProxySync, TLC

CONSTANTS a, b, blank, good, bad

\* A template squid refuses seeds a list squid refuses.
MCSeed == blank :> blank @@ good :> good @@ bad :> bad

MCRank == Template :> 0 @@ a :> 1 @@ b :> 2 @@ Access :> 3
=============================================================================
