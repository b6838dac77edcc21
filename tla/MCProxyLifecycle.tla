-------------------------- MODULE MCProxyLifecycle --------------------------
(* Two starts, a stop and a status over three PIDs.                        *)
EXTENDS ProxyLifecycle, TLC

Symmetry == Permutations(Starts) \cup Permutations(Pids)
=============================================================================
