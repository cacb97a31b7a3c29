---------------------------- MODULE MCReverseProxy ----------------------------
(* Model values and symmetry for the instances of ReverseProxy.               *)
EXTENDS ReverseProxy, TLC

CONSTANTS k1, k2, k3, r1, r2

TwoConns   == {k1, k2}
ThreeConns == {k1, k2, k3}
OneReload  == {r1}
TwoReloads == {r1, r2}

\* Connections are only compared for equality, and so are signals.
Symmetry == Permutations(ThreeConns) \cup Permutations(TwoReloads)
================================================================================
