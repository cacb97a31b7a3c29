--------------------------- MODULE MCPerUpstreamPool ---------------------------
(* Model values and symmetry for the instances of PerUpstreamPool.             *)
EXTENDS PerUpstreamPool, TLC

CONSTANTS t1, t2, t3, t4, c1, c2, c3

TwoTasks   == {t1, t2}
ThreeTasks == {t1, t2, t3}
FourTasks  == {t1, t2, t3, t4}
TwoConns   == {c1, c2}
ThreeConns == {c1, c2, c3}

\* Tasks and connections are only compared for equality.
Symmetry == Permutations(FourTasks) \cup Permutations(ThreeConns)
================================================================================
