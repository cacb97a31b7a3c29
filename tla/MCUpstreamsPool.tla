---------------------------- MODULE MCUpstreamsPool ----------------------------
(* Model values and symmetry for the instances of UpstreamsPool.               *)
EXTENDS UpstreamsPool, TLC

CONSTANTS t1, t2, t3

TwoTasks   == {t1, t2}
ThreeTasks == {t1, t2, t3}

\* Requests are only compared for equality; upstreams are not symmetric, the
\* cursor orders them.
Symmetry == Permutations(ThreeTasks)
================================================================================
