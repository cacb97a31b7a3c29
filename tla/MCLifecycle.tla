------------------------------ MODULE MCLifecycle ------------------------------
(* Model values for the instances of Lifecycle.  Upstreams are not declared     *)
(* symmetric: the runs check liveness.                                          *)
EXTENDS Lifecycle

CONSTANTS u1, u2

TwoUpstreams == {u1, u2}
================================================================================
