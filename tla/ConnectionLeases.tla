---------------------------- MODULE ConnectionLeases ----------------------------
(***************************************************************************)
(* What a connection pool promises to its users, whatever it does inside:  *)
(* a task leases a connection, at most MaxLeases tasks do at a time, no    *)
(* connection is leased to two tasks, and none is leased more than MaxUses *)
(* times before it is retired, that is, closed and replaced by a new one.  *)
(* Retiring is the pool's own business: it may happen with any other step, *)
(* to any connection that is not leased.                                   *)
(***************************************************************************)
EXTENDS Integers, FiniteSets

CONSTANTS Tasks, Conns, NoConn, MaxLeases, MaxUses

VARIABLES
  lease,   \* the connection leased to each task, or NoConn
  uses     \* how often each connection has been leased since it was new

vars == <<lease, uses>>

Leasing   == {t \in Tasks : lease[t] # NoConn}
Leased(c) == \E t \in Tasks : lease[t] = c

Init ==
  /\ lease = [t \in Tasks |-> NoConn]
  /\ uses = [c \in Conns |-> 0]

\* retired: the connections, not leased after the step, that are replaced.
Grant(t, c, retired) ==
  /\ lease[t] = NoConn
  /\ ~Leased(c)
  /\ Cardinality(Leasing) < MaxLeases
  /\ uses[c] < MaxUses
  /\ lease' = [lease EXCEPT ![t] = c]
  /\ c \notin retired
  /\ \A d \in retired : ~Leased(d)
  /\ uses' = [d \in Conns |-> IF d = c THEN uses[d] + 1
                              ELSE IF d \in retired THEN 0 ELSE uses[d]]

Return(t, retired) ==
  /\ lease[t] # NoConn
  /\ lease' = [lease EXCEPT ![t] = NoConn]
  /\ \A u \in Tasks \ {t} : lease[u] \notin retired
  /\ uses' = [d \in Conns |-> IF d \in retired THEN 0 ELSE uses[d]]

Retire(retired) ==
  /\ \A d \in retired : ~Leased(d)
  /\ uses' = [d \in Conns |-> IF d \in retired THEN 0 ELSE uses[d]]
  /\ UNCHANGED lease

Next ==
  \E retired \in SUBSET Conns :
    \/ \E t \in Tasks, c \in Conns : Grant(t, c, retired)
    \/ \E t \in Tasks : Return(t, retired)
    \/ Retire(retired)

Spec == Init /\ [][Next]_vars
================================================================================
