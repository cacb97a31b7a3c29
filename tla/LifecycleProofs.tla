---------------------------- MODULE LifecycleProofs ----------------------------
(***************************************************************************)
(* Proofs about Lifecycle, for every number of upstreams, of checks at once*)
(* and of reloads.                                                         *)
(***************************************************************************)
EXTENDS Lifecycle, FiniteSetTheorems, TLAPS

\* Upstreams that are being checked: their checks are past the semaphore.
Checking == In("connecting") \cup In("closing")

LEMMA CheckingFinite ==
  ASSUME NEW S \in SUBSET Upstreams
  PROVE  IsFiniteSet(S) /\ Cardinality(S) \in Nat
BY LifecycleAssumption, FS_Subset, FS_CardinalityType

\* The semaphore does its work if no check begins ...
LEMMA NoneBegins ==
  ASSUME Cardinality(Checking) <= Probes, Checking' \subseteq Checking
  PROVE  Cardinality(Checking') <= Probes
<1>1. Checking \in SUBSET Upstreams /\ Checking' \in SUBSET Upstreams
  BY DEF Checking, In
<1>2. Cardinality(Checking') <= Cardinality(Checking)
  BY <1>1, CheckingFinite, FS_Subset
<1>3. Cardinality(Checking) \in Nat /\ Cardinality(Checking') \in Nat /\ Probes \in Nat
  BY <1>1, CheckingFinite, LifecycleAssumption
<1> QED  BY <1>2, <1>3

\* ... and if one does while there is room.
LEMMA OneBegins ==
  ASSUME Cardinality(Checking) < Probes, NEW u \in Upstreams, u \notin Checking,
         Checking' = Checking \cup {u}
  PROVE  Cardinality(Checking') <= Probes
<1>1. Checking \in SUBSET Upstreams
  BY DEF Checking, In
<1>2. Cardinality(Checking') = Cardinality(Checking) + 1
  BY <1>1, CheckingFinite, FS_AddElement
<1> QED  BY <1>1, <1>2, CheckingFinite, LifecycleAssumption

\* The step of a check that has passed the semaphore leaves no more of them behind.
LEMMA MovesOn ==
  ASSUME TypeOK, NEW u \in Upstreams, NEW from \in {"connecting", "closing"},
         NEW to \in {"none", "closing"}, Moves(u, from, to)
  PROVE  /\ check' \in [Upstreams -> {"none", "queued", "connecting", "closing"}]
         /\ Cardinality(Checking') <= Probes
<1>1. check \in [Upstreams -> {"none", "queued", "connecting", "closing"}]
      /\ Cardinality(Checking) <= Probes
  BY DEF TypeOK, Checking
<1>2. check' = [check EXCEPT ![u] = to] /\ check[u] = from
  BY DEF Moves
<1>3. Checking' \subseteq Checking
  BY <1>1, <1>2 DEF Checking, In
<1>4. check' \in [Upstreams -> {"none", "queued", "connecting", "closing"}]
  BY <1>1, <1>2
<1> QED  BY <1>1, <1>3, <1>4, NoneBegins

LEMMA TypeInit == Init => TypeOK
<1> SUFFICES ASSUME Init PROVE TypeOK
  OBVIOUS
<1>1. In("connecting") \cup In("closing") = {}
  BY DEF Init, In
<1>2. Cardinality(In("connecting") \cup In("closing")) <= Probes
  BY <1>1, FS_EmptySet, LifecycleAssumption
<1>3. /\ alive \in [Upstreams -> BOOLEAN] /\ up \in [Upstreams -> BOOLEAN]
      /\ check \in [Upstreams -> {"none", "queued", "connecting", "closing"}]
      /\ pool \in 0..MaxReloads /\ round \in 0..MaxReloads
  BY LifecycleAssumption DEF Init
<1> QED  BY <1>2, <1>3 DEF Init, TypeOK

LEMMA TypeStep == TypeOK /\ [Next]_vars => TypeOK'
<1> SUFFICES ASSUME TypeOK, [Next]_vars PROVE TypeOK'
  OBVIOUS
<1> USE LifecycleAssumption DEF process, pools, checks
\* The coroutines of the servers, the reaper and main(), the signals
<1>1. ASSUME UNCHANGED <<health, round, check, up>>,
             /\ {server', metrics'} \subseteq {"starting", "serving", "failed", "left"}
             /\ reaper' \in {"looking", "asleep", "left"}
             /\ stop' \in {"no", "stopping", "done"}
             /\ main' \in {"gathering", "ended", "raised"}
             /\ pool' \in 0..MaxReloads /\ cleared' \in BOOLEAN
             /\ alive' \in [Upstreams -> BOOLEAN]
      PROVE  TypeOK'
  <2>1. (In("connecting") \cup In("closing"))' = In("connecting") \cup In("closing")
    BY <1>1 DEF In
  <2> QED  BY <1>1, <2>1 DEF TypeOK
<1>2. CASE \/ ServerStarts \/ ServerLeaves \/ MetricsStart \/ MetricsLeave
           \/ StopSignal \/ Reap \/ ReaperWakes \/ MainEnds
  BY <1>1, <1>2 DEF TypeOK, ServerStarts, ServerLeaves, MetricsStart, MetricsLeave,
     StopSignal, Reap, ReaperWakes, MainEnds
<1>3. CASE StopOver \/ Reload \/ ReloadFails
  <2>1. alive' \in [Upstreams -> BOOLEAN]
    BY <1>3 DEF StopOver, Reload, ReloadFails
  <2>2. pool' \in 0..MaxReloads
    BY <1>3 DEF TypeOK, StopOver, Reload, ReloadFails
  <2>3. cleared' \in BOOLEAN /\ stop' \in {"no", "stopping", "done"}
    BY <1>3 DEF TypeOK, StopOver, Reload, ReloadFails
  <2>4. UNCHANGED <<server, metrics, reaper, main, health, round, check, up>>
    BY <1>3 DEF StopOver, Reload, ReloadFails
  <2> QED  BY <1>1, <2>1, <2>2, <2>3, <2>4 DEF TypeOK
\* Health checks
<1>4. ASSUME UNCHANGED <<process, pool, cleared>>,
             /\ health' \in {"looking", "round", "asleep", "left"}
             /\ round' \in 0..MaxReloads
             /\ alive' \in [Upstreams -> BOOLEAN]
             /\ up' \in [Upstreams -> BOOLEAN]
             /\ check' \in [Upstreams -> {"none", "queued", "connecting", "closing"}]
             /\ Cardinality(Checking') <= Probes
      PROVE  TypeOK'
  BY <1>4 DEF TypeOK, Checking
<1>5. ASSUME check' = check PROVE Cardinality(Checking') <= Probes
  <2>1. Checking' = Checking
    BY <1>5 DEF Checking, In
  <2> QED  BY <2>1 DEF TypeOK, Checking
<1>6. CASE LookAround
  <2>1. CASE check' = check
    BY <1>4, <1>5, <1>6, <2>1 DEF TypeOK, LookAround
  <2>2. CASE check' = [u \in Upstreams |-> IF cleared THEN "none" ELSE "queued"]
    <3>1. Checking' = {}
      BY <2>2 DEF Checking, In
    <3>2. Cardinality(Checking') <= Probes
      BY <3>1, FS_EmptySet
    <3> QED  BY <1>4, <1>6, <2>2, <3>2 DEF TypeOK, LookAround
  <2> QED  BY <1>6, <2>1, <2>2 DEF LookAround
<1>7. CASE RoundOver \/ HealthWakes
  BY <1>4, <1>5, <1>7 DEF TypeOK, RoundOver, HealthWakes
<1>8. ASSUME NEW u \in Upstreams, UpstreamChanges(u) PROVE TypeOK'
  <2>1. up' \in [Upstreams -> BOOLEAN]
    BY <1>8 DEF UpstreamChanges, TypeOK
  <2> QED  BY <1>4, <1>5, <1>8, <2>1 DEF TypeOK, UpstreamChanges
<1>9. ASSUME NEW u \in Upstreams, Connect(u) PROVE TypeOK'
  <2>1. check' = [check EXCEPT ![u] = "connecting"] /\ check[u] = "queued"
    BY <1>9 DEF Connect, Moves
  <2>2. Checking' = Checking \cup {u} /\ u \notin Checking
    BY <2>1 DEF TypeOK, Checking, In
  <2>3. Cardinality(Checking') <= Probes
    BY <1>9, <2>2, OneBegins DEF Connect, Checking
  <2>4. check' \in [Upstreams -> {"none", "queued", "connecting", "closing"}]
    BY <2>1 DEF TypeOK
  <2> QED  BY <1>4, <1>9, <2>3, <2>4 DEF TypeOK, Connect
<1>10. ASSUME NEW u \in Upstreams, NEW ok \in BOOLEAN, SetStatus(u, ok)
       PROVE  alive' \in [Upstreams -> BOOLEAN]
  BY <1>10 DEF SetStatus, TypeOK
<1>11. ASSUME NEW u \in Upstreams, Refused(u) \/ Connected(u) \/ Closed(u) PROVE TypeOK'
  <2>1. \E from \in {"connecting", "closing"}, to \in {"none", "closing"} : Moves(u, from, to)
    BY <1>11 DEF Refused, Connected, Closed
  <2>2. /\ check' \in [Upstreams -> {"none", "queued", "connecting", "closing"}]
        /\ Cardinality(Checking') <= Probes
    BY <2>1, MovesOn
  <2>3. up[u] \in BOOLEAN /\ alive \in [Upstreams -> BOOLEAN]
    BY DEF TypeOK
  <2>4. alive' \in [Upstreams -> BOOLEAN]
    BY <1>10, <1>11, <2>3 DEF Refused, Connected, Closed
  <2> QED  BY <1>4, <1>11, <2>2, <2>4 DEF TypeOK, Refused, Connected, Closed
<1>12. CASE UNCHANGED vars
  BY <1>1, <1>12 DEF vars, TypeOK
<1> QED
  BY <1>2, <1>3, <1>6, <1>7, <1>8, <1>9, <1>11, <1>12 DEF Next, CheckStep

\* Whatever rounds, reloads and the end of the process overlap, no more upstreams
\* are checked at once than max_concurrent_healthcheck.
THEOREM TypeCorrect == Spec => []TypeOK
  BY TypeInit, TypeStep, PTL DEF Spec
================================================================================
