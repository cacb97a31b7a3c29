------------------------------- MODULE Lifecycle -------------------------------
(***************************************************************************)
(* The process: the four coroutines that main() runs under one gather      *)
(* (proxy/main.py), which is ReverseProxy.start, the server of the metrics *)
(* (proxy/metrics.py), periodic_healthcheck and reap_idle_connections.     *)
(* gather waits for all of them, and returns the exceptions of those that  *)
(* fail; only the one of start() is looked at.                             *)
(*                                                                         *)
(* Health checks are here in full: a round checks every upstream of the    *)
(* pool it has found, a semaphore limits how many at once, and each result *)
(* is written to the statuses of that pool, which a reload may have        *)
(* replaced.  _stop and _reload_config are one step each: what happens     *)
(* inside them is in ReverseProxy.  The statuses are those of self.pool.   *)
(***************************************************************************)
EXTENDS Naturals, FiniteSets

CONSTANTS
  Upstreams,
  Probes,      \* max_concurrent_healthcheck
  MaxReloads   \* bound: number of reloads

ASSUME LifecycleAssumption ==
  IsFiniteSet(Upstreams) /\ Probes \in Nat \ {0} /\ MaxReloads \in Nat

VARIABLES
  server,   \* start(): "starting", "serving", then "failed" or "left"
  metrics,  \* run_metrics_server: the same
  health,   \* periodic_healthcheck: "looking" at the event, "round", "asleep", "left"
  reaper,   \* reap_idle_connections: "looking", "asleep", "left"
  stop,     \* _stop: "no", "stopping", "done", when the event is set
  main,     \* "gathering", then "ended", or "raised" the exception of start()
  pool,     \* the number of self.pool
  cleared,  \* it has been shut down: no upstreams, no statuses
  alive,    \* its _status; FALSE when cleared
  round,    \* the pool of the round of checks
  check,    \* of each upstream in that round: "none", "queued", "connecting", "closing"
  up        \* the upstream accepts connections

process == <<server, metrics, reaper, stop, main>>
pools   == <<pool, cleared, alive>>
checks  == <<health, round, check>>
vars    == <<process, pools, checks, up>>

In(where) == {u \in Upstreams : check[u] = where}

Init ==
  /\ server = "starting" /\ metrics = "starting"
  /\ health = "looking" /\ reaper = "looking"
  /\ stop = "no" /\ main = "gathering"
  /\ pool = 0 /\ cleared = FALSE
  /\ alive = [u \in Upstreams |-> TRUE]
  /\ round = 0
  /\ check = [u \in Upstreams |-> "none"]
  /\ up \in [Upstreams -> BOOLEAN]

--------------------------------------------------------------------------------
(* start() and run_metrics_server: bind, serve until the event, leave *)

ServerStarts ==
  /\ server = "starting"
  /\ server' \in {"serving", "failed"}
  /\ UNCHANGED <<metrics, reaper, stop, main, pools, checks, up>>

ServerLeaves ==
  /\ server = "serving" /\ stop = "done"
  /\ server' = "left"
  /\ UNCHANGED <<metrics, reaper, stop, main, pools, checks, up>>

MetricsStart ==
  /\ metrics = "starting"
  /\ metrics' \in {"serving", "failed"}
  /\ UNCHANGED <<server, reaper, stop, main, pools, checks, up>>

MetricsLeave ==
  /\ metrics = "serving" /\ stop = "done"
  /\ metrics' = "left"
  /\ UNCHANGED <<server, reaper, stop, main, pools, checks, up>>

\* The handlers of the signals are installed when the server listens.
StopSignal ==
  /\ server = "serving" /\ stop = "no" /\ main = "gathering"
  /\ stop' = "stopping"
  /\ UNCHANGED <<server, metrics, reaper, main, pools, checks, up>>

\* pool.shutdown() has cleared the statuses; the event is set.
StopOver ==
  /\ stop = "stopping"
  /\ stop' = "done"
  /\ cleared' = TRUE
  /\ alive' = [u \in Upstreams |-> FALSE]
  /\ UNCHANGED <<server, metrics, reaper, main, pool, checks, up>>

\* SIGHUP: a new pool takes the place of the old one, or the old one stays, shut
\* down; an unreadable file changes nothing.
Reload ==
  /\ server = "serving" /\ main = "gathering" /\ pool < MaxReloads
  /\ pool' = pool + 1 /\ cleared' = FALSE
  /\ alive' = [u \in Upstreams |-> TRUE]
  /\ UNCHANGED <<process, checks, up>>

ReloadFails ==
  /\ server = "serving" /\ main = "gathering"
  /\ cleared' = TRUE
  /\ alive' = [u \in Upstreams |-> FALSE]
  /\ UNCHANGED <<process, pool, checks, up>>

--------------------------------------------------------------------------------
(* periodic_healthcheck, run_initial_healthcheck, healthcheck *)

\* The event is looked at once per round.
LookAround ==
  /\ health = "looking"
  /\ IF stop = "done"
     THEN health' = "left" /\ UNCHANGED <<round, check>>
     ELSE /\ health' = "round"
          /\ round' = pool
          /\ check' = [u \in Upstreams |-> IF cleared THEN "none" ELSE "queued"]
  /\ UNCHANGED <<process, pools, up>>

Moves(u, from, to) == check[u] = from /\ check' = [check EXCEPT ![u] = to]

\* Mutant: the semaphore is taken and not given back.
ConnectOnce(u) ==
  /\ Cardinality({v \in Upstreams : check[v] # "queued"}) < Probes
  /\ Moves(u, "queued", "connecting")
  /\ UNCHANGED <<process, pools, health, round, up>>

\* Mutant: the checks do without the semaphore.
ConnectAtOnce(u) ==
  /\ Moves(u, "queued", "connecting")
  /\ UNCHANGED <<process, pools, health, round, up>>

Connect(u) ==
  /\ Cardinality(In("connecting") \cup In("closing")) < Probes
  /\ Moves(u, "queued", "connecting")
  /\ UNCHANGED <<process, pools, health, round, up>>

\* set_status, in the pool of the round: an upstream that is gone is left alone.
SetStatus(u, ok) ==
  IF round = pool /\ ~cleared
  THEN alive' = [alive EXCEPT ![u] = ok]
  ELSE UNCHANGED alive

\* Refused, timeout, no address, bad certificate
Refused(u) ==
  /\ ~up[u]
  /\ Moves(u, "connecting", "none")
  /\ SetStatus(u, FALSE)
  /\ UNCHANGED <<process, pool, cleared, health, round, up>>

Connected(u) ==
  /\ up[u]
  /\ Moves(u, "connecting", "closing")
  /\ UNCHANGED <<process, pools, health, round, up>>

\* wait_closed() returns, or raises because the upstream has broken down meanwhile.
Closed(u) ==
  /\ Moves(u, "closing", "none")
  /\ \E ok \in {TRUE, up[u]} : SetStatus(u, ok)
  /\ UNCHANGED <<process, pool, cleared, health, round, up>>

RoundOver ==
  /\ health = "round" /\ In("none") = Upstreams
  /\ health' = "asleep"
  /\ UNCHANGED <<process, pools, round, check, up>>

HealthWakes ==
  /\ health = "asleep"
  /\ health' = "looking"
  /\ UNCHANGED <<process, pools, round, check, up>>

UpstreamChanges(u) ==
  /\ up' = [up EXCEPT ![u] = ~@]
  /\ UNCHANGED <<process, pools, checks>>

--------------------------------------------------------------------------------
(* reap_idle_connections, and the end of main() *)

\* Mutant: the reaper does not look at the event.
ReapForEver ==
  /\ reaper = "looking"
  /\ reaper' = "asleep"
  /\ UNCHANGED <<server, metrics, stop, main, pools, checks, up>>

\* The pools of the upstreams are looked through: see PerUpstreamPool.
Reap ==
  /\ reaper = "looking"
  /\ reaper' = IF stop = "done" THEN "left" ELSE "asleep"
  /\ UNCHANGED <<server, metrics, stop, main, pools, checks, up>>

ReaperWakes ==
  /\ reaper = "asleep"
  /\ reaper' = "looking"
  /\ UNCHANGED <<server, metrics, stop, main, pools, checks, up>>

AllOver ==
  /\ {server, metrics} \subseteq {"failed", "left"}
  /\ health = "left" /\ reaper = "left"

MainEnds ==
  /\ main = "gathering" /\ AllOver
  /\ main' = IF server = "failed" THEN "raised" ELSE "ended"
  /\ UNCHANGED <<server, metrics, reaper, stop, pools, checks, up>>

--------------------------------------------------------------------------------
CheckStep(u) == Connect(u) \/ Refused(u) \/ Connected(u) \/ Closed(u)

Next ==
  \/ ServerStarts \/ ServerLeaves \/ MetricsStart \/ MetricsLeave
  \/ StopSignal \/ StopOver \/ Reload \/ ReloadFails
  \/ LookAround \/ RoundOver \/ HealthWakes
  \/ \E u \in Upstreams : CheckStep(u) \/ UpstreamChanges(u)
  \/ Reap \/ ReaperWakes \/ MainEnds

Spec == Init /\ [][Next]_vars

(* Coroutines go on, sleeps end, connect_ms bounds an attempt to connect, and the    *)
(* close of a health check has nothing to wait for, since nothing has been written.  *)
(* Signals and upstreams owe nothing.                                               *)
FairSpec ==
  /\ Spec
  /\ WF_vars(ServerStarts) /\ WF_vars(ServerLeaves)
  /\ WF_vars(MetricsStart) /\ WF_vars(MetricsLeave)
  /\ WF_vars(LookAround \/ RoundOver \/ HealthWakes)
  /\ \A u \in Upstreams : WF_vars(CheckStep(u))
  /\ WF_vars(ReaperWakes)
  /\ WF_vars(MainEnds)

(* Nothing in the code bounds wait_closed(), in _close_writer or in                  *)
(* PooledConnection.close: if peers read what they are sent or go away, _stop ends   *)
(* (StopEnds in ReverseProxy) and so does close_idle.                               *)
PeersRead == WF_vars(StopOver) /\ WF_vars(Reap)

--------------------------------------------------------------------------------
(* Properties *)

\* Every variable has its type; no more checks are made at once than there may be.
TypeOK ==
  /\ {server, metrics} \subseteq {"starting", "serving", "failed", "left"}
  /\ health \in {"looking", "round", "asleep", "left"}
  /\ reaper \in {"looking", "asleep", "left"}
  /\ stop \in {"no", "stopping", "done"}
  /\ main \in {"gathering", "ended", "raised"}
  /\ {pool, round} \subseteq 0..MaxReloads
  /\ cleared \in BOOLEAN
  /\ {alive, up} \subseteq [Upstreams -> BOOLEAN]
  /\ check \in [Upstreams -> {"none", "queued", "connecting", "closing"}]
  /\ Cardinality(In("connecting") \cup In("closing")) <= Probes

\* Health checks converge: the status of an upstream that stays up, or down, is in
\* the end that of the upstream and remains so, whatever other checks, reloads and
\* overlapping rounds do, unless the proxy stops or is left without a pool.
StatusFollows ==
  \A u \in Upstreams : \A b \in BOOLEAN :
    <>[](up[u] = b) => <>[](alive[u] = b \/ cleared \/ stop # "no")

\* If peers read, so that _stop itself and a look through the idle connections end,
\* the process ends, in order, once it is told to stop: none of the four coroutines
\* misses the event, however long its round or its sleep.
ExitFollowsStop == PeersRead => (stop # "no" ~> main = "ended")

--------------------------------------------------------------------------------
(* Promised by documentation or messages, and not kept: see README.md, section 3 *)

\* main() raises the exception of start().
StartFailureEnds == server = "failed" ~> main = "raised"
================================================================================
