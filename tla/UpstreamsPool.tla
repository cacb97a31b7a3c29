----------------------------- MODULE UpstreamsPool -----------------------------
(***************************************************************************)
(* Balancing: get_next_alive of class UpstreamsPool, the class             *)
(* CircuitBreaker behind it (proxy/upstream_pool.py), and the requests     *)
(* that choose an upstream, are retried on another one and report how it   *)
(* went (ReverseProxy.handle_connection, ClientHandler.handle and          *)
(* record_metrics).                                                        *)
(*                                                                         *)
(* The locks of the pool and of the breakers are never held across a       *)
(* suspension, so each call is one step.  What interleaves are the         *)
(* requests: the breaker may change its state several times between the    *)
(* choice of an upstream and the report about it.                          *)
(*                                                                         *)
(* Time passes in ticks; cooling[u] is what is left of cooldown_sec since  *)
(* last_open_time.  An upstream is its position in the list _upstreams.    *)
(***************************************************************************)
EXTENDS Integers, FiniteSets

CONSTANTS
  Tasks,        \* client requests in progress
  N,            \* number of upstreams
  Threshold,    \* circuit_breaker.failure_threshold
  Cooldown,     \* circuit_breaker.cooldown_sec, in ticks
  MaxRetries,   \* retry.max_retries
  NoTask

Upstreams  == 0..(N - 1)
NoUpstream == N

\* config.py: an upstream list that is not empty, limits that are positive.
ASSUME BalancerAssumption ==
  /\ IsFiniteSet(Tasks)
  /\ NoTask \notin Tasks
  /\ N \in Nat \ {0}
  /\ Threshold \in Nat \ {0}
  /\ Cooldown \in Nat \ {0}
  /\ MaxRetries \in Nat

VARIABLES
  nextIndex,  \* the round-robin cursor
  status,     \* _status: what the last health check found
  breaker,    \* state of the circuit breaker of each upstream
  failures,   \* its failure_count
  cooling,    \* ticks until it may leave "open"
  down,       \* the pool has been shut down, _upstreams is empty
  target,     \* the upstream each request is being sent to
  tries,      \* "attempt" in ClientHandler.handle
  (* history *)
  probe,      \* the request that was let through when cooling was over
  quiet,      \* ticks since that was, up to Cooldown
  errors      \* failed attempts since the breaker was last closed, up to Threshold

vars == <<nextIndex, status, breaker, failures, cooling, down, target, tries,
          probe, quiet, errors>>

Init ==
  /\ nextIndex = 0
  /\ status = [u \in Upstreams |-> TRUE]
  /\ breaker = [u \in Upstreams |-> "closed"]
  /\ failures = [u \in Upstreams |-> 0]
  /\ cooling = [u \in Upstreams |-> 0]
  /\ down = FALSE
  /\ target = [t \in Tasks |-> NoUpstream]
  /\ tries = [t \in Tasks |-> 0]
  /\ probe = [u \in Upstreams |-> NoTask]
  /\ quiet = [u \in Upstreams |-> Cooldown]
  /\ errors = [u \in Upstreams |-> 0]

\* Requests sent to u and not yet reported.
At(u) == {t \in Tasks : target[t] = u}

--------------------------------------------------------------------------------
(* get_next_alive *)

\* Mutant: a half-open breaker lets requests through as well.
AllowsMany(u) == breaker[u] # "open" \/ cooling[u] = 0

\* Mutant: nothing ends the state "open".
AllowsClosedOnly(u) == breaker[u] = "closed"

\* allow_request()
Allows(u) ==
  \/ breaker[u] = "closed"
  \/ breaker[u] = "open" /\ cooling[u] = 0

\* Mutant: the cursor stays on the upstream that was chosen.
AfterStuck(u) == u

\* Mutant: the cursor runs off the list.
AfterNoWrap(u) == u + 1

After(u) == (u + 1) % N

Eligible(u, excluded) == ~down /\ u \notin excluded /\ status[u] /\ Allows(u)

\* u is the first eligible upstream from the cursor on.
First(u, excluded) ==
  \E k \in 0..(N - 1) :
    /\ u = (nextIndex + k) % N
    /\ Eligible(u, excluded)
    /\ \A j \in 0..(k - 1) : ~Eligible((nextIndex + j) % N, excluded)

\* t gets u; the first request after the cooldown is the probe.
Choose(t, u) ==
  /\ nextIndex' = After(u)
  /\ target' = [target EXCEPT ![t] = u]
  /\ IF breaker[u] = "open"
     THEN /\ breaker' = [breaker EXCEPT ![u] = "half_open"]
          /\ probe' = [probe EXCEPT ![u] = t]
          /\ quiet' = [quiet EXCEPT ![u] = 0]
     ELSE UNCHANGED <<breaker, probe, quiet>>

--------------------------------------------------------------------------------
(* The breaker *)

\* Mutant: the threshold compared with ">".
TripsLate(u) == failures[u] + 1 > Threshold

Trips(u) == failures[u] + 1 >= Threshold

\* Mutant: failure_count is not reset when the breaker closes.
RecordSuccessKeepingCount(u) ==
  IF breaker[u] = "half_open"
  THEN /\ breaker' = [breaker EXCEPT ![u] = "closed"]
       /\ errors' = [errors EXCEPT ![u] = 0]
       /\ UNCHANGED <<failures, cooling, probe, quiet>>
  ELSE UNCHANGED <<breaker, failures, cooling, probe, quiet, errors>>

\* record_success: only news for a half-open breaker.
RecordSuccess(u) ==
  IF breaker[u] = "half_open"
  THEN /\ breaker' = [breaker EXCEPT ![u] = "closed"]
       /\ failures' = [failures EXCEPT ![u] = 0]
       /\ errors' = [errors EXCEPT ![u] = 0]
       /\ UNCHANGED <<cooling, probe, quiet>>
  ELSE UNCHANGED <<breaker, failures, cooling, probe, quiet, errors>>

\* One more failed attempt at u.
CountError(u) ==
  errors' = [errors EXCEPT ![u] = IF @ < Threshold THEN @ + 1 ELSE @]

\* Mutant: last_open_time is not set when a probe fails.
RecordFailureUnstamped(u) ==
  /\ failures' = [failures EXCEPT ![u] = IF breaker[u] = "half_open" THEN 0 ELSE @ + 1]
  /\ IF breaker[u] = "half_open" \/ failures[u] + 1 >= Threshold
     THEN breaker' = [breaker EXCEPT ![u] = "open"]
     ELSE UNCHANGED breaker
  /\ IF breaker[u] # "half_open" /\ failures[u] + 1 >= Threshold
     THEN cooling' = [cooling EXCEPT ![u] = Cooldown]
     ELSE UNCHANGED cooling
  /\ CountError(u)
  /\ UNCHANGED <<probe, quiet>>

\* record_failure
RecordFailure(u) ==
  /\ \/ /\ breaker[u] = "half_open"
        /\ breaker' = [breaker EXCEPT ![u] = "open"]
        /\ cooling' = [cooling EXCEPT ![u] = Cooldown]
        /\ failures' = [failures EXCEPT ![u] = 0]
     \/ /\ breaker[u] # "half_open"
        /\ failures' = [failures EXCEPT ![u] = @ + 1]
        /\ IF Trips(u)
           THEN /\ breaker' = [breaker EXCEPT ![u] = "open"]
                /\ cooling' = [cooling EXCEPT ![u] = Cooldown]
           ELSE UNCHANGED <<breaker, cooling>>
  /\ CountError(u)
  /\ UNCHANGED <<probe, quiet>>

--------------------------------------------------------------------------------
(* Requests *)

\* handle_connection chooses an upstream before it reads the request.  When none
\* is eligible the client is answered 503 and nothing changes: the cursor has
\* gone round once.
Select(t) ==
  /\ target[t] = NoUpstream
  /\ \E u \in Upstreams : First(u, {}) /\ Choose(t, u)
  /\ tries' = [tries EXCEPT ![t] = 0]
  /\ UNCHANGED <<status, failures, cooling, down, errors>>

\* The upstream answered 5xx to a safe method: try another one, or the same one
\* again if there is no other.  Nothing is reported about the first.
Retry(t) ==
  /\ target[t] # NoUpstream
  /\ tries[t] < MaxRetries
  /\ \/ \E u \in Upstreams : First(u, {target[t]}) /\ Choose(t, u)
     \/ /\ \A u \in Upstreams : ~Eligible(u, {target[t]})
        /\ UNCHANGED <<nextIndex, target, breaker, probe, quiet>>
  /\ tries' = [tries EXCEPT ![t] = @ + 1]
  /\ CountError(target[t])
  /\ UNCHANGED <<status, failures, cooling, down>>

Finish(t) ==
  /\ target[t] # NoUpstream
  /\ target' = [target EXCEPT ![t] = NoUpstream]
  /\ tries' = [tries EXCEPT ![t] = 0]
  /\ UNCHANGED <<nextIndex, status, down>>

\* record_metrics, with _successful_request or without.
Succeed(t) == Finish(t) /\ RecordSuccess(target[t])
Fail(t)    == Finish(t) /\ RecordFailure(target[t])

\* The client closed before it sent a request (handle returns before
\* record_metrics), or the task was cancelled by _stop.
Abandon(t) ==
  /\ Finish(t)
  /\ UNCHANGED <<breaker, failures, cooling, probe, quiet, errors>>

--------------------------------------------------------------------------------
(* Health checks, time, shutdown *)

\* set_status; shutdown empties _status.
SetStatus(u) ==
  /\ ~down
  /\ status' = [status EXCEPT ![u] = ~@]
  /\ UNCHANGED <<nextIndex, breaker, failures, cooling, down, target, tries, probe,
                 quiet, errors>>

Tick ==
  /\ cooling' = [u \in Upstreams |-> IF cooling[u] > 0 THEN cooling[u] - 1 ELSE 0]
  /\ quiet' = [u \in Upstreams |-> IF quiet[u] < Cooldown THEN quiet[u] + 1 ELSE Cooldown]
  /\ UNCHANGED <<nextIndex, status, breaker, failures, down, target, tries, probe, errors>>

Shutdown ==
  /\ ~down
  /\ down' = TRUE
  /\ UNCHANGED <<nextIndex, status, breaker, failures, cooling, target, tries, probe,
                 quiet, errors>>

TaskStep(t) == Select(t) \/ Retry(t) \/ Succeed(t) \/ Fail(t) \/ Abandon(t)

Next ==
  \/ \E t \in Tasks : TaskStep(t)
  \/ \E u \in Upstreams : SetStatus(u)
  \/ Tick
  \/ Shutdown

Spec == Init /\ [][Next]_vars

\* Clients keep coming and time passes.
FairSpec ==
  /\ Spec
  /\ WF_vars(Tick)
  /\ \A t \in Tasks : WF_vars(Select(t))

\* Every request ends.  total_ms cancels it, but what is cancelled may await the
\* closing of a socket first: it ends if clients and upstreams read.
RequestsEnd == \A t \in Tasks : WF_vars(Succeed(t) \/ Fail(t) \/ Abandon(t))

--------------------------------------------------------------------------------
(* Properties *)

\* Every variable has its type.
TypeOK ==
  /\ nextIndex \in Upstreams
  /\ status \in [Upstreams -> BOOLEAN]
  /\ breaker \in [Upstreams -> {"closed", "open", "half_open"}]
  /\ failures \in [Upstreams -> Nat]
  /\ cooling \in [Upstreams -> 0..Cooldown]
  /\ down \in BOOLEAN
  /\ target \in [Tasks -> Upstreams \cup {NoUpstream}]
  /\ tries \in [Tasks -> 0..MaxRetries]
  /\ probe \in [Upstreams -> Tasks \cup {NoTask}]
  /\ quiet \in [Upstreams -> 0..Cooldown]
  /\ errors \in [Upstreams -> 0..Threshold]

\* A closed breaker has seen fewer than failure_threshold failures, however old
\* reports are interleaved with the opening, probing and closing.
ClosedBelowThreshold ==
  \A u \in Upstreams : breaker[u] = "closed" => failures[u] < Threshold

\* A breaker opens for failure_threshold failed attempts since it was closed: what
\* failed before, or was counted while it was open, does not open it again.
OpensForCause ==
  [][\A u \in Upstreams :
       breaker[u] = "closed" /\ breaker'[u] = "open" => errors'[u] >= Threshold]_vars

\* While the breaker of u is not closed, get_next_alive chooses u for no request,
\* but for the one whose choice turns "open" into "half_open".  Those that chose u
\* before may still send to it, also again: see ResendsAsk.
TrippedDrains ==
  [][\A u \in Upstreams :
       breaker[u] # "closed" /\ breaker'[u] = breaker[u] => At(u)' \subseteq At(u)]_vars

\* A failing upstream is not hammered: a full cooldown passes between one probe
\* and the next, whichever reports close or open the breaker in between.
ProbesSpaced ==
  [][\A u \in Upstreams :
       breaker[u] = "open" /\ breaker'[u] = "half_open" => quiet[u] = Cooldown]_vars

\* No starvation: an upstream that stays alive with its breaker closed is chosen
\* again and again as long as choices are made, whatever retries and other
\* upstreams do with the cursor.
RoundRobin ==
  \A u \in Upstreams :
    /\ <>[](status[u] /\ breaker[u] = "closed" /\ ~down)
    /\ []<><<\E t \in Tasks : Select(t)>>_vars
    => []<>(At(u) # {})

\* If requests end, an open breaker is tried again, unless the upstream is reported
\* dead or the pool is shut down.
OpenIsProbed ==
  RequestsEnd => \A u \in Upstreams :
    breaker[u] = "open" ~> (breaker[u] # "open" \/ ~status[u] \/ down)

--------------------------------------------------------------------------------
(* Promised by documentation or messages, and not kept: see README.md, section 3 *)

\* test_breaker_recovers_after_cooldown: after the cooldown the upstream comes
\* back.  A breaker that probes must come to a decision.
ProbeIsDecided ==
  RequestsEnd => \A u \in Upstreams :
    breaker[u] = "half_open" ~> (breaker[u] # "half_open" \/ down)

\* "HALF_OPEN -> OPEN (the upstream failed the probe)": the request that decides
\* is the probe.
ProbeDecides ==
  [][\A u \in Upstreams :
       breaker[u] = "half_open" /\ breaker'[u] # "half_open"
         => \E t \in Tasks : t = probe[u] /\ target[t] = u /\ target'[t] = NoUpstream]_vars

\* README: failure_threshold errors open the circuit.
ErrorsOpen ==
  \A u \in Upstreams : errors[u] >= Threshold => breaker[u] # "closed"

\* README: cooldown_sec is the time in OPEN before HALF_OPEN.
CooldownNotExtended ==
  [][\A u \in Upstreams :
       breaker[u] = "open" /\ breaker'[u] = "open" => cooling'[u] <= cooling[u]]_vars

\* README: upstreams that fail are cut off.  A request that is repeated goes to an
\* upstream whose breaker lets it through.
ResendsAsk ==
  [][\A t \in Tasks :
       tries'[t] > tries[t] /\ target'[t] = target[t] => breaker[target[t]] = "closed"]_vars
================================================================================
