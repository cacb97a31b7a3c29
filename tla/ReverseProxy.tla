------------------------------ MODULE ReverseProxy ------------------------------
(***************************************************************************)
(* The server around the requests: class ReverseProxy of                   *)
(* proxy/proxy_server.py, with the admission of client connections, the    *)
(* reload of the configuration (SIGHUP) and the graceful stop (SIGTERM).   *)
(*                                                                         *)
(* "place" says where the task of a client connection is suspended:        *)
(*                                                                         *)
(*   "away"      there is no such connection                               *)
(*   "queued"    awaits _total_connections_semaphore                       *)
(*   "serving"   in the loop, between two requests                         *)
(*   "handling"  in handle(), without a connection to an upstream          *)
(*   "leased"    in handle(), inside acquire_connection                    *)
(*   "refusing"  sends an error and closes, still counted as active        *)
(*   "closing"   awaits the closing of the client's socket, in "finally"   *)
(*                                                                         *)
(* What handle() does is in ClientHandler, what a pool does is in          *)
(* PerUpstreamPool and UpstreamsPool; here a pool is a number, in order of *)
(* creation, and only whether it is shut down matters.  Each SIGHUP is a   *)
(* task of its own; nothing keeps two of them, or a SIGTERM, apart.        *)
(***************************************************************************)
EXTENDS Integers, FiniteSets

CONSTANTS
  Conns,        \* client connections that exist at once
  Reloads,      \* the SIGHUPs the process receives
  Limits,       \* values of limits.max_client_conns in the files they read
  StartLimit,   \* the value when the proxy is started
  MaxRequests   \* keep_alive.max_requests, the same in every file

ASSUME ProxyAssumption ==
  /\ IsFiniteSet(Conns) /\ IsFiniteSet(Reloads)
  /\ Limits \subseteq Nat \ {0}
  /\ StartLimit \in Nat \ {0}
  /\ MaxRequests \in Nat \ {0}

VARIABLES
  place, handled,  \* of each connection: see above; requests_handled
  using,           \* the pool its handler was given
  written,         \* something may have been written to its client
  slots,           \* the value of _total_connections_semaphore
  limit,           \* self.max_conns
  active,          \* _metrics.active_connections
  pool,            \* self.pool
  made,            \* number of pools made so far
  dead,            \* _shutdown of each pool
  emptied,         \* its list of upstreams has been cleared
  reload, victim,  \* of each SIGHUP: how far it is; the pool it shuts down
  stop             \* how far _stop is

connVars == <<place, handled, using, written, slots, active>>
poolVars == <<pool, made, dead, emptied>>
vars     == <<connVars, limit, poolVars, reload, victim, stop>>

Pools == 0..Cardinality(Reloads)

Counted == {"serving", "handling", "leased", "refusing"}
Holding == Counted \cup {"closing"}

At(places) == {c \in Conns : place[c] \in places}

Stopping == stop # "no"   \* _is_shutting_down

Init ==
  /\ place = [c \in Conns |-> "away"]
  /\ handled = [c \in Conns |-> 0]
  /\ using = [c \in Conns |-> 0]
  /\ written = [c \in Conns |-> FALSE]
  /\ slots = StartLimit
  /\ limit = StartLimit
  /\ active = 0
  /\ pool = 0
  /\ made = 1
  /\ dead = [p \in Pools |-> FALSE]
  /\ emptied = [p \in Pools |-> FALSE]
  /\ reload = [r \in Reloads |-> "not_yet"]
  /\ victim = [r \in Reloads |-> 0]
  /\ stop = "no"

GoTo(c, where) == place' = [place EXCEPT ![c] = where]
Writes(c)      == written' = [written EXCEPT ![c] = TRUE]

--------------------------------------------------------------------------------
(* handle_connection: admission *)

\* Mutant: the semaphore counts, but nobody waits for it.
AdmitUnbounded(c) ==
  /\ slots' = slots - 1
  /\ active' = active + 1
  /\ GoTo(c, "serving")
  /\ handled' = [handled EXCEPT ![c] = 0]
  /\ written' = [written EXCEPT ![c] = FALSE]

\* c has the semaphore: it is counted, and its loop begins.
Admit(c) ==
  /\ slots > 0
  /\ slots' = slots - 1
  /\ active' = active + 1
  /\ GoTo(c, "serving")
  /\ handled' = [handled EXCEPT ![c] = 0]
  /\ written' = [written EXCEPT ![c] = FALSE]

\* A connection that passed the rate limiter; nobody waits before it.
Accept(c) ==
  /\ place[c] = "away"
  /\ ~Stopping
  /\ At({"queued"}) = {}
  /\ Admit(c)
  /\ UNCHANGED <<using, limit, poolVars, reload, victim, stop>>

AcceptFull(c) ==
  /\ place[c] = "away"
  /\ ~Stopping
  /\ slots = 0 \/ At({"queued"}) # {}
  /\ GoTo(c, "queued")
  /\ UNCHANGED <<handled, using, written, slots, active, limit, poolVars, reload, victim, stop>>

Dequeue(c) ==
  /\ place[c] = "queued"
  /\ Admit(c)
  /\ UNCHANGED <<using, limit, poolVars, reload, victim, stop>>

--------------------------------------------------------------------------------
(* handle_connection: the loop *)

Loops(c) == place[c] = "serving" /\ ~Stopping /\ handled[c] < MaxRequests

\* get_next_alive has an upstream in self.pool.
Begin(c) ==
  /\ Loops(c)
  /\ ~emptied[pool]
  /\ GoTo(c, "handling")
  /\ using' = [using EXCEPT ![c] = pool]
  /\ UNCHANGED <<handled, written, slots, active, limit, poolVars, reload, victim, stop>>

\* It has none: all are dead, or the pool is shut down.  503.
NoUpstream(c) ==
  /\ Loops(c)
  /\ GoTo(c, "refusing")
  /\ Writes(c)
  /\ UNCHANGED <<handled, using, slots, active, limit, poolVars, reload, victim, stop>>

Lease(c) ==
  /\ place[c] = "handling"
  /\ ~dead[using[c]]
  /\ GoTo(c, "leased")
  /\ Writes(c)
  /\ UNCHANGED <<handled, using, slots, active, limit, poolVars, reload, victim, stop>>

\* A retry releases its connection and asks the same pool for another one.
Retry(c) ==
  /\ place[c] = "leased"
  /\ GoTo(c, "handling")
  /\ UNCHANGED <<handled, using, written, slots, active, limit, poolVars, reload, victim, stop>>

\* handle() returned True.
Served(c) ==
  /\ place[c] = "leased"
  /\ GoTo(c, "serving")
  /\ handled' = [handled EXCEPT ![c] = @ + 1]
  /\ using' = [using EXCEPT ![c] = 0]
  /\ UNCHANGED <<written, slots, active, limit, poolVars, reload, victim, stop>>

\* handle_connection answers itself: 504 after total_ms, 503 after a ValueError.
Failed(c) ==
  /\ place[c] \in {"handling", "leased"}
  /\ GoTo(c, "refusing")
  /\ using' = [using EXCEPT ![c] = 0]
  /\ Writes(c)
  /\ UNCHANGED <<handled, slots, active, limit, poolVars, reload, victim, stop>>

\* The loop is over, or handle() returned False, which includes that the pool
\* refused and handle() answered 503: dec_active, then _close_writer.
Finish(c) ==
  /\ \/ place[c] = "serving" /\ ~Loops(c)
     \/ place[c] \in {"handling", "leased"}
  /\ GoTo(c, "closing")
  /\ active' = active - 1
  /\ using' = [using EXCEPT ![c] = 0]
  /\ IF place[c] = "serving" THEN UNCHANGED written ELSE Writes(c)
  /\ UNCHANGED <<handled, slots, limit, poolVars, reload, victim, stop>>

\* Mutant: a connection that was refused is not counted down.
CloseDoneUncounted(c) ==
  /\ place[c] \in {"refusing", "closing"}
  /\ GoTo(c, "away")
  /\ slots' = slots + 1
  /\ UNCHANGED <<handled, using, written, active, limit, poolVars, reload, victim, stop>>

\* Mutant: a permit that is never given back.
CloseDoneKeepingSlot(c) ==
  /\ place[c] \in {"refusing", "closing"}
  /\ GoTo(c, "away")
  /\ active' = IF place[c] = "refusing" THEN active - 1 ELSE active
  /\ UNCHANGED <<handled, using, written, slots, limit, poolVars, reload, victim, stop>>

\* The client's socket is closed: all bytes are delivered, or the client is gone.
\* Only now the semaphore is released.
CloseDone(c) ==
  /\ place[c] \in {"refusing", "closing"}
  /\ GoTo(c, "away")
  /\ slots' = slots + 1
  /\ active' = IF place[c] = "refusing" THEN active - 1 ELSE active
  /\ UNCHANGED <<handled, using, written, limit, poolVars, reload, victim, stop>>

--------------------------------------------------------------------------------
(* _reload_config *)

\* A file that does not load changes nothing ("unread").  Otherwise pool.shutdown()
\* raises the flag of the pool, and is suspended while it closes idle connections.
ReloadStart(r) ==
  /\ reload[r] = "not_yet"
  /\ \/ /\ reload' = [reload EXCEPT ![r] = "unread"]
        /\ UNCHANGED <<limit, dead, victim>>
     \/ /\ reload' = [reload EXCEPT ![r] = "closing"]
        /\ limit' \in Limits
        /\ dead' = [dead EXCEPT ![pool] = TRUE]
        /\ victim' = [victim EXCEPT ![r] = pool]
  /\ UNCHANGED <<connVars, pool, made, emptied, stop>>

\* Mutant: self.pool is shut down after it has been replaced.
ReloadEndShutsNew(r) ==
  /\ reload[r] = "closing"
  /\ emptied' = [emptied EXCEPT ![made] = TRUE]
  /\ dead' = [dead EXCEPT ![made] = TRUE]
  /\ reload' = [reload EXCEPT ![r] = "done"]
  /\ pool' = made
  /\ made' = made + 1
  /\ UNCHANGED <<connVars, limit, victim, stop>>

\* The old pool is empty, and the new one takes its place, or cannot be made: a
\* file that names an upstream twice is only refused by UpstreamsPool.
ReloadEnd(r) ==
  /\ reload[r] = "closing"
  /\ emptied' = [emptied EXCEPT ![victim[r]] = TRUE]
  /\ \/ /\ reload' = [reload EXCEPT ![r] = "done"]
        /\ pool' = made
        /\ made' = made + 1
     \/ /\ reload' = [reload EXCEPT ![r] = "failed"]
        /\ UNCHANGED <<pool, made>>
  /\ UNCHANGED <<connVars, limit, dead, victim, stop>>

--------------------------------------------------------------------------------
(* _stop *)

StopStart ==
  /\ stop = "no"
  /\ stop' = "server"
  /\ UNCHANGED <<connVars, limit, poolVars, reload, victim>>

\* server.close(), server.wait_closed(): up to Python 3.12.0 the latter returns at
\* once, later it waits until every connection is gone.  Either may be the case.
ServerClosed ==
  /\ stop = "server"
  /\ stop' = "draining"
  /\ UNCHANGED <<connVars, limit, poolVars, reload, victim>>

Drained ==
  /\ stop = "draining"
  /\ active = 0
  /\ stop' = "pool"
  /\ UNCHANGED <<connVars, limit, poolVars, reload, victim>>

\* Mutant: the tasks are cancelled and not awaited.
DrainTimeoutNoGather ==
  /\ stop = "draining"
  /\ active > 0
  /\ stop' = "pool"
  /\ UNCHANGED <<connVars, limit, poolVars, reload, victim>>

\* total_ms is over: every task of _client_tasks is cancelled.  A task that already
\* closes, or that waits for the semaphore, is gone; the others reach "finally".
DrainTimeout ==
  /\ stop = "draining"
  /\ active > 0
  /\ stop' = "gather"
  /\ place' = [c \in Conns |-> IF place[c] \in Counted THEN "closing" ELSE "away"]
  /\ using' = [c \in Conns |-> 0]
  /\ active' = active - Cardinality(At(Counted))
  /\ slots' = slots + Cardinality(At({"closing"}))
  /\ UNCHANGED <<handled, written, limit, poolVars, reload, victim>>

Gathered ==
  /\ stop = "gather"
  /\ At({"away"}) = Conns
  /\ stop' = "pool"
  /\ UNCHANGED <<connVars, limit, poolVars, reload, victim>>

\* Mutant: a pool that a reload has shut down is not shut down again, and the event
\* not set.
StopEndOnce ==
  /\ stop = "pool"
  /\ ~dead[pool]
  /\ dead' = [dead EXCEPT ![pool] = TRUE]
  /\ emptied' = [emptied EXCEPT ![pool] = TRUE]
  /\ stop' = "done"
  /\ UNCHANGED <<connVars, limit, pool, made, reload, victim>>

\* pool.shutdown(), then the event.
StopEnd ==
  /\ stop = "pool"
  /\ dead' = [dead EXCEPT ![pool] = TRUE]
  /\ emptied' = [emptied EXCEPT ![pool] = TRUE]
  /\ stop' = "done"
  /\ UNCHANGED <<connVars, limit, pool, made, reload, victim>>

--------------------------------------------------------------------------------
ConnStep(c) ==
  \/ Accept(c) \/ AcceptFull(c) \/ Dequeue(c)
  \/ Begin(c) \/ NoUpstream(c) \/ Lease(c) \/ Retry(c) \/ Served(c) \/ Failed(c)
  \/ Finish(c) \/ CloseDone(c)

StopStep == ServerClosed \/ Drained \/ DrainTimeout \/ Gathered \/ StopEnd

Next ==
  \/ \E c \in Conns : ConnStep(c)
  \/ \E r \in Reloads : ReloadStart(r) \/ ReloadEnd(r)
  \/ StopStart
  \/ StopStep

Spec == Init /\ [][Next]_vars

(* What the code and asyncio guarantee: the loop of a connection goes on; the     *)
(* semaphore serves its queue in order; a socket to which nothing was written     *)
(* closes; wait_closed ends when all connections are gone; the drain is bounded.  *)
(* No request is said to end: total_ms cancels handle(), but what is cancelled    *)
(* first gives its connection back, and that awaits the closing of a socket.      *)
FairSpec ==
  /\ Spec
  /\ \A c \in Conns :
       /\ WF_vars(Begin(c) \/ NoUpstream(c) \/ (place[c] = "serving" /\ Finish(c)))
       /\ SF_vars(Dequeue(c))
       /\ WF_vars(~written[c] /\ CloseDone(c))
  /\ WF_vars(At({"away"}) = Conns /\ ServerClosed)
  /\ WF_vars(Drained \/ DrainTimeout \/ Gathered)

(* What the code does not guarantee, and the peers may give: clients and upstreams *)
(* read what they are sent, or go away.  Then the closing of a socket ends, and    *)
(* with it every request, every reload and the shutdown of the pool.               *)
PeersRead ==
  /\ \A c \in Conns :
       /\ WF_vars(CloseDone(c))
       /\ WF_vars(Served(c) \/ Failed(c) \/ (place[c] # "serving" /\ Finish(c)))
  /\ \A r \in Reloads : WF_vars(ReloadEnd(r))
  /\ WF_vars(StopEnd)

--------------------------------------------------------------------------------
(* Properties *)

\* Every variable has its type.
TypeOK ==
  /\ place \in [Conns -> Holding \cup {"away", "queued"}]
  /\ handled \in [Conns -> 0..MaxRequests]
  /\ using \in [Conns -> Pools]
  /\ written \in [Conns -> BOOLEAN]
  /\ slots \in 0..StartLimit
  /\ limit \in Limits \cup {StartLimit}
  /\ active \in 0..StartLimit
  /\ pool \in Pools
  /\ made \in 1..(Cardinality(Reloads) + 1)
  /\ dead \in [Pools -> BOOLEAN]
  /\ emptied \in [Pools -> BOOLEAN]
  /\ reload \in [Reloads -> {"not_yet", "unread", "closing", "done", "failed"}]
  /\ victim \in [Reloads -> Pools]
  /\ stop \in {"no", "server", "draining", "gather", "pool", "done"}

\* max_client_conns: a slot is free or held by one connection, and
\* active_connections, by which _stop decides whether anybody is left, counts the
\* connections in the loop exactly, whatever ended them.
SlotsAccounted ==
  /\ slots + Cardinality(At(Holding)) = StartLimit
  /\ active = Cardinality(At(Counted))

\* The pool is stopped under no request: when _stop turns to it, every request has
\* ended, also those of connections that still wait for a slot.
QuietStop == stop \in {"pool", "done"} => At({"handling", "leased", "refusing"}) = {}

\* A pool that is shut down is in service only while a reload is replacing it, or
\* after that reload failed at making its successor: overlapping reloads do not
\* undo each other, and one whose file does not load leaves the pool alone.
ReloadInstalls ==
  dead[pool] /\ ~Stopping =>
    \E r \in Reloads : victim[r] = pool /\ reload[r] \in {"closing", "failed"}

\* A connection over the limit gets its turn, if the peers of the others read: no
\* slot is lost, whatever cuts a connection off.
QueueMoves ==
  PeersRead => \A c \in Conns : place[c] = "queued" ~> place[c] # "queued"

\* If the peers read, _stop comes to its end, through wait_closed, or through the
\* drain and the cancellation of the tasks, and also in the middle of reloads.
StopEnds == PeersRead => (Stopping ~> stop = "done")

--------------------------------------------------------------------------------
(* Promised by documentation or messages, and not kept: see README.md, section 3 *)

\* README, Hot Reload: the configuration is read again on the fly.  When no reload
\* is under way and nobody stops the proxy, it has a pool that works.
ServesBetweenReloads ==
  ~Stopping /\ (\A r \in Reloads : reload[r] # "closing") => ~dead[pool]

\* The same line: a reload does not refuse requests that have begun.
ReloadSparesRequests ==
  ~Stopping => \A c \in Conns : place[c] = "handling" => ~dead[using[c]]

\* Docstring of _reload_config: it changes the limits.
AdmissionFollowsLimit ==
  [][\A c \in Conns : place[c] \notin Holding /\ place'[c] = "serving"
       => Cardinality(At(Holding)) < limit]_vars

\* README: connections that have expired are removed; reap_idle_connections looks
\* after self.pool only.  A pool that is not the current one has been shut down.
NoOrphanPool == \A p \in Pools : p < made /\ p # pool => dead[p]

\* Docstring of _stop: it waits for the active connections with a timeout; so it
\* comes to its end, whether anybody reads or not.
StopIsBounded == Stopping ~> stop = "done"
================================================================================
