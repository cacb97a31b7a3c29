---------------------------- MODULE PerUpstreamPool ----------------------------
(***************************************************************************)
(* The pool of keep-alive connections to ONE upstream: the class           *)
(* PerUpstreamPool and the context manager UpstreamsPool.acquire_connection*)
(* of proxy/upstream_pool.py, with its three users: request tasks          *)
(* (ClientHandler.handle), the idle reaper (close_idle) and shutdown.      *)
(*                                                                         *)
(* asyncio is cooperative, so an action is the code between two points at  *)
(* which the running task can really be suspended.  The values of pc name  *)
(* these points:                                                           *)
(*                                                                         *)
(*   "out"      the task is not inside acquire_connection                  *)
(*   "wait"     awaits the semaphore in acquire()                          *)
(*   "lock"     has a permit and awaits _lock in acquire()                 *)
(*   "purge"    awaits the closing of the candidates it threw away         *)
(*   "open"     awaits asyncio.open_connection                             *)
(*   "use"      runs the body of "async with acquire_connection(...)"      *)
(*   "park"     awaits _lock in release()                                  *)
(*   "shut"     awaits the closing of its connection in release()          *)
(*                                                                         *)
(* Time is abstracted to its outcome: whether an idle connection has       *)
(* outlived idle_timeout_sec is decided when somebody looks at it.  The    *)
(* order in which waiting tasks get the semaphore or the lock is left open *)
(* (asyncio serves them first come, first served).  A connection whose     *)
(* last holder forgets it is closed by StreamWriter.__del__.               *)
(***************************************************************************)
EXTENDS Integers, FiniteSets, Sequences

CONSTANTS
  Tasks,        \* request tasks
  Conns,        \* identities for PooledConnection objects that exist at once
  NoConn,       \* "no connection"
  MaxConns,     \* limits.max_conns_per_upstream
  MaxIdle,      \* upstream_keepalive.max_idle
  MaxRequests   \* upstream_keepalive.max_requests

\* config.py and _validate_init_params reject limits that are not positive.
ASSUME PoolAssumption ==
  /\ IsFiniteSet(Tasks)
  /\ NoConn \notin Conns
  /\ MaxConns \in Nat \ {0}
  /\ MaxIdle \in Nat \ {0}
  /\ MaxRequests \in Nat \ {0}

VARIABLES
  conn,      \* the connections: see ConnState
  idle,      \* the deque _idle, oldest first
  keep,      \* the local deque "keep" of close_idle
  reaping,   \* close_idle holds _lock and awaits the closing of a connection
  permits,   \* the value of _semaphore
  pc,        \* where each task is
  held,      \* the connection each task has in its hands
  closing,   \* UpstreamsPool._shutdown
  drained,   \* PerUpstreamPool.shutdown has run
  (* history *)
  leaked     \* permits whose holder was cancelled inside release()

vars == <<conn, idle, keep, reaping, permits, pc, held, closing, drained, leaked>>

--------------------------------------------------------------------------------
(* Connections.  status "none": no such object (not opened yet, or closed and  *)
(* forgotten); "live": both ends open; "eof": the peer closed, reader.at_eof();*)
(* "closed": conn.close() was called by the task that holds it.  count is      *)
(* request_count; served (history) counts how often acquire() handed it out;   *)
(* clean (history): no request on it still waits for bytes of its response.    *)

ConnState == [status : {"none", "live", "eof", "closed"},
              count  : Nat,
              served : Nat,
              clean  : BOOLEAN]

Unused == [status |-> "none", count |-> 0, served |-> 0, clean |-> TRUE]

\* Mutant: request_count left at its default when the connection is opened.
OpenedUncounted == [status |-> "live", count |-> 0, served |-> 1, clean |-> TRUE]

Opened == [status |-> "live", count |-> 1, served |-> 1, clean |-> TRUE]

IsClosed(c) == conn[c].status \in {"eof", "closed"}

Elems(s) == {s[i] : i \in 1..Len(s)}

\* Connections somebody still knows about.
Known == Elems(idle) \cup Elems(keep) \cup {held[t] : t \in Tasks}

\* Tasks that own one permit of _semaphore.
Holders == {t \in Tasks : pc[t] \in {"lock", "purge", "open", "use", "park"}}

\* Tasks that own a connection or are about to open one.
Engaged == {t \in Tasks : pc[t] \in {"purge", "open", "use", "park"}}

Init ==
  /\ conn = [c \in Conns |-> Unused]
  /\ idle = <<>>
  /\ keep = <<>>
  /\ reaping = FALSE
  /\ permits = MaxConns
  /\ pc = [t \in Tasks |-> "out"]
  /\ held = [t \in Tasks |-> NoConn]
  /\ closing = FALSE
  /\ drained = FALSE
  /\ leaked = 0

GoTo(t, place) == pc' = [pc EXCEPT ![t] = place]
Hold(t, c)     == held' = [held EXCEPT ![t] = c]

--------------------------------------------------------------------------------
(* acquire_connection and acquire() *)

\* Mutant: acquire_connection does not look at _shutdown.
EnterAnyway(t) ==
  /\ pc[t] = "out"
  /\ GoTo(t, "wait")
  /\ UNCHANGED <<conn, idle, keep, reaping, permits, held, closing, drained, leaked>>

\* A pool that is shutting down refuses: the caller sees a RuntimeError.
Enter(t) ==
  /\ pc[t] = "out"
  /\ ~closing
  /\ GoTo(t, "wait")
  /\ UNCHANGED <<conn, idle, keep, reaping, permits, held, closing, drained, leaked>>

\* stale: the idle connections found to have outlived idle_timeout_sec.
Usable(c, stale) ==
  /\ ~IsClosed(c)
  /\ conn[c].count < MaxRequests
  /\ c \notin stale

\* asyncio.Lock: somebody holds _lock, or others already queue for it.
Contended(t) == reaping \/ \E u \in Tasks \ {t} : pc[u] \in {"lock", "park"}

\* Under _lock: pop candidates until one, at position k, is usable; close the
\* ones before it.  k is past the end when there is none.
PopIdle(t) ==
  \E stale \in SUBSET Elems(idle), k \in 1..(Len(idle) + 1) :
    LET found   == k <= Len(idle)
        toClose == {idle[i] : i \in 1..(k - 1)}
    IN /\ \A i \in 1..(k - 1) : ~Usable(idle[i], stale)
       /\ found => Usable(idle[k], stale)
       /\ idle' = SubSeq(idle, k + 1, Len(idle))
       /\ Hold(t, IF found THEN idle[k] ELSE NoConn)
       /\ conn' = [c \in Conns |->
                     IF c \in toClose THEN Unused
                     ELSE IF found /\ c = idle[k]
                          THEN [conn[c] EXCEPT !.served = @ + 1]
                          ELSE conn[c]]
       /\ GoTo(t, IF toClose # {} THEN "purge"
                  ELSE IF found THEN "use" ELSE "open")

TakePermit(t) ==
  /\ pc[t] = "wait"
  /\ permits > 0
  /\ permits' = permits - 1

\* _lock is free: no suspension between the permit and the search of the deque.
AcquireNow(t) ==
  /\ TakePermit(t)
  /\ ~Contended(t)
  /\ PopIdle(t)
  /\ UNCHANGED <<keep, reaping, closing, drained, leaked>>

QueueForLock(t) ==
  /\ TakePermit(t)
  /\ Contended(t)
  /\ GoTo(t, "lock")
  /\ UNCHANGED <<conn, idle, keep, reaping, held, closing, drained, leaked>>

LockGranted(t) ==
  /\ pc[t] = "lock"
  /\ ~reaping
  /\ PopIdle(t)
  /\ UNCHANGED <<keep, reaping, permits, closing, drained, leaked>>

\* The gather of the closes is over; the candidate is not looked at again.
PurgeDone(t) ==
  /\ pc[t] = "purge"
  /\ GoTo(t, IF held[t] # NoConn THEN "use" ELSE "open")
  /\ UNCHANGED <<conn, idle, keep, reaping, permits, held, closing, drained, leaked>>

Open(t) ==
  /\ pc[t] = "open"
  /\ \E c \in Conns \ Known :
       /\ conn' = [conn EXCEPT ![c] = Opened]
       /\ Hold(t, c)
  /\ GoTo(t, "use")
  /\ UNCHANGED <<idle, keep, reaping, permits, closing, drained, leaked>>

\* Semaphore timeout, or the task is cancelled (total timeout, _stop).
GiveUpWaiting(t) ==
  /\ pc[t] = "wait"
  /\ GoTo(t, "out")
  /\ UNCHANGED <<conn, idle, keep, reaping, permits, held, closing, drained, leaked>>

\* Mutant: no "finally" that gives the permit back.
AcquireFailsKeepingPermit(t) ==
  /\ pc[t] \in {"lock", "purge", "open"}
  /\ conn' = [c \in Conns |-> IF c = held[t] THEN Unused ELSE conn[c]]
  /\ Hold(t, NoConn)
  /\ GoTo(t, "out")
  /\ UNCHANGED <<idle, keep, reaping, permits, closing, drained, leaked>>

\* open_connection failed or timed out, or the task was cancelled after it got
\* its permit: "finally: if not success" gives the permit back, but forgets a
\* candidate already taken from the deque.
AcquireFails(t) ==
  /\ pc[t] \in {"lock", "purge", "open"}
  /\ permits' = permits + 1
  /\ conn' = [c \in Conns |-> IF c = held[t] THEN Unused ELSE conn[c]]
  /\ Hold(t, NoConn)
  /\ GoTo(t, "out")
  /\ UNCHANGED <<idle, keep, reaping, closing, drained, leaked>>

--------------------------------------------------------------------------------
(* The body of the context: what ClientHandler.handle does to the connection. *)

SendRequest(t) ==
  /\ pc[t] = "use"
  /\ conn[held[t]].status = "live"
  /\ conn' = [conn EXCEPT ![held[t]].clean = FALSE]
  /\ UNCHANGED <<idle, keep, reaping, permits, pc, held, closing, drained, leaked>>

\* The whole response to the request has been read.
ReadResponse(t) ==
  /\ pc[t] = "use"
  /\ conn[held[t]].status = "live"
  /\ ~conn[held[t]].clean
  /\ conn' = [conn EXCEPT ![held[t]].clean = TRUE]
  /\ UNCHANGED <<idle, keep, reaping, permits, pc, held, closing, drained, leaked>>

\* No response, a retry, or a 5xx that is not retried: pooled_connection.close().
CloseInUse(t) ==
  /\ pc[t] = "use"
  /\ ~IsClosed(held[t])
  /\ conn' = [conn EXCEPT ![held[t]].status = "closed"]
  /\ UNCHANGED <<idle, keep, reaping, permits, pc, held, closing, drained, leaked>>

--------------------------------------------------------------------------------
(* release(), at every exit of the context: normal, exception or cancellation *)

ReleaseClosed(t) ==
  /\ pc[t] = "use"
  /\ IsClosed(held[t])
  /\ permits' = permits + 1
  /\ conn' = [conn EXCEPT ![held[t]] = Unused]
  /\ Hold(t, NoConn)
  /\ GoTo(t, "out")
  /\ UNCHANGED <<idle, keep, reaping, closing, drained, leaked>>

WornOut(c) == conn[c].count + 1 >= MaxRequests

ReleaseWornOut(t) ==
  /\ pc[t] = "use"
  /\ ~IsClosed(held[t])
  /\ WornOut(held[t])
  /\ permits' = permits + 1
  /\ conn' = [conn EXCEPT ![held[t]] = Unused]
  /\ Hold(t, NoConn)
  /\ GoTo(t, "shut")
  /\ UNCHANGED <<idle, keep, reaping, closing, drained, leaked>>

\* Mutant: no "return" after the append, the code below it runs as well.
DepositFallingThrough(t, n) ==
  /\ IF Len(idle) < MaxIdle
     THEN idle' = Append(idle, held[t]) /\ permits' = permits + 2
     ELSE idle' = idle /\ permits' = permits + 1
  /\ conn' = [conn EXCEPT ![held[t]] = Unused]
  /\ Hold(t, NoConn)
  /\ GoTo(t, "shut")
  /\ UNCHANGED <<keep, reaping, closing, drained, leaked>>

\* Under _lock: append to the deque; or, when the deque is full, let the lock and the
\* permit go and close.  n is the request_count the connection goes back with.
Deposit(t, n) ==
  /\ IF Len(idle) < MaxIdle
     THEN /\ idle' = Append(idle, held[t])
          /\ conn' = [conn EXCEPT ![held[t]].count = n]
          /\ GoTo(t, "out")
     ELSE /\ idle' = idle
          /\ conn' = [conn EXCEPT ![held[t]] = Unused]
          /\ GoTo(t, "shut")
  /\ permits' = permits + 1
  /\ Hold(t, NoConn)
  /\ UNCHANGED <<keep, reaping, closing, drained, leaked>>

Release(t) ==
  /\ pc[t] = "use"
  /\ ~IsClosed(held[t])
  /\ ~WornOut(held[t])
  /\ ~Contended(t)
  /\ Deposit(t, conn[held[t]].count + 1)

\* Mutant: the permit is given back before _lock is awaited.
ReleaseBlockedEarly(t) ==
  /\ pc[t] = "use"
  /\ ~IsClosed(held[t])
  /\ ~WornOut(held[t])
  /\ Contended(t)
  /\ conn' = [conn EXCEPT ![held[t]].count = @ + 1]
  /\ permits' = permits + 1
  /\ GoTo(t, "park")
  /\ UNCHANGED <<idle, keep, reaping, held, closing, drained, leaked>>

\* The releasing task is suspended with its permit and its connection.
ReleaseBlocked(t) ==
  /\ pc[t] = "use"
  /\ ~IsClosed(held[t])
  /\ ~WornOut(held[t])
  /\ Contended(t)
  /\ conn' = [conn EXCEPT ![held[t]].count = @ + 1]
  /\ GoTo(t, "park")
  /\ UNCHANGED <<idle, keep, reaping, permits, held, closing, drained, leaked>>

ReleaseParked(t) ==
  /\ pc[t] = "park"
  /\ ~reaping
  /\ Deposit(t, conn[held[t]].count)

\* CancelledError at "async with self._lock": nothing gives the permit back.
ReleaseCancelled(t) ==
  /\ pc[t] = "park"
  /\ conn' = [conn EXCEPT ![held[t]] = Unused]
  /\ leaked' = leaked + 1
  /\ Hold(t, NoConn)
  /\ GoTo(t, "out")
  /\ UNCHANGED <<idle, keep, reaping, permits, closing, drained>>

\* wait_closed() returns, or the task is cancelled in it.
ShutDone(t) ==
  /\ pc[t] = "shut"
  /\ GoTo(t, "out")
  /\ UNCHANGED <<conn, idle, keep, reaping, permits, held, closing, drained, leaked>>

--------------------------------------------------------------------------------
(* close_idle: holds _lock from its first awaited close to its end; a pass that *)
(* closes nothing is never suspended and changes nothing.                      *)

\* The next connection that is closed or stale, at position k, is closed; the
\* ones before it are put aside.
ReapClose ==
  /\ \E k \in 1..Len(idle) :
       /\ \A i \in 1..(k - 1) : ~IsClosed(idle[i])
       /\ keep' = keep \o SubSeq(idle, 1, k - 1)
       /\ idle' = SubSeq(idle, k + 1, Len(idle))
       /\ conn' = [conn EXCEPT ![idle[k]] = Unused]
  /\ reaping' = TRUE
  /\ UNCHANGED <<permits, pc, held, closing, drained, leaked>>

\* Mutant: the deque of survivors outlives the pass.
ReapEndKeepsSurvivors ==
  /\ reaping
  /\ \A i \in 1..Len(idle) : ~IsClosed(idle[i])
  /\ idle' = keep \o idle
  /\ reaping' = FALSE
  /\ UNCHANGED <<conn, keep, permits, pc, held, closing, drained, leaked>>

\* Mutant: _lock taken with acquire() and never released.
ReapEndKeepsLock ==
  /\ reaping
  /\ \A i \in 1..Len(idle) : ~IsClosed(idle[i])
  /\ idle' = keep \o idle
  /\ keep' = <<>>
  /\ UNCHANGED <<conn, reaping, permits, pc, held, closing, drained, leaked>>

ReapEnd ==
  /\ reaping
  /\ \A i \in 1..Len(idle) : ~IsClosed(idle[i])
  /\ idle' = keep \o idle
  /\ keep' = <<>>
  /\ reaping' = FALSE
  /\ UNCHANGED <<conn, permits, pc, held, closing, drained, leaked>>

\* Mutant: what the cancelled reaper had put aside stays open.
ReapCancelledLeavesOpen ==
  /\ reaping
  /\ keep' = <<>>
  /\ reaping' = FALSE
  /\ UNCHANGED <<conn, idle, permits, pc, held, closing, drained, leaked>>

\* The reaper is cancelled while it awaits a close: what it had put aside in its
\* local deque goes with it.
ReapCancelled ==
  /\ reaping
  /\ conn' = [c \in Conns |-> IF c \in Elems(keep) THEN Unused ELSE conn[c]]
  /\ keep' = <<>>
  /\ reaping' = FALSE
  /\ UNCHANGED <<idle, permits, pc, held, closing, drained, leaked>>

--------------------------------------------------------------------------------
(* Shutdown, and the peer *)

\* UpstreamsPool.shutdown raises the flag at once ...
BeginShutdown ==
  /\ ~closing
  /\ closing' = TRUE
  /\ UNCHANGED <<conn, idle, keep, reaping, permits, pc, held, drained, leaked>>

\* ... and then closes what is idle, upstream by upstream, under each _lock; a
\* second call (_stop after a failed reload) does it again.
Drain ==
  /\ closing
  /\ ~reaping
  /\ conn' = [c \in Conns |-> IF c \in Elems(idle) THEN Unused ELSE conn[c]]
  /\ idle' = <<>>
  /\ drained' = TRUE
  /\ UNCHANGED <<keep, reaping, permits, pc, held, closing, leaked>>

\* The upstream closes its end.
PeerClose(c) ==
  /\ conn[c].status = "live"
  /\ conn' = [conn EXCEPT ![c].status = "eof"]
  /\ UNCHANGED <<idle, keep, reaping, permits, pc, held, closing, drained, leaked>>

--------------------------------------------------------------------------------
TaskStep(t) ==
  \/ Enter(t) \/ AcquireNow(t) \/ QueueForLock(t) \/ LockGranted(t)
  \/ PurgeDone(t) \/ Open(t) \/ GiveUpWaiting(t) \/ AcquireFails(t)
  \/ SendRequest(t) \/ ReadResponse(t) \/ CloseInUse(t)
  \/ ReleaseClosed(t) \/ ReleaseWornOut(t)
  \/ Release(t) \/ ReleaseBlocked(t) \/ ReleaseParked(t) \/ ReleaseCancelled(t)
  \/ ShutDone(t)

Reap == ReapClose \/ ReapEnd \/ ReapCancelled

Next ==
  \/ \E t \in Tasks : TaskStep(t)
  \/ Reap
  \/ BeginShutdown
  \/ Drain
  \/ \E c \in Conns : PeerClose(c)

Spec == Init /\ [][Next]_vars

(* What the code guarantees.  Every stay in the body ends, and so does every close  *)
(* and opening inside acquire(): timeouts.total_ms and connect_ms cancel them.      *)
(* Semaphore and Lock serve their waiters in order, so that a task that waits while *)
(* the resource becomes free again and again gets it.  Nobody is forced to give up  *)
(* waiting or to be cancelled in release(), and no connection to be closed.         *)

Leave(t) ==
  \/ ReleaseClosed(t) \/ ReleaseWornOut(t) \/ Release(t) \/ ReleaseBlocked(t)

FairSpec ==
  /\ Spec
  /\ \A t \in Tasks :
       /\ SF_vars(AcquireNow(t) \/ QueueForLock(t))
       /\ SF_vars(LockGranted(t))
       /\ WF_vars(PurgeDone(t) \/ (pc[t] = "purge" /\ AcquireFails(t)))
       /\ WF_vars(Open(t) \/ (pc[t] = "open" /\ AcquireFails(t)))
       /\ WF_vars(Leave(t))
       /\ SF_vars(ReleaseParked(t))

(* What nothing in the code guarantees: PooledConnection.close awaits wait_closed() *)
(* without a timeout, in close_idle with _lock in its hands, and in release() after *)
(* the only cancellation that total_ms sends.  It returns if the upstream reads     *)
(* what was sent to it, or goes away.                                               *)

ReapStep == reaping /\ (ReapClose \/ ReapEnd)

UpstreamsRead == WF_vars(ReapStep) /\ \A t \in Tasks : WF_vars(ShutDone(t))

--------------------------------------------------------------------------------
(* Properties *)

\* Every variable has its type; a task holds a connection exactly where the code
\* has one in a local variable.
TypeOK ==
  /\ conn \in [Conns -> ConnState]
  /\ idle \in Seq(Conns)
  /\ keep \in Seq(Conns)
  /\ reaping \in BOOLEAN
  /\ permits \in 0..MaxConns
  /\ pc \in [Tasks -> {"out", "wait", "lock", "purge", "open", "use", "park", "shut"}]
  /\ held \in [Tasks -> Conns \cup {NoConn}]
  /\ closing \in BOOLEAN
  /\ drained \in BOOLEAN
  /\ leaked \in 0..MaxConns

\* asyncio.Semaphore is not bounded: a path that released twice would raise the
\* limit for good.  Every permit is in the semaphore, with a task between acquire
\* and release, or was lost by a cancelled release.
PermitAccounting == permits + Cardinality(Holders) + leaked = MaxConns

\* max_conns_per_upstream bounds the connections to the upstream, the idle ones
\* included, although an idle connection has no permit: acquire() empties the
\* deque before it opens a new connection.  upstream_keepalive.max_idle bounds the
\* idle ones, also while the reaper has moved some of them to its own deque.  A
\* connection that is being closed (place "shut", and those that acquire() and the
\* reaper close) is not counted: the next one may be opened before it is gone.
OpenBound ==
  /\ Cardinality(Engaged) + Len(idle) + Len(keep) <= MaxConns
  /\ Len(idle) + Len(keep) <= MaxIdle

\* A connection is in one place at most: with one task, or once in the deque, or
\* once in the reaper's hands.  Two requests never share a connection.
Exclusive ==
  /\ \A t, u \in Tasks : t # u /\ held[t] # NoConn => held[t] # held[u]
  /\ \A t \in Tasks : held[t] \notin Elems(idle \o keep)
  /\ \A i, j \in 1..Len(idle \o keep) :
       i # j => (idle \o keep)[i] # (idle \o keep)[j]

\* Whoever has a connection in its hands or in the deque has one that really
\* exists, and no other connection is open: none is left behind, given that one which
\* nobody references any more is closed by its StreamWriter.
NoStray == \A c \in Conns : c \in Known <=> conn[c].status # "none"

\* While upstreams read, a request that waits for a permit gets a connection or fails,
\* until the last permit is lost; the reaper and other requests cannot keep it out.
WaitersServed ==
  UpstreamsRead =>
    \A t \in Tasks : pc[t] = "wait" ~> (pc[t] \in {"use", "out"} \/ leaked = MaxConns)

\* While upstreams read, release() comes to an end, however often the reaper and
\* others take the lock before it.
ReleaseEnds ==
  UpstreamsRead => \A t \in Tasks : pc[t] \in {"park", "shut"} ~> pc[t] = "out"

\* While upstreams read, a pool that is shut down is left by everybody: those that had
\* been let in before get a connection from it, or not, and go, and nobody follows.
ShutdownQuiesces ==
  UpstreamsRead => (closing ~> ((\A t \in Tasks : pc[t] = "out") \/ leaked = MaxConns))

\* The pool hands out connections as ConnectionLeases says: MaxConns leases at a
\* time, each connection to one task, and MaxRequests - 1 times: request_count
\* starts at 1, and release() adds 1 before it compares (a connection is leased once
\* even when MaxRequests is 1).
Leases == INSTANCE ConnectionLeases
            WITH lease     <- held,
                 uses      <- [c \in Conns |-> conn[c].served],
                 MaxLeases <- MaxConns,
                 MaxUses   <- IF MaxRequests = 1 THEN 1 ELSE MaxRequests - 1

ImplementsLeases == Leases!Spec

--------------------------------------------------------------------------------
(* Promised by documentation or messages, and not kept: see README.md, section 3 *)

\* README: connections that are broken are removed automatically.  A connection
\* on which an answer is still outstanding must not be given to the next request.
IdleConnectionsAreClean ==
  \A c \in Elems(idle) : conn[c].status = "live" => conn[c].clean

\* README: max_conns_per_upstream connections per upstream.  When no request is
\* in the pool, all of them are available again.
CapacityRestored == (\A t \in Tasks : pc[t] = "out") => permits = MaxConns

\* README: total_ms is the timeout of the whole cycle of request and response.  release()
\* is its last part, and awaits an upstream that does not read without any timeout.
TotalTimeoutHolds == \A t \in Tasks : pc[t] \in {"park", "shut"} ~> pc[t] = "out"

\* Test docstring: "shutdown closes all connections and blocks new ones".
ShutdownClosesAll == drained /\ ~reaping => idle = <<>>

\* The other half of that docstring: a request that still waits for a permit when
\* the pool is shut down does not get one.
ShutdownBlocksNew == [][drained => permits' >= permits]_vars
================================================================================
