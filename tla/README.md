# A formal model of nginx_remake

TLA+ modules, TLC configurations and TLAPS proofs for the asyncio reverse proxy in
`proxy/`: the connection pool of an upstream, round-robin balancing with circuit
breakers, the rate limiter, the serving of a client connection with retries and
timeouts, the streaming of messages, the server with its admission, reload and graceful
stop, and the process with its health checks.

All of the program runs in one thread on one event loop.  A coroutine runs until it
awaits something that is not ready, so the models take as one atomic action the code
between two points at which a task can *really* be suspended: `await lock.acquire()` on
a free `asyncio.Lock` is no such point, `await writer.wait_closed()` is.  Everything
that is hard in this program comes from what other tasks do at those points, and from
cancellation: `asyncio.wait_for`, `task.cancel()` and `SIGTERM` can end a task at any of
them.

## 1. Inventory

| component | source | state it keeps | operations | used by |
|---|---|---|---|---|
| Upstream connection pool | `upstream_pool.py` `PooledConnection`, `PerUpstreamPool`, `acquire_connection` | deque `_idle`, `_semaphore`, `_lock`, per connection `request_count`, `last_used` | `acquire`, `release`, `close_idle`, `shutdown` | requests, the idle reaper, `UpstreamsPool.shutdown` |
| Balancing and circuit breakers | `upstream_pool.py` `CircuitBreaker`, `UpstreamsPool` | `_next_index`, `_status`, per upstream breaker state, `failure_count`, `last_open_time` | `get_next_alive`, `record_success`, `record_failure`, `set_status`, `shutdown` | `handle_connection`, `ClientHandler`, health checks |
| Health checks | `upstream_pool.py` `healthcheck`, `proxy_server.py` `periodic_healthcheck` | a semaphore of 5 | probe an upstream, `set_status` | the loop in `main` |
| Rate limiter | `rate_limiter.py` | token buckets: one global, one per client address | `consume`, `allow` | `handle_connection`, replaced by a reload |
| Request handler | `client_handler.py` | per request: `keep_alive`, `attempt`, `response_committed`, `_successful_request`, counters | `handle` and its helpers | the loop of `handle_connection` |
| Body streaming | `http_parser.py` `BodyStreamer`, `buffered_reader.py` | bytes pushed back by `unread` | identity, chunked and to-EOF copying | `ClientHandler` |
| Head parsing | `http_parser.py` parsers | a buffer | `feed` | `ClientHandler` |
| Server | `proxy_server.py` `ReverseProxy` | `pool`, `rate_limiter`, `_total_connections_semaphore`, `_client_tasks`, `_is_shutting_down` | `handle_connection`, `_reload_config`, `_stop` | asyncio, signals |
| Metrics | `metrics.py` | counters | increments, `snapshot`, `/metrics` | handlers, `_stop` (active connections) |
| Process | `main.py` | - | starts the four top-level coroutines | - |
| Configuration | `config.py`, `models.py`, `timeouts.py`, `config.yaml` | none (values) | load and validate | start, reload |
| Logging | `logger.py` | queue and listener thread | `setup`, `shutdown` | `main` |

How they interact: a client connection is one task.  It asks the rate limiter once,
waits for a slot of the server's semaphore, and then, once per request, asks
`UpstreamsPool.get_next_alive` for an upstream *before it reads the request*, leases a
connection from the `PerUpstreamPool` of that upstream, streams the request and the
response, gives the connection back, and reports success or failure to the breaker.  A
5xx to a safe method makes it choose another upstream.  Beside the clients run the
reaper (every 30 s), the health checks (every 30 s), and a task per signal: `SIGHUP`
replaces the pool and the limiter, `SIGTERM` stops the server.

What is hard, and the properties that make each component correct:

* **Pool.**  Three kinds of task share `_idle` under a lock that one of them (the reaper)
  holds across awaits; permits of the semaphore are given back on six different paths,
  each of which can be cancelled.  Correct means: every permit is accounted for, no
  connection is in two hands, none is left open and forgotten, the bounds `max_conns`,
  `max_idle` and `max_requests` hold together, whoever waits is served.
* **Breakers.**  Reports arrive long after the choice they belong to; the breaker may
  have opened, probed and closed meanwhile.  Correct means: it opens in time, spaces its
  probes, lets nothing else choose the upstream, and always comes to a decision.
* **Rate limiter.**  A bound over *every* window of time, and two buckets that interact.
* **Request handler.**  Nine exits, two kinds of timeout, a retry loop around streams that
  can be read only once, a `finally` that runs on `continue`.  Correct means: one answer
  per request, no repetition of what is not safe to repeat, a connection that is reused
  only in a known state, honest reports to the breaker.
* **Streams.**  Heads, bodies and what follows them arrive cut into arbitrary pieces, and pass
  through a reader that can take bytes back.  Correct means: nothing is lost, doubled or
  moved, the end of a message is recognised exactly, nothing is waited for in vain, and every
  stream ends (which the loop over the trailers does not, see section 3).
* **Process.**  Four coroutines that share an event and learn of it at different places, and
  health checks whose results are old when they are written down.  Correct means: statuses
  follow the upstreams, and the process ends when it is told to.
* **Server.**  Slots and the counter of active connections through every exit, a stop that
  terminates and stops the pool under no request, a reload that can overlap with requests,
  with the stop, and with another reload.

## 2. Modules

| module | what it models | extends / uses |
|---|---|---|
| `ConnectionLeases` | *abstract*: what a pool promises to its users | - |
| `PerUpstreamPool` | the pool of one upstream with its tasks, reaper and shutdown | instantiates `ConnectionLeases` |
| `UpstreamsPool` | choice of upstreams, breakers, request life cycle as the breakers see it | - |
| `RateLimiter` | token buckets and connections that pass them | - |
| `RequestLife` | *abstract*: what balancing and breakers rely on when a request is given an upstream | - |
| `ClientHandler` | one client connection, request by request | instantiates `RequestLife` |
| `BodyStreamer` | one message: its head, the push-back reader, its body, in one direction | - |
| `ReverseProxy` | admission, loop, reload and stop for several connections | - |
| `Lifecycle` | `main()`, its four coroutines, health checks in full | - |
| `MC...` | model values, small sets and symmetry for TLC | the module it is named after |
| `...Proofs` | theorems and proofs | the module it is named after, `TLAPS` |
| `PerUpstreamPoolLeases` | theorems about which connections are open, and the refinement of `ConnectionLeases` | `PerUpstreamPoolProofs` |

`PROJECT.json` maps every definition to the lines it models.  A definition whose comment
begins with "Mutant:" is not part of the model: it is a version of the definition after
it with a plausible bug, and shows that the named property notices that bug.

### PerUpstreamPool

`pc[t]` is the await at which request task `t` is suspended (`wait` for the semaphore,
`lock`, `purge`, `open`, `use`, `park` = `_lock` in `release`, `shut` = `close()` in `release`).  `conn[c]` is a
`PooledConnection` (`status`, `count` = `request_count`), `idle` is `_idle`, `keep` the
reaper's local deque, `reaping` says that the reaper holds `_lock` across an await; no
other holder of `_lock` ever awaits, so this is the lock's whole state.  `Contended`
is the condition under which `asyncio.Lock.acquire` suspends its caller.

`acquire` is split at its awaits: `AcquireNow` (permit and search in one go),
`QueueForLock` + `LockGranted`, `PurgeDone`, `Open`.  A cancellation or timeout is an
action per place: `GiveUpWaiting` before the permit, `AcquireFails` (the `finally`
clause), `ReleaseCancelled` at the lock in `release`.  The body of `async with` appears
only as far as the connection's state goes: a request was sent, its response was read,
`close()` was called.  `release` at exit is five actions by the code's branches.

Abstracted: time (whether an idle connection is older than `idle_timeout_sec` is chosen
when somebody looks), the order among waiters, the socket of a connection whose `close()` has been
called: `writer.close()` is the last the proxy does with it, and its identity is reused at once, which keeps
the model finite without a bound on openings.  The *task* that awaits `wait_closed()` is modelled (`purge`,
`shut`, `reaping`), and nothing says that it returns: for an upstream that has stopped reading it does not.
`OpenBound` therefore counts the connections that are not being closed.  A connection that nobody references
counts as closed, which is what `StreamWriter.__del__` does (external, an assumption of `NoStray`).

History variables: `leaked` counts permits lost in a cancelled `release`; `served` and
`clean` in `conn` count leases and remember an unfinished response.

### UpstreamsPool

Upstreams are their positions in `_upstreams`.  `target[t]` is the upstream a request was
chosen for and has not yet reported about; `cooling[u]` is what is left of `cooldown_sec`.
`Select` is `get_next_alive` from `handle_connection`, `Retry` the one from `handle`;
`Succeed`, `Fail` and `Abandon` are the three ways a request ends as far as the breaker
hears of it.  `First` states the search loop declaratively: the first eligible upstream
in cyclic order from the cursor.  Breakers turn `half_open` as a side effect of being
asked, hence in `Choose`.  History: `probe`, `quiet`, `errors`.

### RateLimiter

The unit of tokens is what flows in during one tick, so that a connection costs `Cost`
units and everything is an integer; the code's floats and their rounding are not
modelled.  `allow` is one step, because no lock of this code is held across a suspension; but every
`consume` reads the clock itself, up to `Drift` ticks after the one before.  `Connect` draws on the buckets for a
connection `k` from an address `c`, which may have others open.  A reload is split at its await:
`ReadConfig` changes `max_requests` under the open connections, `InstallLimiter` brings full buckets later, or
`ReloadFails` keeps the old ones.  `since`, `before`, `passed`, `served`, `reloads` describe a window of time that
an observer may start at any moment, so that `RateBound` and `LoadBound` speak of every window.

### ClientHandler

`at` is the await at which the connection's task is suspended, in `handle_connection`
(`loop`) or in `handle` (the others).  Client and upstream are nondeterministic: each
awaited operation may succeed, fail or time out, and a head is reduced to what decides
the control flow.  `Fail` is an `except` clause with its `finally` and the break after it;
`Escape` is an exception that `handle` does not catch (`ValueError` from decoding a head or
from a chunk line beyond the stream limit); `TimedOut` is the `except TimeoutError` of
`handle_connection`.  `sent` is what reached the client for the current request.

`ClientHandler` implements `RequestLife`, which states what `UpstreamsPool` assumes of its
requests (`Select`, `Retry`, `Succeed`, `Fail`, `Abandon` there): an upstream is chosen, the request
moves at most `max_retries` times, and is reported at most once, as failed only before its
response has begun.  A request has moved as soon as it has chosen the next upstream, that is,
before it sleeps.

### BodyStreamer

A message is a sequence of tokens (the text of a head, CR, LF, a chunk size, a trailer, other
bytes), followed by the next message.  The network hands it over token by token, so that every
cut between tokens happens, inside of a CRLF too, and may close at any time.  `socket` is the buffer of the
`asyncio.StreamReader`, `back` the deque `_unread_buffer`, `buffer` the one of the parser; `phase` is the
read in which the task is suspended.  `ReadHead` is one turn of `_read_request_headers` or
`_read_response_headers` with `feed` and the `unread` after it; each of the other actions is one turn
of a loop of `BodyStreamer`.  `Take` is what `read` and `readline` leave behind, `CanRead` and `CanReadLine`
when they do not wait.  Writes are left out but for their failing (`Break`, which is also every
timeout and cancellation).  `read` and `readline` empty `_unread_buffer` before they wait for the socket, so a
read that is broken off there loses what was pushed back (`Short`).  The direction matters only to a message that says nothing of its
length, so that one direction is enumerated for the other framings.  A head with both
`Content-Length` and `Transfer-Encoding` is not.

A message may be anything; `valid` marks those whose body is what the head says (`WellFormed`), among
which a chunked body is a `Layout`: positions at which size lines begin, each of which leads to the next or
to the trailers.  This is the grammar that `stream_chunked` reads, stated without reading, and the
properties that speak of valid messages compare the two.

The loop over the trailers turns without end after the end of file (`spin`).  Up to Python 3.11
`asyncio.wait_for` goes through a task and lets the event loop run at every turn, so that the total timeout ends the
loop; from 3.12 on (`pyproject.toml` allows 3.12 and 3.13) it returns at once when the coroutine does not suspend.
The model guarantees neither: `LoopSuspends` names the first behaviour, and only the second half of
`StreamEnds` assumes it.

### Lifecycle

The four coroutines are `server`, `metrics`, `health`, `reaper`; each looks at the event (`stop = "done"`) where
the code does.  `check[u]` is where the health check of an upstream is; `Connect` takes the semaphore,
and the result is written by `SetStatus` into the pool `round` that the round began with, of which only
`self.pool` matters to anybody.  `_stop` and `_reload_config` are one step each, because their insides are
`ReverseProxy`'s subject; that `_stop` ends is part of the assumption `PeersRead` here and is `StopEnds` there.  Upstreams go up and
down as they like.

### ReverseProxy

`place[c]` is where the task of connection `c` is; `handle` is only visible as `handling`
and `leased`, because a reload and a stop affect exactly these.  `slots` is the semaphore,
`active` the metric `_stop` waits on.  Pools are numbered in order of creation;
`dead[p]` is `_shutdown`, `emptied[p]` the cleared list of upstreams, the two ends of
`UpstreamsPool.shutdown`.  Each `SIGHUP` is a task: `ReloadStart` runs to the await in
`pool.shutdown()`, `ReloadEnd` from there.  `_stop` is a sequence of actions by its awaits.
From Python 3.12.1 on `Server.wait_closed` waits for the connections, before it returned at once: `ServerClosed`
may come at any time, so that both ways into the drain are explored, and only that it comes when no connection
is left is guaranteed.  `max_requests` is taken to be the same in every file; that a reload may change it is
modelled in `RateLimiter`.

## 3. Runs

Every run ends within three minutes on two workers.  Bounds are the constants given; no
state constraint is used.

| run | shows | instance |
|---|---|---|
| `PoolSafety` | permits accounted for, connections exclusive, their number bounded, no stray connection; the pool implements `ConnectionLeases` | 4 tasks, 3 connections, `MaxConns` 3, `MaxIdle` 2, `MaxRequests` 4 |
| `PoolLiveness` | if upstreams read: who waits for a permit is served while one is left; a `release` that waits for the lock or a close ends; a pool that is shut down is left by everybody (fairness) | 2 tasks, 2 connections, `MaxConns` 2, `MaxIdle` 2 |
| `BreakerSafety` | a closed breaker is below its threshold and opens only for failures since it was closed, a tripped upstream is chosen for nothing but its probe, probes keep the cooldown | 2 requests, 2 upstreams, threshold 2, cooldown 2, 1 retry |
| `BreakerLiveness` | no upstream starves; if requests end, an open breaker is tried again (fairness) | 2 requests, 2 upstreams, threshold 1, cooldown 1 |
| `RateLimit` | the bound in every window, with reloads, and what it is worth in requests; a client's bucket keeps up with the global one | 2 addresses, 2 connections open at once, a token every 3 ticks, burst 2, 6 ticks, clock readings up to 1 tick apart, up to 2 requests per connection, 1 reload |
| `Handler` | one answer per request, reuse only after a complete exchange, a request sent again only for cause, no answer into a closed socket; the handler implements `RequestLife` | 2 retries, 3 requests |
| `ProxySafety` | slots and active connections accounted for; the pool is stopped under no request; reloads that overlap leave a pool that works, unless they fail | 3 connections, 2 slots, limits 1 and 2, 2 reloads |
| `ProxyLiveness` | if peers read: queued connections get in; the stop ends, through `wait_closed` or through the drain and `gather` (fairness) | 2 connections, 1 slot, 2 reloads |
| `Streams` | no byte lost, doubled or moved, and a prefix out when the copying is broken off; a message is done exactly when it is out; no wait in vain; every stream ends but for the loop over the trailers (fairness) | `chunk_size` 5, all framings, bodies up to 8 tokens or 2 chunks, up to 2 trailers, with and without a next message, three kinds of bad chunks |
| `Process` | statuses follow the upstreams; if peers read, the process ends when told to (fairness) | 2 upstreams, 1 check at a time, 1 reload, any number of failed ones |

Why the bounds are enough.  In the pool, four tasks allow all three permits to be taken while
one more task waits, and three holders to come back to a deque of two places: `MaxIdle` <
`MaxConns` fills it up.  With `MaxRequests` 4 a connection is reused, worn out while idle, and
worn out in use.  For the liveness of the pool two permits and two tasks suffice for one
permit to be lost and the other to be contended for.  The breakers need two requests for one
report to overtake another, a threshold of 2 to tell counting from tripping, and a cooldown
longer than one tick to see it extended; in `BreakerLiveness` a threshold of 1 lets one
failure trip a breaker, which is all that its two properties look at.  Six ticks are two tokens of
three ticks each: a bucket of two can be emptied, refilled to the brim and emptied again, and between them
there are levels just below a token, at which two clock readings a tick apart differ.  Two connections may come
from one address or from two.  The handler's state
does not depend on the number of requests except through the last one, so three are a
first, a middle and a last.  With three connections over two slots there is one in the
queue, a reload meets each of them, and two reloads overlap.  A head of five tokens and a
`chunk_size` of five let one read end before, in, at and after the end of the head, and read into a
body, a size line, or the next head; one body and one chunk are longer than a read, the data of
others looks like sizes, trailers and ends.  One check at a time makes the second upstream wait for
the first, and one reload lets results arrive for a pool that is gone.

Deadlock is checked for the pool.  In the other runs the system may really stop: the clock or
the requests are used up, or the server has stopped.

### Disagreements between the documentation and the code

Two runs check one property each that a doc, docstring or message of the repository states,
and end in a counterexample; `PROJECT.json` quotes the line.

| run | property | what the counterexample shows |
|---|---|---|
| `PoolClean` | `IdleConnectionsAreClean` | a request that times out or is cancelled while its response is outstanding gives its connection back to the deque, and the next request reads the old response |
| `ProbeLost` | `ProbeIsDecided` | a probe whose client leaves without a request (or that is retried elsewhere) is never reported: the breaker stays half-open for ever, the upstream is out |

The modules define further properties of this kind, in the section "Promised by documentation
or messages, and not kept" of each.  None of them holds.  To see the counterexample, take the configuration of the last
column, leave out its properties and `SYMMETRY`, add `CHECK_DEADLOCK FALSE`, and name the property as
`INVARIANT` or, where marked \*, as `PROPERTY`.

| property | what the counterexample shows | configuration |
|---|---|---|
| `CapacityRestored` | a task cancelled while it awaits `_lock` in `release` loses its permit for good | `PoolClean` |
| `ShutdownClosesAll` | a request that ends after `shutdown` puts its connection into the dead pool's deque | `PoolClean` |
| `ShutdownBlocksNew` \* | a request that waited for a permit gets one, and a connection, from a pool that is shut down | `PoolClean` |
| `ProbeDecides` \* | a request chosen before the breaker opened decides the probe of another | `BreakerSafety` |
| `ErrorsOpen` | 5xx answers that are retried are never counted, so an upstream that fails always keeps its breaker closed while another answers | `BreakerSafety` |
| `CooldownNotExtended` \* | late failures reported to an open breaker push `last_open_time` forward | `BreakerSafety` |
| `TotalTimeoutHolds` \* | a `release` that `total_ms` has already cancelled waits for `_lock`, or for its own `close()`, and an upstream that does not read keeps it there: `wait_closed()` has no timeout | `PoolLiveness` |
| `ResendsAsk` \* | a retry without an alternative goes to the same upstream again, whose breaker is open and is not asked | `BreakerSafety` |
| `RequestBound` | the limiter counts connections, requests on them are free | `RateLimit` |
| `OwnBucketCounts` | with `per_client` a client that has a token in its own bucket is refused when others have emptied the global one, which has the same rate and burst (`README.md:161` and `:204` speak of a limit per address) | `RateLimit` |
| `RetriedIsAnswered` | `continue` runs the `finally` clause: without keep-alive a retry closes the client first and its answer goes nowhere | `Handler` |
| `TimeoutIsAnswered` | the `finally` clause closes the client before the 504 of the total timeout | `Handler` |
| `SuccessIsEarned` | the total timeout, an idle client and a broken response are reported as successes | `Handler` |
| `BlamesUpstreamOnly` | a client that breaks off its own request body is held against the upstream | `Handler` |
| `NothingLost` | what was read beyond a request stays in the reader of its handler, and is lost | `Handler` |
| `BodyReadOnce` | a retried request with a body reads a second body from the client | `Handler` |
| `ResponseEnds` | a response that ends with the upstream's connection is sent with `keep-alive`: its end is not visible | `Handler` |
| `ServesBetweenReloads` | a reload that fails after `pool.shutdown()` leaves a dead pool in service | `ProxySafety` |
| `ReloadSparesRequests` | requests that have begun are answered 503 by a reload | `ProxySafety` |
| `NoOrphanPool` | of two overlapping reloads one pool is dropped without a shutdown, its idle connections are never reaped | `ProxySafety` |
| `AdmissionFollowsLimit` \* | a new `max_client_conns` is stored and never used | `ProxySafety` |
| `StopIsBounded` \* | `_stop` awaits tasks that were cancelled once and then await a peer that does not read | `ProxyLiveness` |
| `EveryStreamEnds` \* | at the end of file in the trailers the loop goes round for ever; where it does not suspend (Python 3.12 and later) no timeout fires and the whole proxy stands still | `Streams` |
| `StartFailureEnds` \* | when `start()` fails (the address is in use), `gather` waits for the three other coroutines, which wait for an event nobody sets: its exception is never raised | `Process` |

## 4. Fairness

`FairSpec` of a module is only what the code and asyncio guarantee.  What the other ends of the sockets must do for
a property to hold is a formula with a name, and the premise of that property.  The reason is
`wait_closed()`, which `PooledConnection.close` and `_close_writer` await without a timeout: it returns when
the other end has read everything, or is gone.  `close_idle` does so under `_lock`, and `release` after
`total_ms` has cancelled the request, so that not even `total_ms` bounds a request.

* `PerUpstreamPool.FairSpec`: tasks leave the body of the context, and the closes inside `acquire` end, because
  `total_ms` cancels them; openings are bounded by `connect_ms`; the lock's and the semaphore's queues
  are first come first served, which strong fairness on getting them reflects (they
  become free again and again while someone else comes and goes).  Nobody is forced
  to be cancelled, to give up or to close a connection.  `UpstreamsRead` adds that a close in `release` and in
  the reaper ends.
* `UpstreamsPool.FairSpec`: time passes and clients keep coming.  `RequestsEnd` adds that every request ends.
* `ReverseProxy.FairSpec`: the loop of a connection goes on outside of `handle()`, the semaphore serves its queue,
  sockets to which nothing was written close, the drain has its timeout.  `PeersRead` adds that sockets close, and with
  them that requests, reloads and the shutdown of a pool end.
* `BodyStreamer.FairSpec`: what need not wait goes on, and a read that waits ends by `read_ms`.
  The peer owes nothing.  `LoopSuspends` adds that timeouts reach the loop over the trailers.
* `Lifecycle.FairSpec`: coroutines that may go on do, sleeps end, attempts to connect end by `connect_ms`, and a
  health check has written nothing that its close could wait for.  `PeersRead` adds that `_stop` ends (`StopEnds`) and
  that a look of the reaper through the idle connections does.  No signal has to come and no upstream has to be up.

## 5. Theorems

Every invariant and every action property that a passing run checks, and both refinements, are proved with
TLAPS: they hold for all values of the constants, of which TLC sees one instance.  The constants satisfy
the named assumptions (`PoolAssumption`, `BalancerAssumption`, `LimiterAssumption`, `HandlerAssumption`,
`ProxyAssumption`, `LifecycleAssumption`, `StreamerAssumption`): limits are positive, as `config.py` and the
constructors make sure of; the sets of tasks, clients, connections, upstreams and signals are finite,
because sizes of them are compared; and a message that is called valid is well-formed, which is what the
word means.  Of messages that are not valid nothing is assumed but that they consist of tokens.  TLC evaluates
the assumptions in every run.

* `PerUpstreamPoolProofs` - `TypeCorrect`, `PermitsAccounted`, `ConnectionsExclusive`.
  `TypeOK` is not inductive: `permits <= MaxConns` needs the accounting, and the
  accounting needs to know where a task may hold a connection.  The invariant is `Shape`
  (types without the bounds), `Hands` (a task holds a connection in `use` and `park` and none
  in `out`, `wait`, `lock`, `open`) and `PermitAccounting`.  `Exclusive` speaks of the
  concatenation of two sequences; `Apart` says the same of the two sequences separately,
  which the steps that cut and join them preserve, and implies it.
* `PerUpstreamPoolLeases` - `NothingStrays`, `ConnectionsBounded`, and the refinement `PoolImplementsLeases`.  `Books`
  is added to the invariant above: a connection that is in a deque or in a hand exists, one that nobody knows
  does not, and `request_count` is ahead of the number of leases by one, except during a lease.
  `NoStray` is two of its lines.  `OpenBound` is inductive next to it: a connection taken from the deque was counted
  there already; one that is opened finds the deque (and the part of it the reaper keeps) empty, and then only the
  permits (`PermitAccounting`) bound those in hands; a deposit adds one to the deque and takes one from the hands.
  For the refinement every action of the pool is assigned a step of `ConnectionLeases` or a
  stutter; `Books` turns the comparison of `request_count` in `release` into the bound on leases.
* `UpstreamsPoolProofs` - `TypeCorrect`, `BreakerOpensInTime` (a closed breaker is below its
  threshold), `BreakerOpensForCause` (it opens only for that many failures since it was closed),
  `TrippedUpstreamDrains` (until it closes nobody but the probe chooses it; who has chosen it may still send), `ProbesKeepTheirDistance` (a full
  cooldown between two probes).  `Moves(u)` lists what any step may do to the breaker of one
  upstream; the theorems only look at these cases.  `Caused` says that a closed breaker has
  counted no failure that did not happen.  `ProbesKeepTheirDistance` needs `Waited`: what has passed
  since the last probe and what is left of the cooldown add up to the cooldown at least, while a
  breaker is open.  Two theorems are about the search itself and have no run of their own: `SearchFinds` (the search
  of `get_next_alive` ends with exactly one upstream whenever one is eligible) and `NobodyIsPassedOver` (a choice that
  passes over an upstream it could have made brings the cursor nearer to it, so that an upstream that stays
  eligible, and that no request is retried away from, is passed over at most `N - 1` times in a row).  The second
  is the part of `RoundRobin` that is not about fairness.
* `ClientHandlerProofs` - `TypeCorrect`, `ReusedWhenReady`, `AnsweredOnce`, `CommitmentsSeen`, `ResentWithReason`, and the
  refinement `HandlerImplementsLife`.  The invariant says, per place, what the client has got
  (`Told`), how often the request was sent and read (`Counted`) and when the socket may be closed (`Open`).  All
  exits of `handle()` share the lemma `Closing`.
* `RateLimiterProofs` - `TypeCorrect`, `RateKept`, `ClientBucketKeepsUp`, `LoadKept`.  `Budget`: what
  is in the global bucket now, plus what has passed in the window, is covered by the bursts
  and the inflow of the window.  `ClientKeepsUp` is inductive with the types: `Behind` is
  the arithmetic of one question: what it does to the level of a client's bucket and of the global one, `d` ticks
  later; a refusal by the client's own bucket costs the global one a token, which only helps.  `Paid`: the requests served in
  the window and those that open connections may still send are at most `MaxRequests` for every connection that passed
  or was open when the window began.  What is still to be sent is the size of a set of pairs (`Outstanding`), since a
  sum over the connections would be a recursion.
* `ReverseProxyProofs` - `TypeCorrect`, `SlotsKept`, `PoolStopsUnderNobody`, `ReloadsInstall`.  The invariant is `Shape`, `SlotsAccounted`
  itself, `BelowMaxRequests` (a request begins below the limit, so that counting it stays within it) and `PoolsMade`
  (pools and the signals that may still make one are no more than signals plus one, so that pool numbers do not run
  out).  `QuietStop` is inductive on top of it: whichever way `_stop` has waited, by the counter or by gathering what it has
  cancelled, no connection is in the loop; the counter shows this only because `SlotsAccounted` holds.
  `ReloadInstalls` follows the pool that a reload is closing (`victim`).
* `LifecycleProofs` - `TypeCorrect`, of which the bound on the checks that run at once is the part with content: health check
  rounds never overlap with themselves, but a reload changes the pool under them.
* `BodyStreamerProofs` - `TypeCorrect`, `NothingIsLost`, `VerdictsAreRight`, `WaitsAreNeeded`, for messages of any length, in any number of pieces.
  `Intact` says where the bytes are: in the head they are in the parser's buffer, behind it that buffer is empty and
  what is out, pushed back, in the socket and still to come is the body and what follows it; once the copying is
  broken off or in error, only that what is out is the beginning of that (`Begun`), since what was pushed back may be lost.  The read that ends the head is the
  hard step: `EndOfHead` shows that the parser finds the delimiter of this head and no other, wherever the reads were
  cut, and `SameParts` that what it pushes back is exactly what is not the head.  `Standing` and `Place` say where in
  the body the streamer is: how much is left of the `Content-Length`, or that a size line comes next where `Layout` has one, or
  that the reading is between two trailers.  So a line that is read as a size is one (`SizeLine`), the loop over the trailers
  ends with the body (`TrailerLine`), and a line or a piece that is waited for is in the body (`Reading`).

Left to TLC: the liveness properties (`WaitersServed`, `ReleaseEnds`, `ShutdownQuiesces`, `RoundRobin`, `OpenIsProbed`, `QueueMoves`,
`StopEnds`, `StreamEnds`, `StatusFollows`, `ExitFollowsStop`), because fairness and `ENABLED` are beyond the prover, and the counterexamples of
section 3.

## 6. Not modelled

* The text of heads: splitting into fields (a field that occurs twice is kept once), the fields the
  proxy adds, serialising.  `ClientHandler` keeps what decides the control flow, `BodyStreamer` the framing.
  That a response to `HEAD`, a 204 or a 304 has no body is unknown to the code; without a length
  such a response is to be read to the end of file like any other (`rest`), and ends by `read_ms`.
* Metrics beyond the number of active connections and the life of their server: counters that
  only grow and that nothing but `/metrics` reads.
* Configuration loading: a straight-line validation of values.  Its guarantees are the assumptions
  on the constants, and its failing is an outcome of a reload.
* Logging: a queue and a thread of the standard library that no state of the proxy depends on.
* Durations: every timeout may strike at any await.  `keep_alive.timeout_ms` is not used by the code.

## 7. Plan

1. `UpstreamsPool` with a report per request, so that its requests can be shown to implement
   `RequestLife` as well; so far the five steps are stated side by side.
2. `ReverseProxy` with the contents of the pools (leases that outlive a reload, the deque of a pool
   that is dead) by instantiating `ConnectionLeases` per pool.
3. Proofs: with 1 the refinement of `RequestLife` by `UpstreamsPool`, with 2 that a reload strands no lease.  What
   is left of today's modules is liveness, which stays with TLC.
