------------------------------ MODULE RateLimiter ------------------------------
(***************************************************************************)
(* The token buckets of proxy/rate_limiter.py and their one user,          *)
(* ReverseProxy.handle_connection, which asks once per client CONNECTION   *)
(* and then serves up to keep_alive.max_requests requests on it.           *)
(*                                                                         *)
(* No lock of this code is held across a suspension, so allow() is one     *)
(* step; but each bucket reads the clock for itself.  The unit of tokens   *)
(* is what flows in during one tick; a request for a connection takes Cost *)
(* units, a full bucket holds Burst * Cost.  The source computes with      *)
(* floats; the rounding is not modelled.  A reload may change              *)
(* keep_alive.max_requests; rate, burst and per_client stay.               *)
(***************************************************************************)
EXTENDS Integers, FiniteSets

CONSTANTS
  Clients,      \* client addresses
  Conns,        \* identities for client connections that are open at once
  Cost,         \* ticks in which one token flows in: 1 / rate
  Burst,        \* rate_limit.burst
  PerClient,    \* rate_limit.per_client
  MaxRequests,  \* the largest keep_alive.max_requests of any configuration
  Drift,        \* bound: ticks between the two clock readings of one allow()
  MaxTime,      \* bound: last instant of the model
  MaxReloads    \* bound: number of configuration reloads

ASSUME LimiterAssumption ==
  /\ IsFiniteSet(Clients)
  /\ IsFiniteSet(Conns)
  /\ Cost \in Nat \ {0}
  /\ Burst \in Nat \ {0}
  /\ PerClient \in BOOLEAN
  /\ MaxRequests \in Nat \ {0}
  /\ Drift \in Nat
  /\ MaxTime \in Nat
  /\ MaxReloads \in Nat

VARIABLES
  now,          \* time.monotonic()
  global,       \* the bucket _global
  bucket,       \* the buckets _per_client
  open,         \* client connections that have passed and are open
  handled,      \* requests_handled of each
  maxRequests,  \* self.keepalive.max_requests
  loading,      \* reloads that have read their file and not come to the limiter
  (* history of a window of time that an observer may start at any moment *)
  since,        \* when the window started
  before,       \* how many connections were open then
  passed,       \* connections let through in it
  served,       \* requests served in it
  reloads       \* limiters installed in it

clock   == <<now, global, bucket>>
traffic == <<open, handled>>
config  == <<maxRequests, loading>>
window  == <<since, before, passed, served, reloads>>
vars    == <<clock, traffic, config, window>>

Cap  == Burst * Cost
Full == [tokens |-> Cap, lastRefill |-> now]

\* A bucket that was created full and never used is still full: the buckets of
\* clients not seen yet need no state of their own.
Init ==
  /\ now = 0
  /\ global = Full
  /\ bucket = [c \in Clients |-> Full]
  /\ open = {}
  /\ handled = [k \in Conns |-> 0]
  /\ maxRequests = MaxRequests
  /\ loading = 0
  /\ since = 0 /\ before = 0 /\ passed = 0 /\ served = 0 /\ reloads = 0

--------------------------------------------------------------------------------
(* TokenBucket.consume *)

\* Mutant: no upper limit when the bucket is refilled.
LevelUncapped(b, time) == b.tokens + (time - b.lastRefill)

\* What is in bucket b at that time.
Level(b, time) ==
  LET l == b.tokens + (time - b.lastRefill) IN IF l < Cap THEN l ELSE Cap

HasToken(b, time) == Level(b, time) >= Cost

\* Mutant: last_refill is not advanced, the same time is credited twice.
DrawnTwice(b, time) ==
  [tokens     |-> IF HasToken(b, time) THEN Level(b, time) - Cost ELSE Level(b, time),
   lastRefill |-> b.lastRefill]

Drawn(b, time) ==
  [tokens     |-> IF HasToken(b, time) THEN Level(b, time) - Cost ELSE Level(b, time),
   lastRefill |-> time]

--------------------------------------------------------------------------------
(* RateLimiter.allow, called by handle_connection.  The second bucket that is asked *)
(* reads the clock d ticks after the first; it is not asked when the first refuses. *)

Allowed(c, d) ==
  HasToken(global, now) /\ (PerClient => HasToken(bucket[c], now + d))

\* Mutant: the bucket of the client is asked before the global one.
AskClientFirst(c, d) ==
  /\ now' = now + d
  /\ bucket' = IF PerClient THEN [bucket EXCEPT ![c] = Drawn(@, now)] ELSE bucket
  /\ global' = IF PerClient /\ ~HasToken(bucket[c], now) THEN global
               ELSE Drawn(global, now + d)

Ask(c, d) ==
  /\ now' = now + d
  /\ global' = Drawn(global, now)
  /\ bucket' = IF PerClient /\ HasToken(global, now)
               THEN [bucket EXCEPT ![c] = Drawn(@, now + d)] ELSE bucket

\* A client at address c, which may have other connections, opens connection k;
\* refused, it is answered 429.
Connect(k, c) ==
  /\ k \notin open
  /\ \E d \in 0..Drift :
       /\ now + d <= MaxTime
       /\ Ask(c, d)
       /\ IF Allowed(c, d)
          THEN open' = open \cup {k} /\ passed' = passed + 1
          ELSE UNCHANGED <<open, passed>>
  /\ UNCHANGED <<handled, config, since, before, served, reloads>>

Close(k) == open' = open \ {k} /\ handled' = [handled EXCEPT ![k] = 0]

\* Mutant: requests_handled is not counted.
RequestFree(k) ==
  /\ k \in open
  /\ served' = served + 1
  /\ UNCHANGED <<clock, traffic, config, since, before, passed, reloads>>

\* The request that connection k waits for; the loop then looks whether one more
\* is allowed, by the configuration of that moment, and closes if not.
Request(k) ==
  /\ k \in open
  /\ served' = served + 1
  /\ IF handled[k] + 1 < maxRequests
     THEN handled' = [handled EXCEPT ![k] = @ + 1] /\ UNCHANGED open
     ELSE Close(k)
  /\ UNCHANGED <<clock, config, since, before, passed, reloads>>

Disconnect(k) ==
  /\ k \in open
  /\ Close(k)
  /\ UNCHANGED <<clock, config, window>>

--------------------------------------------------------------------------------
(* _reload_config: keep_alive changes before the await of pool.shutdown(), the     *)
(* limiter after it, and not at all when the new pool is refused.                  *)

ReadConfig ==
  /\ loading + reloads < MaxReloads
  /\ maxRequests' \in 1..MaxRequests
  /\ loading' = loading + 1
  /\ UNCHANGED <<clock, traffic, window>>

\* A new limiter has full buckets.
InstallLimiter ==
  /\ loading > 0
  /\ loading' = loading - 1
  /\ global' = Full
  /\ bucket' = [c \in Clients |-> Full]
  /\ reloads' = reloads + 1
  /\ UNCHANGED <<now, traffic, maxRequests, since, before, passed, served>>

ReloadFails ==
  /\ loading > 0
  /\ loading' = loading - 1
  /\ UNCHANGED <<clock, traffic, maxRequests, window>>

Tick ==
  /\ now < MaxTime
  /\ now' = now + 1
  /\ UNCHANGED <<global, bucket, traffic, config, window>>

\* The observer starts a new window.
StartWindow ==
  /\ since < now
  /\ since' = now
  /\ before' = Cardinality(open)
  /\ passed' = 0 /\ served' = 0 /\ reloads' = 0
  /\ UNCHANGED <<clock, traffic, config>>

Next ==
  \/ \E k \in Conns : (\E c \in Clients : Connect(k, c)) \/ Request(k) \/ Disconnect(k)
  \/ ReadConfig \/ InstallLimiter \/ ReloadFails
  \/ Tick
  \/ StartWindow

Spec == Init /\ [][Next]_vars

--------------------------------------------------------------------------------
(* Properties *)

Bucket == [tokens : 0..Cap, lastRefill : 0..now]

\* Every variable has its type; no bucket holds less than nothing or more than
\* its burst.
TypeOK ==
  /\ now \in 0..MaxTime
  /\ global \in Bucket
  /\ bucket \in [Clients -> Bucket]
  /\ open \in SUBSET Conns
  /\ handled \in [Conns -> 0..(MaxRequests - 1)]
  /\ maxRequests \in 1..MaxRequests
  /\ loading \in Nat
  /\ since \in 0..now
  /\ before \in Nat
  /\ passed \in Nat
  /\ served \in Nat
  /\ reloads \in Nat /\ loading + reloads <= MaxReloads

\* In ANY window of time, no more connections pass than burst plus what flowed in
\* during the window; each new limiter adds one burst, because it forgets the buckets.
RateBound == Cost * passed <= Cap * (1 + reloads) + (now - since)

\* The bucket of a client is never behind the global one by more than what flows in
\* between the two clock readings of allow(): both have the same rate and burst, and
\* whatever it gave the global one gave too, a moment before.  So with per_client a
\* client that the global bucket lets through is refused only when its own bucket is
\* within that moment of having a token.
ClientKeepsUp ==
  \A c \in Clients : Level(bucket[c], now) + Drift >= Level(global, now)

\* What the limit on connections means for requests: in any window no more are
\* served than the largest keep_alive.max_requests for each connection that passed,
\* and for each that was open before, however many an address has and whatever
\* reloads do in between.
LoadBound == served <= MaxRequests * (passed + before)

--------------------------------------------------------------------------------
(* Promised by documentation or messages, and not kept: see README.md, section 3 *)

\* The log message of handle_connection speaks of a limit on requests; requests
\* on a connection that has passed are not counted.
RequestBound == Cost * served <= Cap * (1 + reloads) + (now - since)

\* README: per_client gives every address a bucket of its own.  Who has a token in its
\* own bucket is still refused when others have emptied the global one.
OwnBucketCounts ==
  PerClient => \A c \in Clients : HasToken(bucket[c], now) => HasToken(global, now)
================================================================================
