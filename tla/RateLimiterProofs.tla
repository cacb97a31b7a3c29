--------------------------- MODULE RateLimiterProofs ---------------------------
(***************************************************************************)
(* Proofs about RateLimiter, for every rate, burst, number of clients and  *)
(* connections, distance of clock readings, and bound on time and reloads. *)
(***************************************************************************)
EXTENDS RateLimiter, FiniteSetTheorems, TLAPS

LEMMA NextMultiple == \A x, y \in Nat : x * y \in Nat /\ x * (y + 1) = x * y + x
  OBVIOUS

LEMMA CapType == Cap \in Nat /\ Cost \in Nat \ {0} /\ Cost <= Cap
<1>1. Burst \in Nat \ {0} /\ Cost \in Nat \ {0}
  BY LimiterAssumption
<1>2. PICK n \in Nat : Burst = n + 1
  <2>1. Burst - 1 \in Nat /\ Burst = (Burst - 1) + 1
    BY <1>1
  <2> QED  BY <2>1
<1>3. Cap = n * Cost + Cost /\ n * Cost \in Nat
  BY <1>1, <1>2 DEF Cap
<1> QED  BY <1>1, <1>3

--------------------------------------------------------------------------------
(* Buckets *)

\* The buckets that nobody has asked after that time.
BucketAt(time) == [tokens : 0..Cap, lastRefill : 0..time]

\* What flows in until d ticks later.
Later(level, d) == IF level + d < Cap THEN level + d ELSE Cap

\* What is left when a connection has asked.
Rest(b, time) == IF HasToken(b, time) THEN Level(b, time) - Cost ELSE Level(b, time)

LEMMA BucketFields ==
  ASSUME NEW t \in Nat, NEW b \in BucketAt(t)
  PROVE  b.tokens \in 0..Cap /\ b.lastRefill \in 0..t
BY DEF BucketAt

LEMMA BucketGrows ==
  ASSUME NEW t \in Nat, NEW d \in Nat
  PROVE  BucketAt(t) \subseteq BucketAt(t + d)
BY DEF BucketAt

LEMMA LevelType ==
  ASSUME NEW t \in Nat, NEW b \in BucketAt(t)
  PROVE  Level(b, t) \in 0..Cap /\ Rest(b, t) \in 0..Cap
<1>1. Level(b, t) \in 0..Cap
  BY BucketFields, CapType DEF Level
<1> QED  BY <1>1, CapType DEF Rest, HasToken

LEMMA LevelLater ==
  ASSUME NEW t \in Nat, NEW b \in BucketAt(t), NEW d \in Nat
  PROVE  Level(b, t + d) = Later(Level(b, t), d)
BY BucketFields, CapType DEF Level, Later

\* Drawing takes Cost units out of a bucket that has them, and nothing else.
LEMMA DrawnLevel ==
  ASSUME NEW t \in Nat, NEW b \in BucketAt(t)
  PROVE  Drawn(b, t) \in BucketAt(t) /\ Level(Drawn(b, t), t) = Rest(b, t)
<1> DEFINE r == Rest(b, t)
<1>1. r \in 0..Cap /\ Cap \in Nat
  BY LevelType, CapType
<1>2. Drawn(b, t) = [tokens |-> r, lastRefill |-> t]
  BY DEF Drawn, Rest
<1> HIDE DEF r
<1>3. [tokens |-> r, lastRefill |-> t] \in BucketAt(t)
  BY <1>1 DEF BucketAt
<1>4. Level([tokens |-> r, lastRefill |-> t], t) = r
  BY <1>1 DEF Level
<1> QED  BY <1>2, <1>3, <1>4 DEF r

LEMMA FullType == now \in Nat => Full \in BucketAt(now) /\ Level(Full, now) = Cap
  BY CapType DEF Full, BucketAt, Level

LEMMA TypeInit == Init => TypeOK
<1> SUFFICES ASSUME Init PROVE TypeOK
  OBVIOUS
<1>1. Full \in Bucket
  BY FullType DEF Init, Bucket, BucketAt
<1>2. MaxRequests \in Nat \ {0} /\ 0 \in 0..(MaxRequests - 1) /\ MaxRequests \in 1..MaxRequests
  BY LimiterAssumption
<1> QED  BY <1>1, <1>2, LimiterAssumption DEF Init, TypeOK

\* What the lemmas about buckets need to be known of the state.
LEMMA Basics ==
  ASSUME TypeOK
  PROVE  /\ now \in Nat /\ Drift \in Nat /\ MaxTime \in Nat /\ MaxReloads \in Nat
         /\ since \in 0..now /\ passed \in Nat /\ reloads \in Nat
         /\ global \in BucketAt(now) /\ bucket \in [Clients -> BucketAt(now)]
         /\ MaxRequests \in Nat \ {0}
BY LimiterAssumption DEF TypeOK, Bucket, BucketAt

\* allow() moves the clock by d ticks; both buckets keep their type.
LEMMA AskType ==
  ASSUME TypeOK, NEW c \in Clients, NEW d \in Nat, Ask(c, d)
  PROVE  /\ now' = now + d
         /\ global' \in BucketAt(now') /\ bucket' \in [Clients -> BucketAt(now')]
<1>1. now' = now + d /\ now' \in Nat
  BY Basics DEF Ask
<1>2. BucketAt(now) \subseteq BucketAt(now')
  BY <1>1, Basics, BucketGrows
<1>3. global' \in BucketAt(now')
  BY <1>2, Basics, DrawnLevel DEF Ask
<1>4. bucket \in [Clients -> BucketAt(now')]
  BY <1>2, Basics
<1>5. Drawn(bucket[c], now') \in BucketAt(now')
  BY <1>1, <1>4, DrawnLevel
<1>6. bucket' \in [Clients -> BucketAt(now')]
  BY <1>1, <1>4, <1>5 DEF Ask
<1> QED  BY <1>1, <1>3, <1>6

LEMMA TypeStep == TypeOK /\ [Next]_vars => TypeOK'
<1> SUFFICES ASSUME TypeOK, [Next]_vars PROVE TypeOK'
  OBVIOUS
<1> USE DEF clock, traffic, config, window
<1>0. /\ now \in Nat /\ Drift \in Nat /\ MaxTime \in Nat /\ MaxReloads \in Nat
      /\ MaxRequests \in Nat \ {0} /\ Cardinality(open) \in Nat
  <2>1. IsFiniteSet(open)
    BY LimiterAssumption, FS_Subset DEF TypeOK
  <2> QED  BY <2>1, Basics, FS_CardinalityType
<1>1. ASSUME now' = now PROVE Bucket' = Bucket
  BY <1>1 DEF Bucket, Cap
<1>2. ASSUME NEW k \in Conns, NEW c \in Clients, Connect(k, c) PROVE TypeOK'
  <2>1. PICK d \in 0..Drift :
          /\ now + d <= MaxTime
          /\ Ask(c, d)
          /\ IF Allowed(c, d)
             THEN open' = open \cup {k} /\ passed' = passed + 1
             ELSE UNCHANGED <<open, passed>>
    BY <1>2 DEF Connect
  <2>2. /\ now' = now + d /\ now' \in 0..MaxTime
        /\ global' \in Bucket' /\ bucket' \in [Clients -> Bucket']
    BY <1>0, <2>1, AskType DEF Bucket, BucketAt, Cap
  <2>3. open' \in SUBSET Conns /\ passed' \in Nat /\ since \in 0..(now')
    BY <1>0, <2>1, <2>2 DEF TypeOK
  <2> QED  BY <1>2, <2>2, <2>3 DEF Connect, TypeOK
<1>3. ASSUME NEW k \in Conns, Request(k) PROVE TypeOK'
  <2>1. handled[k] + 1 < maxRequests => handled[k] + 1 \in 0..(MaxRequests - 1)
    BY <1>0 DEF TypeOK
  <2>2. open' \in SUBSET Conns /\ handled' \in [Conns -> 0..(MaxRequests - 1)]
    BY <1>0, <1>3, <2>1 DEF Request, Close, TypeOK
  <2> QED  BY <1>1, <1>3, <2>2 DEF Request, TypeOK
<1>4. ASSUME NEW k \in Conns, Disconnect(k) PROVE TypeOK'
  BY <1>0, <1>1, <1>4 DEF Disconnect, Close, TypeOK
<1>5. CASE InstallLimiter
  <2>1. Full \in Bucket
    BY <1>0, FullType DEF Bucket, BucketAt
  <2>2. loading' \in Nat /\ reloads' \in Nat /\ loading' + reloads' <= MaxReloads
    BY <1>0, <1>5 DEF InstallLimiter, TypeOK
  <2> QED  BY <1>1, <1>5, <2>1, <2>2 DEF InstallLimiter, TypeOK
<1>6. CASE Tick
  <2>1. now' = now + 1 /\ Bucket \subseteq Bucket'
    BY <1>0, <1>6 DEF Tick, Bucket, Cap
  <2>2. global \in Bucket' /\ bucket \in [Clients -> Bucket'] /\ since \in 0..(now')
    BY <1>0, <2>1 DEF TypeOK
  <2> QED  BY <1>0, <1>6, <2>2 DEF Tick, TypeOK
<1>7. CASE StartWindow
  BY <1>0, <1>1, <1>7 DEF StartWindow, TypeOK
<1>8. CASE ReadConfig \/ ReloadFails
  BY <1>0, <1>1, <1>8 DEF ReadConfig, ReloadFails, TypeOK
<1>9. CASE UNCHANGED vars
  BY <1>1, <1>9 DEF vars, TypeOK
<1> QED  BY <1>2, <1>3, <1>4, <1>5, <1>6, <1>7, <1>8, <1>9 DEF Next

\* Buckets hold between nothing and their burst, at any time.
THEOREM TypeCorrect == Spec => []TypeOK
  BY TypeInit, TypeStep, PTL DEF Spec

--------------------------------------------------------------------------------
(* The rate *)

\* What passed, and what could pass right now, are covered by the budget.
Budget == Level(global, now) + Cost * passed <= Cap * (1 + reloads) + (now - since)

LEMMA BudgetStep == TypeOK /\ Budget /\ [Next]_vars => Budget'
<1> SUFFICES ASSUME TypeOK, Budget, [Next]_vars PROVE Budget'
  OBVIOUS
<1> USE DEF clock, traffic, config, window
<1> DEFINE p == Cost * passed
           r == Cap * (1 + reloads)
           g == Level(global, now)
<1>0. /\ now \in Nat /\ since \in 0..now /\ passed \in Nat /\ reloads \in Nat
      /\ global \in BucketAt(now) /\ g \in 0..Cap
      /\ Cap \in Nat /\ Cost \in Nat /\ p \in Nat /\ r \in Nat /\ Cap <= r
  <2>1. Cap \in Nat /\ Cost \in Nat
    BY CapType
  <2>2. p \in Nat
    BY <2>1, Basics
  <2>3. r = Cap * reloads + Cap /\ Cap * reloads \in Nat
    BY <2>1, Basics
  <2> QED  BY <2>1, <2>2, <2>3, Basics, LevelType
<1>1. g + p <= r + (now - since)
  BY DEF Budget
<1>2. ASSUME UNCHANGED <<now, global, since, passed, reloads>> PROVE Budget'
  BY <1>2 DEF Budget, Level, Cap
<1>3. ASSUME NEW k \in Conns, NEW c \in Clients, Connect(k, c) PROVE Budget'
  <2>1. PICK d \in 0..Drift :
          /\ Ask(c, d)
          /\ IF Allowed(c, d) THEN passed' = passed + 1 ELSE passed' = passed
    BY <1>3 DEF Connect
  <2>2. d \in Nat /\ now' = now + d /\ global' = Drawn(global, now)
    BY <2>1, Basics DEF Ask
  <2>3. Level(global, now)' = Later(Rest(global, now), d)
    <3>1. Level(global', now + d) = Later(Rest(global, now), d)
      BY <1>0, <2>2, DrawnLevel, LevelLater
    <3> QED  BY <2>2, <3>1 DEF Level, Cap
  <2>4. \/ passed' = passed /\ Rest(global, now) <= g
        \/ passed' = passed + 1 /\ Rest(global, now) = g - Cost
    BY <1>0, <2>1 DEF Allowed, Rest
  <2>5. Later(Rest(global, now), d) <= Rest(global, now) + d
    BY <1>0, <2>2, LevelType DEF Later
  <2>6. Cost * passed' = p \/ (passed' = passed + 1 /\ Cost * passed' = p + Cost)
    BY <1>0, <2>4, NextMultiple
  <2>7. UNCHANGED <<since, reloads>> /\ Cap' = Cap
    BY <1>3 DEF Connect, Cap
  <2>8. Later(Rest(global, now), d) + Cost * passed' <= r + ((now + d) - since)
    <3>1. Rest(global, now) \in Int /\ Later(Rest(global, now), d) \in Int /\ passed # passed + 1
      BY <1>0, <2>2, LevelType DEF Later
    <3>2. Rest(global, now) + Cost * passed' <= g + p
      <4> HIDE DEF p, g
      <4>1. CASE passed' = passed
        BY <1>0, <2>4, <2>6, <3>1, <4>1
      <4>2. CASE passed' = passed + 1 /\ Rest(global, now) = g - Cost
        <5>1. Cost * passed' = p + Cost
          BY <1>0, <4>2, NextMultiple DEF p
        <5> QED  BY <1>0, <3>1, <4>2, <5>1
      <4> QED  BY <2>4, <4>1, <4>2
    <3> HIDE DEF p, r, g
    <3>3. Cost * passed' \in Int
      BY <1>0, <2>6
    <3> QED  BY <1>0, <1>1, <2>2, <2>5, <3>1, <3>2, <3>3
  <2> QED  BY <2>2, <2>3, <2>7, <2>8 DEF Budget
<1>4. CASE InstallLimiter
  <2>1. UNCHANGED <<now, since, passed>> /\ reloads' = reloads + 1 /\ global' = Full
    BY <1>4 DEF InstallLimiter
  <2>2. Level(global, now)' = Cap
    BY <1>0, <2>1, FullType DEF Level, Full, Cap
  <2>3. Cap * (1 + reloads') = r + Cap
    BY <1>0, <2>1
  <2>4. Cap + p <= r + Cap + (now - since)
    <3> HIDE DEF p, r, g
    <3> QED  BY <1>0, <1>1
  <2> QED  BY <2>1, <2>2, <2>3, <2>4 DEF Budget, Cap
<1>5. CASE Tick
  <2>1. UNCHANGED <<global, since, passed, reloads>> /\ now' = now + 1
    BY <1>5 DEF Tick
  <2>2. Level(global, now)' = Later(g, 1)
    <3>1. Level(global, now + 1) = Later(g, 1)
      BY <1>0, LevelLater
    <3> QED  BY <2>1, <3>1 DEF Level, Cap
  <2>3. Later(g, 1) <= g + 1 /\ Later(g, 1) \in Int
    BY <1>0 DEF Later
  <2>4. Later(g, 1) + p <= r + ((now + 1) - since)
    <3> HIDE DEF p, r, g
    <3> QED  BY <1>0, <1>1, <2>3
  <2>5. Cap' = Cap /\ (Cost * passed)' = p /\ (Cap * (1 + reloads))' = r
    BY <2>1 DEF Cap
  <2> QED  BY <2>1, <2>2, <2>4, <2>5 DEF Budget
<1>6. CASE StartWindow
  <2>1. UNCHANGED <<now, global>> /\ since' = now /\ passed' = 0 /\ reloads' = 0
    BY <1>6 DEF StartWindow
  <2>2. Level(global, now)' = Level(global, now) /\ Cap' = Cap
    BY <2>1 DEF Level, Cap
  <2>3. Cost * 0 = 0 /\ Cap * (1 + 0) = Cap
    BY <1>0
  <2> QED  BY <1>0, <2>1, <2>2, <2>3 DEF Budget
<1>7. ASSUME NEW k \in Conns, Request(k) \/ Disconnect(k) PROVE Budget'
  BY <1>2, <1>7 DEF Request, Disconnect
<1>8. CASE ReadConfig \/ ReloadFails \/ UNCHANGED vars
  BY <1>2, <1>8 DEF ReadConfig, ReloadFails, vars
<1> QED  BY <1>3, <1>4, <1>5, <1>6, <1>7, <1>8 DEF Next

\* In no window of time more connections pass than the burst, once per reload,
\* and what flowed in.
THEOREM RateKept == Spec => []RateBound
<1>1. Init => Budget
  <2> SUFFICES ASSUME Init PROVE Budget
    OBVIOUS
  <2>1. Level(global, now) = Cap
    BY FullType DEF Init
  <2>2. Cost * 0 = 0 /\ Cap * (1 + 0) = Cap
    BY CapType
  <2> QED  BY <2>1, <2>2, CapType DEF Init, Budget
<1>2. TypeOK /\ Budget => RateBound
  <2> SUFFICES ASSUME TypeOK, Budget PROVE RateBound
    OBVIOUS
  <2>1. /\ Level(global, now) \in 0..Cap /\ Cap \in Nat
        /\ now \in Nat /\ since \in Nat /\ passed \in Nat /\ reloads \in Nat
    BY Basics, LevelType, CapType
  <2>2. Cost * passed \in Int /\ Cap * (1 + reloads) \in Int
    BY <2>1, CapType
  <2> QED  BY <2>1, <2>2 DEF Budget, RateBound
<1> QED  BY <1>1, <1>2, BudgetStep, TypeCorrect, PTL DEF Spec

--------------------------------------------------------------------------------
(* The second check *)

\* What one question does to the level of a client's bucket and of the global one, d
\* ticks later: pure arithmetic on the two levels.
LEMMA Behind ==
  ASSUME NEW g \in 0..Cap, NEW l \in 0..Cap, NEW d \in 0..Drift, l + Drift >= g
  PROVE  /\ Later(l, d) + Drift >= Later(g, d)
         /\ g >= Cost => Later(l, d) + Drift >= Later(g - Cost, d)
         /\ g >= Cost /\ Later(l, d) >= Cost
              => (Later(l, d) - Cost) + Drift >= Later(g - Cost, d)
<1>1. Cap \in Nat /\ Cost \in Nat \ {0} /\ Drift \in Nat
  BY CapType, LimiterAssumption
<1> QED  BY <1>1 DEF Later

LEMMA KeepsUpStep == TypeOK /\ ClientKeepsUp /\ [Next]_vars => ClientKeepsUp'
<1> SUFFICES ASSUME TypeOK, ClientKeepsUp, [Next]_vars PROVE ClientKeepsUp'
  OBVIOUS
<1> USE DEF clock, traffic, config, window
<1>0. /\ now \in Nat /\ Drift \in Nat /\ Cap \in Nat /\ Cost \in Nat \ {0}
      /\ global \in BucketAt(now) /\ Level(global, now) \in 0..Cap
      /\ bucket \in [Clients -> BucketAt(now)]
      /\ \A c \in Clients : bucket[c] \in BucketAt(now) /\ Level(bucket[c], now) \in 0..Cap
  BY Basics, LevelType, CapType
<1>1. ASSUME UNCHANGED <<now, global, bucket>> PROVE ClientKeepsUp'
  BY <1>1 DEF ClientKeepsUp, Level, Cap
<1>2. ASSUME NEW k \in Conns, NEW c \in Clients, Connect(k, c) PROVE ClientKeepsUp'
  <2>1. PICK d \in 0..Drift : Ask(c, d)
    BY <1>2 DEF Connect
  <2>2. d \in Nat /\ now' = now + d /\ global' = Drawn(global, now)
    BY <1>0, <2>1 DEF Ask
  <2>3. Level(global', now') = Later(Rest(global, now), d)
    BY <1>0, <2>2, DrawnLevel, LevelLater
  <2>4. ASSUME NEW e \in Clients
        PROVE  Level(bucket'[e], now') + Drift >= Level(global', now')
    <3> DEFINE g == Level(global, now)
               l == Level(bucket[e], now)
    <3>1. g \in 0..Cap /\ l \in 0..Cap /\ l + Drift >= g
      BY <1>0 DEF ClientKeepsUp
    <3>2. Level(bucket[e], now') = Later(l, d)
      BY <1>0, <2>2, LevelLater
    <3>3. CASE bucket'[e] = bucket[e]
      <4>1. Rest(global, now) = IF g >= Cost THEN g - Cost ELSE g
        BY DEF Rest, HasToken
      <4> HIDE DEF g, l
      <4> QED  BY <2>3, <3>1, <3>2, <3>3, <4>1, Behind
    <3>4. CASE g >= Cost /\ bucket'[e] = Drawn(bucket[e], now')
      <4>1. bucket[e] \in BucketAt(now') /\ now' \in Nat
        BY <1>0, <2>2, BucketGrows
      <4>2. Level(bucket'[e], now') = Rest(bucket[e], now')
        BY <3>4, <4>1, DrawnLevel
      <4>3. Rest(bucket[e], now') = IF Later(l, d) >= Cost THEN Later(l, d) - Cost
                                    ELSE Later(l, d)
        BY <3>2 DEF Rest, HasToken
      <4>4. Rest(global, now) = g - Cost
        BY <3>4 DEF Rest, HasToken
      <4> HIDE DEF g, l
      <4> QED  BY <2>3, <3>1, <3>4, <4>2, <4>3, <4>4, Behind
    <3> QED  BY <1>0, <2>1, <2>2, <3>3, <3>4 DEF Ask, HasToken
  <2> QED  BY <2>4 DEF ClientKeepsUp, Level, Cap
<1>3. CASE InstallLimiter
  <2>1. \A c \in Clients : bucket'[c] = global'
    BY <1>3 DEF InstallLimiter
  <2>2. now' = now /\ global' = Full /\ Level(Full, now) = Cap
    BY <1>0, <1>3, FullType DEF InstallLimiter
  <2>3. \A c \in Clients : Level(bucket'[c], now') = Cap /\ Level(global', now') = Cap
    BY <2>1, <2>2
  <2> QED  BY <1>0, <2>3 DEF ClientKeepsUp, Level, Cap
<1>4. CASE Tick
  <2>1. now' = now + 1 /\ UNCHANGED <<global, bucket>>
    BY <1>4 DEF Tick
  <2>2. ASSUME NEW c \in Clients
        PROVE  Level(bucket[c], now + 1) + Drift >= Level(global, now + 1)
    <3>1. /\ Level(bucket[c], now + 1) = Later(Level(bucket[c], now), 1)
          /\ Level(global, now + 1) = Later(Level(global, now), 1)
      BY <1>0, LevelLater
    <3>2. Level(bucket[c], now) + Drift >= Level(global, now)
      BY DEF ClientKeepsUp
    <3> QED  BY <1>0, <3>1, <3>2 DEF Later
  <2> QED  BY <2>1, <2>2 DEF ClientKeepsUp, Level, Cap
<1>5. CASE StartWindow \/ ReadConfig \/ ReloadFails \/ UNCHANGED vars
  BY <1>1, <1>5 DEF StartWindow, ReadConfig, ReloadFails, vars
<1>6. ASSUME NEW k \in Conns, Request(k) \/ Disconnect(k) PROVE ClientKeepsUp'
  BY <1>1, <1>6 DEF Request, Disconnect
<1> QED  BY <1>2, <1>3, <1>4, <1>5, <1>6 DEF Next

\* With per_client, what the global bucket lets through is refused at most by a client's
\* bucket that lacks what flows in between the two clock readings of allow().
THEOREM ClientBucketKeepsUp == Spec => []ClientKeepsUp
<1>1. Init => ClientKeepsUp
  <2> SUFFICES ASSUME Init PROVE ClientKeepsUp
    OBVIOUS
  <2>1. Level(Full, now) = Cap /\ Cap \in Nat /\ Drift \in Nat
    BY FullType, CapType, LimiterAssumption DEF Init
  <2> QED  BY <2>1 DEF Init, ClientKeepsUp
<1> QED  BY <1>1, KeepsUpStep, TypeCorrect, PTL DEF Spec

--------------------------------------------------------------------------------
(* Requests *)

AllRequests == Conns \X (1..MaxRequests)

\* The requests that may still be sent on the connections that are open.
Outstanding == {r \in AllRequests : r[1] \in open /\ r[2] > handled[r[1]]}

\* Requests served, and those that may follow without a new connection, are paid
\* for by the connections of the window and by those from before.
Paid ==
  /\ served + Cardinality(Outstanding) <= MaxRequests * (passed + before)
  /\ \A k \in Conns \ open : handled[k] = 0

\* The requests of the connections in K.
LEMMA RequestsOf ==
  ASSUME NEW K \in SUBSET Conns
  PROVE  /\ IsFiniteSet(K \X (1..MaxRequests))
         /\ Cardinality(K \X (1..MaxRequests)) = MaxRequests * Cardinality(K)
         /\ Cardinality(K) \in Nat /\ MaxRequests \in Nat \ {0}
<1>1. IsFiniteSet(K) /\ MaxRequests \in Nat \ {0} /\ Cardinality(K) \in Nat
  BY LimiterAssumption, FS_Subset, FS_CardinalityType
<1>2. IsFiniteSet(1..MaxRequests) /\ Cardinality(1..MaxRequests) = MaxRequests
  BY <1>1, FS_Interval
<1>3. /\ IsFiniteSet(K \X (1..MaxRequests))
      /\ Cardinality(K \X (1..MaxRequests)) = Cardinality(K) * MaxRequests
  BY <1>1, <1>2, FS_Product
<1> QED  BY <1>1, <1>3

\* Any set of requests of them is finite, and no larger.
LEMMA SomeRequests ==
  ASSUME NEW K \in SUBSET Conns, NEW R \in SUBSET (K \X (1..MaxRequests))
  PROVE  /\ IsFiniteSet(R) /\ Cardinality(R) \in Nat
         /\ Cardinality(R) <= MaxRequests * Cardinality(K)
<1>1. /\ IsFiniteSet(K \X (1..MaxRequests))
      /\ Cardinality(K \X (1..MaxRequests)) = MaxRequests * Cardinality(K)
  BY RequestsOf
<1>2. IsFiniteSet(R) /\ Cardinality(R) <= Cardinality(K \X (1..MaxRequests))
  BY <1>1, FS_Subset
<1> QED  BY <1>1, <1>2, FS_CardinalityType

LEMMA OutstandingType ==
  /\ Outstanding \in SUBSET (Conns \X (1..MaxRequests))
  /\ IsFiniteSet(Outstanding) /\ Cardinality(Outstanding) \in Nat
<1>1. Outstanding \in SUBSET (Conns \X (1..MaxRequests))
  BY DEF Outstanding, AllRequests
<1> QED  BY <1>1, SomeRequests

\* A connection that closes, or counts a request, leaves fewer requests to send.
LEMMA RequestTakesOne ==
  ASSUME TypeOK, NEW k \in open,
         \/ handled' = [handled EXCEPT ![k] = @ + 1] /\ open' = open
         \/ Close(k)
  PROVE  Cardinality(Outstanding') + 1 <= Cardinality(Outstanding)
<1>0. /\ k \in Conns /\ MaxRequests \in Nat \ {0} /\ handled[k] + 1 \in 1..MaxRequests
      /\ handled \in [Conns -> 0..(MaxRequests - 1)]
  <2>1. k \in Conns /\ handled[k] \in 0..(MaxRequests - 1) /\ MaxRequests \in Nat \ {0}
    BY LimiterAssumption DEF TypeOK
  <2> QED  BY <2>1 DEF TypeOK
<1> DEFINE r == <<k, handled[k] + 1>>
<1>1. r \in Outstanding
  BY <1>0 DEF Outstanding, AllRequests
<1>2. Outstanding' \subseteq Outstanding \ {r}
  <2> SUFFICES ASSUME NEW c \in Conns, NEW i \in 1..MaxRequests, c \in open', i > handled'[c]
               PROVE  c \in open /\ i > handled[c] /\ <<c, i>> # r
    BY DEF Outstanding, AllRequests
  <2> QED  BY <1>0 DEF Close
<1>3. /\ IsFiniteSet(Outstanding \ {r})
      /\ Cardinality(Outstanding \ {r}) = Cardinality(Outstanding) - 1
  BY <1>1, OutstandingType, FS_RemoveElement
<1>4. Cardinality(Outstanding') <= Cardinality(Outstanding) - 1
      /\ Cardinality(Outstanding') \in Nat
  BY <1>2, <1>3, FS_Subset, FS_CardinalityType
<1> QED  BY <1>4, OutstandingType

LEMMA PaidStep == TypeOK /\ Paid /\ [Next]_vars => Paid'
<1> SUFFICES ASSUME TypeOK, Paid, [Next]_vars PROVE Paid'
  OBVIOUS
<1> USE DEF clock, traffic, config, window
<1> DEFINE o == Cardinality(Outstanding)
<1>0. /\ MaxRequests \in Nat \ {0} /\ passed \in Nat /\ served \in Nat /\ before \in Nat
      /\ open \in SUBSET Conns /\ handled \in [Conns -> 0..(MaxRequests - 1)]
      /\ o \in Nat /\ IsFiniteSet(Outstanding)
      /\ served + o <= MaxRequests * (passed + before)
      /\ MaxRequests * (passed + before) \in Nat
  BY LimiterAssumption, OutstandingType DEF TypeOK, Paid
<1>1. ASSUME UNCHANGED <<open, handled, before, passed, served>> PROVE Paid'
  BY <1>1 DEF Paid, Outstanding, AllRequests
<1>2. ASSUME NEW k \in Conns, NEW c \in Clients, Connect(k, c) PROVE Paid'
  <2>1. k \notin open /\ UNCHANGED <<handled, served, before>> /\ handled[k] = 0
    BY <1>2 DEF Connect, Paid
  <2>2. CASE UNCHANGED <<open, passed>>
    BY <1>1, <2>1, <2>2
  <2>3. CASE open' = open \cup {k} /\ passed' = passed + 1
    <3> DEFINE N == {k} \X (1..MaxRequests)
    <3>1. Outstanding' = Outstanding \cup N /\ Outstanding \cap N = {}
      <4>1. ASSUME NEW d \in Conns, NEW i \in 1..MaxRequests
            PROVE  /\ d = k => i > handled[d]
                   /\ d = k => d \notin open
        BY <1>0, <2>1
      <4> QED  BY <1>0, <2>1, <2>3, <4>1 DEF Outstanding, AllRequests
    <3>2. IsFiniteSet(N) /\ Cardinality(N) = MaxRequests
      <4>1. Cardinality({k}) = 1
        BY FS_Singleton
      <4> QED  BY <1>0, <4>1, RequestsOf
    <3>3. o' = o + MaxRequests
      <4>1. Cardinality(Outstanding \cup N)
              = o + MaxRequests - Cardinality(Outstanding \cap N)
        BY <1>0, <3>2, FS_Union
      <4>2. Cardinality(Outstanding \cap N) = 0
        BY <3>1, FS_EmptySet
      <4>3. o' = Cardinality(Outstanding \cup N)
        BY <3>1
      <4> HIDE DEF o, N
      <4> QED  BY <1>0, <4>1, <4>2, <4>3
    <3>4. MaxRequests * (passed' + before) = MaxRequests * (passed + before) + MaxRequests
      BY <1>0, <2>3
    <3>5. \A d \in Conns \ open' : handled'[d] = 0
      BY <2>1, <2>3 DEF Paid
    <3> HIDE DEF o
    <3>6. served' + o' <= MaxRequests * (passed' + before')
      BY <1>0, <2>1, <3>3, <3>4
    <3> QED  BY <3>5, <3>6 DEF Paid, o
  <2> QED  BY <1>2, <2>2, <2>3 DEF Connect
<1>3. ASSUME NEW k \in Conns, Request(k) \/ Disconnect(k) PROVE Paid'
  <2>1. k \in open /\ UNCHANGED <<before, passed>> /\ served' \in {served, served + 1}
    BY <1>3 DEF Request, Disconnect
  <2>2. \/ handled' = [handled EXCEPT ![k] = @ + 1] /\ open' = open
        \/ Close(k)
    BY <1>3 DEF Request, Disconnect
  <2>3. o' + 1 <= o /\ o' \in Nat
    <3>1. Cardinality(Outstanding') + 1 <= Cardinality(Outstanding)
      BY <2>1, <2>2, RequestTakesOne
    <3>2. Outstanding' \in SUBSET (Conns \X (1..MaxRequests))
      BY DEF Outstanding, AllRequests
    <3> QED  BY <3>1, <3>2, SomeRequests
  <2>4. \A c \in Conns \ open' : handled'[c] = 0
    BY <1>0, <2>1, <2>2 DEF Close, Paid
  <2> QED  BY <1>0, <2>1, <2>3, <2>4 DEF Paid
<1>4. CASE StartWindow
  <2>1. served' = 0 /\ passed' = 0 /\ before' = Cardinality(open) /\ before' \in Nat
        /\ UNCHANGED <<open, handled>>
    BY <1>0, <1>4, RequestsOf DEF StartWindow
  <2>2. Outstanding' = Outstanding
    BY <2>1 DEF Outstanding, AllRequests
  <2>3. Outstanding \in SUBSET (open \X (1..MaxRequests))
    BY DEF Outstanding, AllRequests
  <2>4. o <= MaxRequests * Cardinality(open)
    BY <1>0, <2>3, SomeRequests
  <2>5. MaxRequests * (passed' + before') = MaxRequests * Cardinality(open)
    BY <1>0, <2>1
  <2>6. \A c \in Conns \ open' : handled'[c] = 0
    BY <2>1 DEF Paid
  <2> QED  BY <1>0, <2>1, <2>2, <2>4, <2>5, <2>6 DEF Paid
<1>5. CASE ReadConfig \/ InstallLimiter \/ ReloadFails \/ Tick \/ UNCHANGED vars
  BY <1>1, <1>5 DEF ReadConfig, InstallLimiter, ReloadFails, Tick, vars
<1> QED  BY <1>2, <1>3, <1>4, <1>5 DEF Next

\* The limit on connections limits requests as well: the largest max_requests for
\* each connection that passed in the window or was open before, whatever addresses
\* they come from and however reloads change the limit under them.
THEOREM LoadKept == Spec => []LoadBound
<1>1. Init => Paid
  <2> SUFFICES ASSUME Init PROVE Paid
    OBVIOUS
  <2>1. Outstanding = {} /\ Cardinality({}) = 0
    BY FS_EmptySet DEF Init, Outstanding
  <2>2. MaxRequests * (0 + 0) = 0
    BY LimiterAssumption
  <2> QED  BY <2>1, <2>2 DEF Init, Paid
<1>2. TypeOK /\ Paid => LoadBound
  <2> SUFFICES ASSUME TypeOK, Paid PROVE LoadBound
    OBVIOUS
  <2>1. Cardinality(Outstanding) \in Nat /\ served \in Nat
        /\ passed + before \in Nat /\ MaxRequests \in Nat
    BY OutstandingType, LimiterAssumption DEF TypeOK
  <2>2. MaxRequests * (passed + before) \in Nat
    BY <2>1
  <2> QED  BY <2>1, <2>2 DEF Paid, LoadBound
<1> QED  BY <1>1, <1>2, PaidStep, TypeCorrect, PTL DEF Spec
================================================================================
